--------------------------- MODULE ProviderAnswers ---------------------------
(***************************************************************************)
(* How the answer of a CLI becomes the windows of a snapshot               *)
(* (src/apps/rust/src/providers/codex.rs and antigravity.rs), and which of *)
(* them the popover's card and its compact row show                        *)
(* (src/apps/rust/src/ui/presentation.rs and compact.rs).                  *)
(*                                                                         *)
(* A window of a snapshot has an id, a kind, and the used percentage or    *)
(* NoValue, which is when it is not fresh.  Of a Codex window the length   *)
(* in minutes and the used percentage matter; a reset time that is no date *)
(* makes the window as invalid as a percentage out of range.  A limit is   *)
(* known by the lower-case form of its key, by whether its key, id or name *)
(* is codex, and by whether its label starts with gpt-reserve.  A Codex    *)
(* window says which slot of the answer it is from: only properties look.  *)
(***************************************************************************)
EXTENDS Integers, Sequences, Sifting

CONSTANTS
    NoValue,        \* a percentage or a fraction that is not there
    Invalid         \* one that is not a number in range

FiveHour == 300
Weekly == 10080

ASSUME NoValues == NoValue \notin Int /\ Invalid \notin Int /\ NoValue # Invalid

Window(id, kind, used) == [id |-> id, kind |-> kind, used |-> used]

Fresh(w) == w.used # NoValue

Answer(code, windows) == [code |-> code, windows |-> windows]

(* -- Codex: three requests over the app server's lines ------------------- *)

\* read_response_matching_id: lines with another id, or none, are skipped; at
\* the end the process has gone or says nothing more.
Response(lines, id, after, ending) ==
    LET mine == FirstOf({i \in DOMAIN lines : after < i /\ lines[i].id = id})
    IN  IF mine = 0
        THEN [code |-> IF ending = "gone" THEN "process_failed" ELSE "timeout", at |-> Len(lines)]
        ELSE [code |-> CASE lines[mine].body = "error" -> "unavailable"
                         [] lines[mine].body = "result" -> "ok"
                         [] OTHER -> "unsupported_output",
              at |-> mine]

\* initialize, initialized, account/read and, if somebody is signed in,
\* rateLimits/read; failing is the one that cannot be written, or 0.
RpcSession(lines, ending, signedIn, failing) ==
    LET first  == Response(lines, 1, 0, ending)
        second == Response(lines, 2, first.at, ending)
        third  == Response(lines, 3, second.at, ending)
    IN  IF failing = 1 THEN "process_failed"
        ELSE IF first.code # "ok" THEN first.code
        ELSE IF failing \in {2, 3} THEN "process_failed"
        ELSE IF second.code # "ok" THEN second.code
        ELSE IF ~signedIn THEN "ok"
        ELSE IF failing = 4 THEN "process_failed" ELSE third.code

CodexWindow(id, kind, used, from, reserve) ==
    [id |-> id, kind |-> kind, used |-> used, from |-> from, reserve |-> reserve]

ExpectedUnavailable ==
    <<CodexWindow(<<"codex", "five-hour">>, "FiveHour", NoValue, <<>>, FALSE),
      CodexWindow(<<"codex", "weekly">>, "Weekly", NoValue, <<>>, FALSE)>>

\* The slots of an answer, the base limits' first, that are there.
SlotAt(limits, place) ==
    LET limit == IF place[1] = 0 THEN limits ELSE limits.byId[place[1]]
    IN  IF place[2] = "primary" THEN limit.primary ELSE limit.secondary

Given(limits) ==
    {place \in (0..Len(limits.byId)) \X {"primary", "secondary"} :
        SlotAt(limits, place) # NoValue}

\* The base limits: a window of another length is known by its place only.
BaseWindow(limits, place, length, expected, otherId) ==
    LET slot == SlotAt(limits, place)
    IN  IF slot = NoValue THEN expected
        ELSE IF slot.minutes = length
        THEN CodexWindow(expected.id, expected.kind, slot.used, place, FALSE)
        ELSE CodexWindow(otherId, "Other", slot.used, place, FALSE)

FreshPlaces(windows, kind) ==
    {i \in DOMAIN windows : windows[i].kind = kind /\ Fresh(windows[i])}

\* Limits by id, in the order of their keys.  One that is codex stands in for an
\* account's weekly window that is missing.
LimitWindow(limits, place, weekly) ==
    LET slot  == SlotAt(limits, place)
        limit == limits.byId[place[1]]
    IN  IF slot = NoValue THEN <<>>
        ELSE <<CodexWindow(<<"codex", limit.id, place[2]>>,
                           IF slot.minutes = Weekly THEN weekly ELSE "Other",
                           slot.used, place, limit.reserve /\ place[2] = "secondary")>>

LimitWindows(windows, limits, k) ==
    LET weekly == IF limits.byId[k].codex /\ FreshPlaces(windows, "Weekly") = {}
                  THEN "Weekly" ELSE "ModelWeekly"
    IN  windows \o LimitWindow(limits, <<k, "primary">>, weekly)
                \o LimitWindow(limits, <<k, "secondary">>, weekly)

\* Mutant: a second window of a kind takes the place of the first.
SelectOnly(windows) ==
    [i \in 1..2 |->
        LET at == FirstOf(FreshPlaces(windows, <<"FiveHour", "Weekly">>[i]))
        IN  IF at = 0 THEN ExpectedUnavailable[i] ELSE windows[at]]

\* The first fresh window of each account kind, then every other fresh one.
Selected(windows) ==
    LET five == FirstOf(FreshPlaces(windows, "FiveHour"))
        week == FirstOf(FreshPlaces(windows, "Weekly"))
        others == {i \in DOMAIN windows : i \notin {five, week} /\ Fresh(windows[i])}
    IN  <<IF five = 0 THEN ExpectedUnavailable[1] ELSE windows[five],
          IF week = 0 THEN ExpectedUnavailable[2] ELSE windows[week]>>
        \o Sift(windows, others)

BaseWindows(limits) ==
    <<BaseWindow(limits, <<0, "primary">>, FiveHour, ExpectedUnavailable[1],
                 <<"codex", "base-primary">>),
      BaseWindow(limits, <<0, "secondary">>, Weekly, ExpectedUnavailable[2],
                 <<"codex", "base-secondary">>)>>

AllWindows(limits) ==
    LET upTo[i \in 0..Len(limits.byId)] ==
            IF i = 0 THEN BaseWindows(limits) ELSE LimitWindows(upTo[i - 1], limits, i)
    IN  upTo[Len(limits.byId)]

NormalizeLimits(limits) == Selected(AllWindows(limits))

\* Nobody signed in, a value out of range, or the windows.
NormalizeSnapshot(signedIn, limits) ==
    IF ~signedIn THEN Answer("not_authenticated", ExpectedUnavailable)
    ELSE IF \E place \in Given(limits) : SlotAt(limits, place).used = Invalid
    THEN Answer("unsupported_output", ExpectedUnavailable)
    ELSE Answer("fresh", NormalizeLimits(limits))

\* The app server is started, asked and killed.
CodexAnswer(lines, ending, signedIn, failing, limits) ==
    LET code == RpcSession(lines, ending, signedIn, failing)
    IN  IF ending = "missing" THEN Answer("not_installed", ExpectedUnavailable)
        ELSE IF ending = "unstartable" THEN Answer("process_failed", ExpectedUnavailable)
        ELSE IF code # "ok" THEN Answer(code, ExpectedUnavailable)
        ELSE NormalizeSnapshot(signedIn, limits)

(* -- Antigravity: two commands, the second of which prints JSON ----------- *)

\* A command ends well, fails with a message, cannot start or takes too long.
CommandCode(outcome) ==
    CASE outcome \in {"timeout", "process_failed"} -> outcome
      [] outcome = "auth" -> "not_authenticated"
      [] outcome = "limit" -> "rate_limited"
      [] outcome = "network" -> "network"
      [] outcome = "missing" -> "process_failed"
      [] OTHER -> "ok"

VersionCode(outcome) == IF outcome = "missing" THEN "not_installed" ELSE CommandCode(outcome)

KnownBuckets(group) ==
    LET known == Sift(group.buckets, {b \in DOMAIN group.buckets :
                                         /\ group.name \in {"gemini", "claude-gpt"}
                                         /\ group.buckets[b].window \in {"weekly", "5h"}})
    IN  [b \in DOMAIN known |-> [group |-> group.name, bucket |-> known[b]]]

AllBuckets(groups) ==
    LET upTo[g \in 0..Len(groups)] ==
            IF g = 0 THEN <<>> ELSE upTo[g - 1] \o KnownBuckets(groups[g])
    IN  upTo[Len(groups)]

BucketWindow(known) ==
    Window(<<"agy", known.group, known.bucket.window>>,
           IF known.bucket.window = "weekly" THEN "ModelWeekly" ELSE "FiveHour",
           IF known.bucket.remaining = NoValue THEN NoValue
           ELSE 100 - known.bucket.remaining)

\* expected: the response's own status, turns and command name are right.
AntigravityAnswer(version, usage, expected, groups) ==
    LET known == AllBuckets(groups)
    IN  IF VersionCode(version) # "ok" THEN Answer(VersionCode(version), <<>>)
        ELSE IF CommandCode(usage) # "ok" THEN Answer(CommandCode(usage), <<>>)
        ELSE IF ~expected \/ \E i \in DOMAIN known : known[i].bucket.remaining = Invalid
        THEN Answer("unsupported_output", <<>>)
        ELSE Answer("fresh", [i \in DOMAIN known |-> BucketWindow(known[i])])

(* -- Claude: the windows of its screen get their ids ---------------------- *)

ClaudeWindows(parsed, kindOf) ==
    [i \in DOMAIN parsed |->
        Window(<<"claude", parsed[i].scope>>, kindOf[parsed[i].scope], parsed[i].used)]

(* -- what a card shows --------------------------------------------------- *)

FirstWhere(windows, places) ==
    IF places = {} THEN <<>> ELSE <<windows[FirstOf(places)]>>

ById(windows, id) == FirstWhere(windows, {i \in DOMAIN windows : windows[i].id = id})

ByKind(windows, kind) == FirstWhere(windows, {i \in DOMAIN windows : windows[i].kind = kind})

Fable(w) == w.kind = "ModelWeekly" /\ w.id = <<"claude", "fable">>

PrimaryWindows(provider, windows) ==
    CASE provider = "antigravity" ->
             ById(windows, <<"agy", "gemini", "5h">>) \o ById(windows, <<"agy", "gemini", "weekly">>)
      [] provider = "codex" -> ByKind(windows, "Weekly")
      [] OTHER -> ByKind(windows, "FiveHour") \o ByKind(windows, "Weekly")
                  \o FirstWhere(windows, {i \in DOMAIN windows : Fable(windows[i])})

\* Codex shows the limits by id, but not the weekly reserve.
Shown(provider, w) ==
    \/ provider # "codex"
    \/ w.kind = "ModelWeekly" /\ ~w.reserve
    \/ w.kind = "Other" /\ Len(w.id) = 3

AdditionalWindows(provider, windows) ==
    LET primary == PrimaryWindows(provider, windows)
    IN  Sift(windows, {i \in DOMAIN windows :
                          /\ ~\E p \in DOMAIN primary : primary[p].id = windows[i].id
                          /\ ~\E j \in 1..i - 1 : windows[j].id = windows[i].id
                          /\ Shown(provider, windows[i])})

\* The compact row: one window of each length.
CompactFive(provider, windows) ==
    FirstWhere(windows, {i \in DOMAIN windows :
                            \/ windows[i].kind = "FiveHour"
                            \/ provider = "antigravity"
                               /\ windows[i].id = <<"agy", "gemini", "5h">>})

CompactWeekly(provider, windows) ==
    LET own == ById(windows, <<"agy", "gemini", "weekly">>)
    IN  IF provider = "antigravity" /\ own # <<>> THEN own ELSE ByKind(windows, "Weekly")
=============================================================================
