---------------------------- MODULE ClaudeScreen ----------------------------
(***************************************************************************)
(* What the Claude provider reads from the text of the usage panel         *)
(* (parse_claude_usage_screen in src/apps/rust/src/providers/claude.rs).   *)
(* A line is a header of a scope, a percentage with its word ("used",      *)
(* "left" or "none"), an advertisement or another text; any of them may    *)
(* name a reset: reset is <<>>, or the one time read from it or NoReset.   *)
(* Screen readers get a redrawn panel appended, so a header may repeat.    *)
(***************************************************************************)
EXTENDS Integers, Sequences, Sifting

CONSTANTS
    NoPercent,      \* a block without a percentage
    NoReset         \* a block without a time

ASSUME NoNumbers == NoPercent \notin Int /\ NoReset \notin Int

\* A window's place in the list: by label.
Scopes == <<"5h", "fable", "all">>

KindOf ==
    [scope \in {"5h", "fable", "all"} |->
        CASE scope = "5h" -> "FiveHour" [] scope = "all" -> "Weekly" [] OTHER -> "ModelWeekly"]

\* The lines from a header to the next one.
Blocks(lines) ==
    LET headers == {i \in DOMAIN lines : lines[i].type = "header"}
        at == Sift([i \in DOMAIN lines |-> i], headers)
        next(h) == IF h < Len(at) THEN at[h + 1] - 1 ELSE Len(lines)
    IN  [h \in DOMAIN at |-> SubSeq(lines, at[h], next(h))]

Used(line) == IF line.word = "left" THEN 100 - line.value ELSE line.value

\* A percentage with a word is better than one without, wherever it stands;
\* one that is out of range or part of an advertisement is passed over.
Percentages(block) == {i \in DOMAIN block : block[i].type = "percent" /\ block[i].value \in 0..100}

PercentOf(block) ==
    LET explicit == {i \in Percentages(block) : block[i].word # "none"}
    IN  IF explicit # {} THEN Used(block[FirstOf(explicit)])
        ELSE IF Percentages(block) # {} THEN Used(block[FirstOf(Percentages(block))])
        ELSE NoPercent

\* The first line about a reset decides, also if it cannot be read.
ResetOf(block) ==
    LET resets == {i \in DOMAIN block : block[i].reset # <<>>}
    IN  IF resets = {} THEN NoReset ELSE block[FirstOf(resets)].reset[1]

Parsed(lines) ==
    LET blocks == Blocks(lines)
        read == Sift(blocks, {b \in DOMAIN blocks : PercentOf(blocks[b]) # NoPercent})
    IN  [b \in DOMAIN read |->
            [scope |-> read[b][1].scope, used |-> PercentOf(read[b]), reset |-> ResetOf(read[b])]]

\* A later window replaces one of the same scope unless it lost its reset.
Replaces(window, previous) == window.reset # NoReset \/ previous.reset = NoReset

Merged(kept, w) ==
    IF \A k \in DOMAIN kept : kept[k].scope # w.scope THEN Append(kept, w)
    ELSE [k \in DOMAIN kept |->
            IF kept[k].scope = w.scope /\ Replaces(w, kept[k]) THEN w ELSE kept[k]]

Unique(windows) ==
    LET upTo[i \in 0..Len(windows)] == IF i = 0 THEN <<>> ELSE Merged(upTo[i - 1], windows[i])
    IN  upTo[Len(windows)]

UsageScreen(lines) ==
    LET unique == Unique(Parsed(lines))
        of(scope) == Sift(unique, {k \in DOMAIN unique : unique[k].scope = scope})
    IN  of(Scopes[1]) \o of(Scopes[2]) \o of(Scopes[3])

(* -- the time of a reset, in minutes ------------------------------------- *)

Day == 1440
Year == 365 * Day       \* a leap day is not modelled

\* The host's time zone shifts its clock between two minutes of the year.
Offset(zone, t) ==
    IF zone.from <= t % Year /\ t % Year < zone.to THEN zone.summer ELSE zone.standard

\* When the clock on the wall shows a time: not at all in the hour it skips, and
\* twice in the hour it repeats.
Instants(zone, local) ==
    {t \in {local - zone.standard, local - zone.summer} : t + Offset(zone, t) = local}

Single(zone, local) ==
    LET instants == Instants(zone, local)
    IN  IF \E t \in instants : instants = {t} THEN CHOOSE t \in instants : TRUE ELSE NoReset

Hour24(hour, meridiem) ==
    CASE meridiem = "pm" /\ hour < 12 -> hour + 12
      [] meridiem = "am" /\ hour = 12 -> 0
      [] OTHER -> hour

Clock(raw) == Hour24(raw.hour, raw.meridiem) * 60 + raw.minute

\* A time of day is the next one; a date is this year's, or next year's if it
\* has passed by more than a day; a duration counts from now.
ResetTime(raw, now, zone) ==
    LET local == now + Offset(zone, now)
        at(day) == Single(zone, day * Day + Clock(raw))
        today == at(local \div Day)
        dated == at((local \div Year) * 365 + raw.day)
    IN  IF raw.type = "duration" THEN now + raw.day * Day + raw.hour * 60 + raw.minute
        ELSE IF raw.hour \notin 1..12 \/ raw.minute > 59 THEN NoReset
        ELSE IF raw.type = "time"
        THEN IF today # NoReset /\ today <= now THEN at(local \div Day + 1) ELSE today
        ELSE IF dated # NoReset /\ dated < now - Day
        THEN at((local \div Year) * 365 + raw.day + 365) ELSE dated
=============================================================================
