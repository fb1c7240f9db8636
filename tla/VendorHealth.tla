---------------------------- MODULE VendorHealth ----------------------------
(***************************************************************************)
(* The vendor's service status (src/apps/rust/src/core/vendor_health.rs).  *)
(* Claude and Codex read a status page: an overall indicator, components   *)
(* and incidents.  Antigravity reads a list of incidents of Google Cloud.  *)
(* A page has a state: "summary", "unreachable" (no answer, or not one of  *)
(* success) or "garbled" (not the JSON expected).                          *)
(***************************************************************************)
EXTENDS Naturals, Sequences, SequencesExt

\* An indicator and its place in the order of severity; the words a page may
\* use for it, in the spelling map_indicator compares.
Rank ==
    [unknown |-> 0, operational |-> 1, minor |-> 2, major |-> 3, critical |-> 4]

Indicators == DOMAIN Rank

Meaning(word) ==
    CASE word \in {"none", "operational"} -> "operational"
      [] word \in {"minor", "degraded_performance"} -> "minor"
      [] word \in {"major", "partial_outage"} -> "major"
      [] word \in {"critical", "major_outage"} -> "critical"
      [] OTHER -> "unknown"

\* Mutant: the last signal counts, not the worst.
CombineLast(overall, component) ==
    IF Rank[component] > 0 THEN component ELSE overall

Combine(overall, component) ==
    IF Rank[component] > Rank[overall] THEN component ELSE overall

\* LLM_USAGE_MONITOR_MOCK_INCIDENT names a provider, or all of them.
Simulated(target, provider) ==
    IF target \notin {"1", "true", "all", provider} THEN "none"
    ELSE CASE provider = "claude" -> "minor" [] provider = "codex" -> "major"
           [] OTHER -> "critical"

Status(indicator, told, incident) ==
    [indicator |-> indicator, told |-> told, incident |-> incident]

Unreachable == Status("unknown", "unreachable", "none")

Ongoing(incident) == incident.status \notin {"resolved", "completed"}

\* The first ongoing incident, or "none".
FirstOngoing(incidents) ==
    LET first == SelectInSeq(incidents, Ongoing)
    IN  IF first = 0 THEN "none" ELSE incidents[first].name

\* The worst of the components of this provider: the filters on names of the
\* two pages tell which are relevant.
Worst(components) ==
    LET upTo[i \in 0..Len(components)] ==
            IF i = 0 THEN "unknown"
            ELSE IF components[i].relevant
                 THEN Combine(upTo[i - 1], Meaning(components[i].status))
                 ELSE upTo[i - 1]
    IN  upTo[Len(components)]

\* A page in the format of Statuspage.
Summary(page) ==
    LET indicator == Combine(Meaning(page.indicator), Worst(page.components))
    IN  Status(indicator,
               IF page.description THEN "page"
               ELSE IF indicator = "operational" THEN "operational" ELSE "incident",
               FirstOngoing(page.incidents))

Readable(page) == page.state = "summary"

FirstReadable(pages) == SelectInSeq(pages, Readable)

\* The status page and its old address, in this order.
ClaudeStatus(target, pages) ==
    LET first == FirstReadable(pages)
    IN  IF Simulated(target, "claude") # "none"
        THEN Status(Simulated(target, "claude"), "simulated", "simulated")
        ELSE IF first = 0 THEN Unreachable ELSE Summary(pages[first])

CodexStatus(target, page) ==
    IF Simulated(target, "codex") # "none"
    THEN Status(Simulated(target, "codex"), "simulated", "simulated")
    ELSE IF ~Readable(page) THEN Unreachable ELSE Summary(page)

AboutGoogleAI(incident) == ~incident.ended /\ incident.relevant

FirstAboutGoogleAI(incidents) == SelectInSeq(incidents, AboutGoogleAI)

\* The first open incident about Google's AI decides.
AntigravityStatus(target, page) ==
    LET first == FirstAboutGoogleAI(page.incidents)
    IN  IF Simulated(target, "antigravity") # "none"
        THEN Status(Simulated(target, "antigravity"), "simulated", "simulated")
        ELSE IF ~Readable(page) THEN Unreachable
        ELSE IF first = 0 THEN Status("operational", "operational", "none")
        ELSE Status(IF page.incidents[first].severity = "high" THEN "critical" ELSE "minor",
                    "incident", page.incidents[first].name)

VendorStatus(provider, target, pages) ==
    CASE provider = "claude" -> ClaudeStatus(target, pages)
      [] provider = "codex" -> CodexStatus(target, pages[1])
      [] OTHER -> AntigravityStatus(target, pages[1])
=============================================================================
