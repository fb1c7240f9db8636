----------------------------- MODULE NodeMonitor -----------------------------
(***************************************************************************)
(* The Node monitor (src/apps/node/src): the usage store with its fetches, *)
(* the poller, the local usage coordinator, the vendor health poller, the  *)
(* snapshot cache and the core that creates and stops them.                *)
(*                                                                         *)
(* JavaScript runs to completion: a macrotask (an answer arrives, a timer  *)
(* fires, a request comes in over IPC) and all the promise reactions it    *)
(* settles run before the next one.  Each action is one macrotask with its *)
(* reactions.  That is why the poller's operation and the store's entry of *)
(* a provider, which come and go in the same macrotasks, are one variable. *)
(***************************************************************************)
EXTENDS Naturals, Sequences

CONSTANTS
    Providers,      \* the monitored providers
    Scanned,        \* providers whose local logs are scanned
    Checked,        \* providers whose vendor health is polled (all, in the code)
    MaxReading,     \* bound: successful quota readings of a provider
    GenMod          \* generations are counted modulo GenMod

ASSUME ConstantsOK ==
    /\ Scanned \subseteq Providers
    /\ Checked \subseteq Providers
    /\ MaxReading \in Nat
    /\ GenMod \in Nat \ {0, 1}

\* Readings and images are numbered as in EngineMonitor.
Reading == [from : 0..MaxReading, lastOk : 0..MaxReading]
NoReading == [from |-> 0, lastOk |-> 0]

\* The content of quota-v2.json: NoReading for a provider it does not hold.
Image == [Providers -> Reading]
EmptyImage == [p \in Providers |-> NoReading]

Generation == 0 .. GenMod - 1

\* Work on a provider: none, under way, or under way and wanted once more.
Work == {"idle", "running", "again"}

\* What the window shows of one provider.
Display == [status : {"fresh", "stale", "unavailable"}, quota : Reading,
            look : {"fresh", "stale"}, error : BOOLEAN,
            local : {"none", "cached", "scanned"}, health : {"none", "known"}]

InitialDisplay == [status |-> "unavailable", quota |-> NoReading, look |-> "stale",
                   error |-> FALSE, local |-> "none", health |-> "none"]

VARIABLES
    phase,          \* "off" | "loading" | "live" | "stopping" | "saving" | "exited"
    started,        \* the core was started
    show,           \* show[p]: the store's snapshot of provider p
    refreshing,     \* the snapshot's list of providers being refreshed
    fetch,          \* fetch[p]: the store's refresh of p
    gen,            \* gen[p]: generation of the last fetch of p
    fetches,        \* running fetches: <<provider, generation>>
    timer,          \* providers whose next fetch is scheduled
    scan,           \* scan[p]: the coordinator's scan of p
    check,          \* check[p]: the health poller's request for p
    checkTimer,     \* providers whose next health request is scheduled
    summaries,      \* providers whose checkpoint summary is still to come
    writes,         \* the chain of saves: images still to be written
    disk,           \* the shared cache file
    taken,          \* history: readings obtained so far, over all runs
    unread,         \* history: this run could not read the cache file
    missed          \* history: the last save of this run failed

coreVars  == <<phase, started>>
fetchVars == <<fetch, gen, fetches, timer>>
taskVars  == <<scan, check, checkTimer, summaries>>
fileVars  == <<disk, missed>>
histVars  == <<taken, unread>>
vars == <<coreVars, show, refreshing, fetchVars, taskVars, writes, fileVars, histVars>>

Running == phase \in {"loading", "live", "stopping", "saving"}
Created == phase \in {"live", "stopping", "saving"}
Stopped == phase \in {"stopping", "saving", "exited"}

-----------------------------------------------------------------------------
(* The process starts, and is killed.                                      *)

Init ==
    /\ phase = "off"
    /\ started = FALSE
    /\ show = [p \in Providers |-> InitialDisplay]
    /\ refreshing = {}
    /\ fetch = [p \in Providers |-> "idle"]
    /\ gen = [p \in Providers |-> 0]
    /\ fetches = {}
    /\ timer = {}
    /\ scan = [p \in Scanned |-> "idle"]
    /\ check = [p \in Checked |-> "idle"]
    /\ checkTimer = {}
    /\ summaries = Scanned
    /\ writes = <<>>
    /\ disk = EmptyImage
    /\ taken = [p \in Providers |-> 0]
    /\ unread = FALSE
    /\ missed = FALSE

\* Everything the process keeps in memory, as it is when it starts.
ColdMemory ==
    /\ started' = FALSE
    /\ show' = [p \in Providers |-> InitialDisplay]
    /\ refreshing' = {}
    /\ fetch' = [p \in Providers |-> "idle"]
    /\ gen' = [p \in Providers |-> 0]
    /\ fetches' = {}
    /\ timer' = {}
    /\ scan' = [p \in Scanned |-> "idle"]
    /\ check' = [p \in Checked |-> "idle"]
    /\ checkTimer' = {}
    /\ summaries' = Scanned
    /\ writes' = <<>>
    /\ unread' = FALSE
    /\ missed' = FALSE

Launch ==
    /\ phase \in {"off", "exited"}
    /\ phase' = "loading"
    /\ ColdMemory
    /\ UNCHANGED <<disk, taken>>

\* The file is replaced by a rename: a kill leaves the old or the new one.
Crash ==
    /\ Running
    /\ phase' = "off"
    /\ ColdMemory
    /\ UNCHANGED <<disk, taken>>

-----------------------------------------------------------------------------
(* The snapshot, what is saved of it, and how work is requested.           *)

\* Providers with work under way.
Working ==
    {p \in Providers : \/ fetch[p] # "idle"
                       \/ p \in Scanned /\ scan[p] # "idle"
                       \/ p \in Checked /\ check[p] # "idle"}

\* Only providers with a last successful reading are saved.
ImageOf(display) ==
    [p \in Providers |-> IF display[p].quota.lastOk = 0 THEN NoReading ELSE display[p].quota]

\* Mutant: a snapshot that comes while a save is under way is not saved.
ChainedDropping(image) == IF writes # <<>> THEN writes ELSE <<image>>

\* The chain with one more save.  Saving the last image of the chain again
\* ends like one save of it that fails or succeeds, and is not counted twice.
Chained(image) ==
    IF writes # <<>> /\ writes[Len(writes)] = image THEN writes ELSE Append(writes, image)

\* Mutant: the list of providers is computed before the work changes.
PublishEarly ==
    /\ refreshing' = Working
    /\ writes' = IF Stopped THEN writes ELSE Chained(ImageOf(show'))

\* The store tells its listeners; the cache listens until the core is stopped.
Publish ==
    /\ refreshing' = Working'
    /\ writes' = IF Stopped THEN writes ELSE Chained(ImageOf(show'))

\* The work requested for the providers S: started, or wanted once more.
Asked(work, S) ==
    [p \in DOMAIN work |->
        IF p \notin S THEN work[p] ELSE IF work[p] = "idle" THEN "running" ELSE "again"]

\* Fetches start only where none is under way.
IdleAmong(S) == {p \in S : fetch[p] = "idle"}

NextGen(p) == (gen[p] + 1) % GenMod

\* The poller fetches the quota of the providers S; their timers are cleared.
AskFetch(S) ==
    /\ fetch' = Asked(fetch, S)
    /\ gen' = [p \in Providers |-> IF p \in IdleAmong(S) THEN NextGen(p) ELSE gen[p]]
    /\ fetches' = fetches \cup {<<p, NextGen(p)>> : p \in IdleAmong(S)}
    /\ timer' = timer \ S

AskScan(S) == scan' = Asked(scan, S)

AskCheck(S) ==
    /\ check' = Asked(check, S)
    /\ checkTimer' = {p \in checkTimer : p \notin S \/ check[p] # "idle"}

-----------------------------------------------------------------------------
(* The core.                                                               *)

\* What a cached reading is shown as.
Recalled(reading) == [InitialDisplay EXCEPT !.status = "stale", !.quota = reading]

\* The cache is read, all of it or (unreadable, malformed) nothing, and the
\* store starts from it.
Create(readable) ==
    /\ phase = "loading"
    /\ phase' = "live"
    /\ unread' = ~readable
    /\ show' = [p \in Providers |->
                 IF readable /\ disk[p] # NoReading THEN Recalled(disk[p]) ELSE show[p]]
    /\ UNCHANGED <<started, refreshing, fetchVars, taskVars, writes, fileVars, taken>>

\* The poller, the coordinator and the health poller start.
Start ==
    /\ phase = "live"
    /\ ~started
    /\ started' = TRUE
    /\ AskFetch(Providers)
    /\ AskScan(Scanned)
    /\ AskCheck(Checked)
    /\ UNCHANGED <<show, summaries>>
    /\ Publish
    /\ UNCHANGED <<phase, fileVars, histVars>>

\* A refresh of some provider or of all; logs are scanned once started.
Refresh(S) ==
    /\ phase = "live"
    /\ AskFetch(S)
    /\ AskScan(IF started THEN S \cap Scanned ELSE {})
    /\ AskCheck(S \cap Checked)
    /\ UNCHANGED <<show, summaries>>
    /\ Publish
    /\ UNCHANGED <<coreVars, fileVars, histVars>>

\* The cache stops listening, timers are cleared, scans are aborted.
Stop ==
    /\ phase = "live"
    /\ phase' = "stopping"
    /\ timer' = {}
    /\ checkTimer' = {}
    /\ UNCHANGED <<started, show, refreshing, fetch, gen, fetches, scan, check, summaries>>
    /\ UNCHANGED <<writes, fileVars, histVars>>

\* Mutant: the pollers' start is waited for.
QuietOnceStarted == started /\ Working = {}

\* Nothing that was running when the core was stopped runs any more.
Quiet == Working = {}

\* Everything was waited for; the last save is queued behind the others.
FinalSave ==
    /\ phase = "stopping"
    /\ Quiet
    /\ phase' = "saving"
    /\ writes' = Chained(ImageOf(show))
    /\ UNCHANGED <<started, show, refreshing, fetchVars, taskVars, fileVars, histVars>>

\* Mutant: the flush is not awaited.
FlushedAlways == TRUE

Flushed == writes = <<>>

Exit ==
    /\ phase = "saving"
    /\ Flushed
    /\ phase' = "exited"
    /\ UNCHANGED <<started, show, refreshing, fetchVars, taskVars, writes, fileVars, histVars>>

-----------------------------------------------------------------------------
(* Quota fetches.                                                          *)

FetchTimer(p) ==
    /\ phase = "live"
    /\ p \in timer
    /\ AskFetch({p})
    /\ UNCHANGED <<show, taskVars>>
    /\ Publish
    /\ UNCHANGED <<coreVars, fileVars, histVars>>

\* Mutant: after an error no fetch is scheduled.
RestsUnlessFailed(p) ==
    IF started /\ ~Stopped /\ ~show[p].error THEN timer \cup {p} ELSE timer

\* The timers after a fetch of p that is not wanted once more.
Rests(p) == IF started /\ ~Stopped THEN timer \cup {p} ELSE timer

\* The fetch of generation g of provider p ends.  A request made meanwhile
\* starts the next one, also after a stop.
FetchEnds(p, g) ==
    /\ Created
    /\ <<p, g>> \in fetches
    /\ gen[p] = g
    /\ IF fetch[p] = "again"
       THEN /\ fetch' = [fetch EXCEPT ![p] = "running"]
            /\ gen' = [gen EXCEPT ![p] = NextGen(p)]
            /\ fetches' = (fetches \ {<<p, g>>}) \cup {<<p, NextGen(p)>>}
            /\ timer' = timer
       ELSE /\ fetch' = [fetch EXCEPT ![p] = "idle"]
            /\ gen' = gen
            /\ fetches' = fetches \ {<<p, g>>}
            /\ timer' = Rests(p)

\* The response of a provider replaces its quota and clears the error.
QuotaFresh(p, g) ==
    /\ taken[p] < MaxReading
    /\ FetchEnds(p, g)
    /\ taken' = [taken EXCEPT ![p] = @ + 1]
    /\ show' = [show EXCEPT ![p] =
                 [@ EXCEPT !.status = "fresh", !.look = "fresh", !.error = FALSE,
                           !.quota = [from |-> taken[p] + 1, lastOk |-> taken[p] + 1]]]
    /\ UNCHANGED taskVars
    /\ Publish
    /\ UNCHANGED <<coreVars, fileVars, unread>>

\* A failure keeps the last reading, if any, as stale and reports the error.
AfterFailure(d) ==
    IF d.quota.lastOk # 0
    THEN [d EXCEPT !.status = "stale", !.look = "stale", !.error = TRUE]
    ELSE [d EXCEPT !.status = "unavailable", !.look = "stale", !.error = TRUE,
                   !.quota = NoReading]

QuotaFailed(p, g) ==
    /\ FetchEnds(p, g)
    /\ show' = [show EXCEPT ![p] = AfterFailure(@)]
    /\ UNCHANGED taskVars
    /\ Publish
    /\ UNCHANGED <<coreVars, fileVars, histVars>>

-----------------------------------------------------------------------------
(* Local logs and vendor health.                                           *)

\* A change of the logs or the reconcile interval asks for a scan.
ScanDue(p) ==
    /\ phase = "live" /\ started
    /\ AskScan({p})
    /\ UNCHANGED <<show, fetchVars, check, checkTimer, summaries>>
    /\ Publish
    /\ UNCHANGED <<coreVars, fileVars, histVars>>

\* What work that ended leaves: once more if that was asked for and no stop came.
Ended(work) == IF work = "again" /\ ~Stopped THEN "running" ELSE "idle"

\* The scan ends with totals or not; after a stop, which aborts it, with none.
ScanEnds(p, ok) ==
    /\ Created
    /\ scan[p] # "idle"
    /\ scan' = [scan EXCEPT ![p] = Ended(scan[p])]
    /\ show' = IF ok /\ ~Stopped THEN [show EXCEPT ![p].local = "scanned"] ELSE show
    /\ UNCHANGED <<fetchVars, check, checkTimer, summaries>>
    /\ Publish
    /\ UNCHANGED <<coreVars, fileVars, histVars>>

\* Mutant: the summary is shown whatever the scan has found.
SummaryOf(local) == "cached"

\* A checkpoint summary gives way to totals that are shown already.
Summarised(local) == IF local = "none" THEN "cached" ELSE local

\* The summary of the checkpoint, if it holds one, is shown in the background.
LateSummary(p, found) ==
    /\ Created
    /\ p \in summaries
    /\ summaries' = summaries \ {p}
    /\ show' = IF found THEN [show EXCEPT ![p].local = Summarised(@)] ELSE show
    /\ UNCHANGED <<fetchVars, scan, check, checkTimer>>
    /\ Publish
    /\ UNCHANGED <<coreVars, fileVars, histVars>>

CheckTimer(p) ==
    /\ phase = "live"
    /\ p \in checkTimer
    /\ AskCheck({p})
    /\ UNCHANGED <<show, fetchVars, scan, summaries>>
    /\ Publish
    /\ UNCHANGED <<coreVars, fileVars, histVars>>

\* A health request ends; its status is shown also after a stop.
CheckEnds(p, ok) ==
    /\ Created
    /\ check[p] # "idle"
    /\ check' = [check EXCEPT ![p] = Ended(check[p])]
    /\ checkTimer' = IF check'[p] = "idle" /\ started /\ ~Stopped
                     THEN checkTimer \cup {p} ELSE checkTimer
    /\ show' = IF ok THEN [show EXCEPT ![p].health = "known"] ELSE show
    /\ UNCHANGED <<fetchVars, scan, summaries>>
    /\ Publish
    /\ UNCHANGED <<coreVars, fileVars, histVars>>

-----------------------------------------------------------------------------
(* The chain of saves.                                                     *)

\* Mutant: the chain is written from its end.
WriteNextBackwards(ok) ==
    /\ Created
    /\ writes # <<>>
    /\ writes' = SubSeq(writes, 1, Len(writes) - 1)
    /\ disk' = IF ok THEN writes[Len(writes)] ELSE disk
    /\ missed' = ~ok
    /\ UNCHANGED <<coreVars, show, refreshing, fetchVars, taskVars, histVars>>

\* The first save of the chain replaces the file, or fails and leaves it.
WriteNext(ok) ==
    /\ Created
    /\ writes # <<>>
    /\ writes' = Tail(writes)
    /\ disk' = IF ok THEN Head(writes) ELSE disk
    /\ missed' = ~ok
    /\ UNCHANGED <<coreVars, show, refreshing, fetchVars, taskVars, histVars>>

-----------------------------------------------------------------------------
Environment ==
    \/ Launch
    \/ Crash
    \/ Start
    \/ \E p \in Providers : Refresh({p})
    \/ Refresh(Providers)
    \/ Stop
    \/ \E p \in Scanned : ScanDue(p)

Fetches ==
    \E p \in Providers :
      \/ FetchTimer(p)
      \/ \E g \in Generation : QuotaFresh(p, g) \/ QuotaFailed(p, g)

Background ==
    \/ \E p \in Scanned, ok \in BOOLEAN : ScanEnds(p, ok)
    \/ \E p \in Scanned, found \in BOOLEAN : LateSummary(p, found)
    \/ \E p \in Checked : CheckTimer(p)
    \/ \E p \in Checked, ok \in BOOLEAN : CheckEnds(p, ok)
    \/ \E ok \in BOOLEAN : WriteNext(ok)

Core ==
    \/ \E readable \in BOOLEAN : Create(readable)
    \/ FinalSave
    \/ Exit

Next == Environment \/ Fetches \/ Background \/ Core

Spec == Init /\ [][Next]_vars

\* The event loop reaches every settled promise and every expired timer;
\* fetches, scans, health requests and file operations end (they have
\* timeouts, or are aborted by a stop).  Their outcomes, commands and kills
\* are not assumed.
Fairness ==
    /\ WF_vars(\E readable \in BOOLEAN : Create(readable))
    /\ WF_vars(FinalSave \/ Exit)
    /\ \A p \in Providers :
         WF_vars(\E g \in Generation : QuotaFresh(p, g) \/ QuotaFailed(p, g))
    /\ \A p \in Providers : WF_vars(FetchTimer(p))
    /\ \A p \in Scanned : WF_vars(\E ok \in BOOLEAN : ScanEnds(p, ok))
    /\ \A p \in Checked : WF_vars(\E ok \in BOOLEAN : CheckEnds(p, ok))
    /\ \A p \in Checked : WF_vars(CheckTimer(p))
    /\ WF_vars(\E ok \in BOOLEAN : WriteNext(ok))

FairSpec == Spec /\ Fairness

-----------------------------------------------------------------------------
(* Properties.                                                             *)

TypeOK ==
    /\ phase \in {"off", "loading", "live", "stopping", "saving", "exited"}
    /\ started \in BOOLEAN
    /\ show \in [Providers -> Display]
    /\ refreshing \subseteq Providers
    /\ fetch \in [Providers -> Work]
    /\ gen \in [Providers -> Generation]
    /\ fetches \subseteq Providers \X Generation
    /\ timer \subseteq Providers
    /\ scan \in [Scanned -> Work]
    /\ check \in [Checked -> Work]
    /\ checkTimer \subseteq Checked
    /\ summaries \subseteq Scanned
    /\ writes \in Seq(Image)
    /\ disk \in Image
    /\ taken \in [Providers -> 0..MaxReading]
    /\ unread \in BOOLEAN
    /\ missed \in BOOLEAN

\* Every provider of a started core is either being fetched, once, or has its
\* next fetch scheduled, never both and never neither; the same of health.
PollingGoesOn ==
    /\ fetches = {<<p, gen[p]>> : p \in {q \in Providers : fetch[q] # "idle"}}
    /\ started /\ ~Stopped =>
         /\ timer = {p \in Providers : fetch[p] = "idle"}
         /\ checkTimer = {p \in Checked : check[p] = "idle"}

\* Windows and "last updated" come from the same reading, on screen, in every
\* image of the chain and in the file; "fresh" is only said of the newest
\* reading there is.
QuotaMatchesItsTime ==
    /\ \A p \in Providers :
         /\ show[p].quota.from = show[p].quota.lastOk
         /\ disk[p].from = disk[p].lastOk
         /\ "fresh" \in {show[p].status, show[p].look} =>
              show[p].quota.from = taken[p] /\ show[p].status = show[p].look /\ ~show[p].error
    /\ \A i \in 1..Len(writes), p \in Providers : writes[i][p].from = writes[i][p].lastOk

\* The list of providers being refreshed is the list of those with work under
\* way, whichever of the three kinds of work ended or started last.
ProgressIsReal == phase = "live" => refreshing = Working

\* After an orderly exit nothing of the monitor runs any more, and the file
\* holds what was shown last unless the last save failed.
OrderlyExitIsSaved ==
    phase = "exited" =>
      /\ fetches = {} /\ Working = {} /\ timer = {} /\ checkTimer = {}
      /\ ~missed => disk = ImageOf(show)

\* The summary of an earlier run never replaces totals that this run scanned.
SummaryYieldsToScan ==
    [][\A p \in Scanned :
         show[p].local = "scanned" /\ phase' # "off" /\ phase # "exited"
           => show'[p].local = "scanned"]_vars

\* A stopped core ends.
StopEnds == (phase = "stopping") ~> (phase \in {"exited", "off"})

\* No provider is ever forgotten by the poller, nor a request made while its
\* fetch runs: the next generation starts.
FetchedAgain ==
    \A p \in Providers, g \in Generation :
      (phase = "live" /\ started /\ gen[p] = g) ~> (gen[p] # g \/ phase # "live")

\* A reading shown is eventually in the file, unless a save fails or the
\* process is killed first.
ReadingReachesTheFile ==
    \A p \in Providers, n \in 1..MaxReading :
      (Created /\ show[p].quota.from = n /\ show[p].status = "fresh") ~>
        (disk[p].from >= n \/ missed \/ phase = "off")

-----------------------------------------------------------------------------
(* The monitor keeps the promises of QuotaLedger.                          *)

Ledger == INSTANCE QuotaLedger WITH
    shown <- [p \in Providers |-> IF Running THEN show[p].quota.from ELSE 0],
    saved <- [p \in Providers |-> disk[p].from],
    open <- Running,
    unread <- Running /\ unread

LedgerSpec == Ledger!Spec
=============================================================================
