---------------------------- MODULE EngineMonitor ----------------------------
(***************************************************************************)
(* The Rust monitor (src/apps/rust/src/core/engine/monitor.rs): one        *)
(* coordinator loop owns the snapshot the window shows, starts the         *)
(* collector jobs that are due, applies their results in whatever order    *)
(* they finish, merges the cached quota when it has been read, and sends   *)
(* quota images to a writer task that replaces the shared cache file.      *)
(* The process may be stopped in order or killed at any point, and         *)
(* started again on what it left on disk.                                  *)
(*                                                                         *)
(* The coordinator alternates between the head of its loop (phase "top")   *)
(* and one branch of its select! (phase "select"); everything it does      *)
(* between two awaits is one action.  Time is a set of jobs whose due      *)
(* instant has passed; how long that takes is left open.                   *)
(***************************************************************************)
EXTENDS Naturals

CONSTANTS
    Providers,      \* the monitored providers
    Jobs,           \* the collector jobs: records of a kind and a provider
    MaxReading,     \* bound: successful quota readings of a provider
    GenMod,         \* generations are counted modulo GenMod (2^64 in the code)
    MaxFailures,    \* failures are counted up to here (the backoff ladder's top)
    NoImage         \* the writer has nothing to write

\* A successful reading is identified by its number; lastOk is the time of
\* the reading the provider last delivered, from the reading its windows show.
Reading == [from : 0..MaxReading, lastOk : 0..MaxReading]
NoReading == [from |-> 0, lastOk |-> 0]

\* The content of quota-v2.json: NoReading for a provider it does not hold.
Image == [Providers -> Reading]
EmptyImage == [p \in Providers |-> NoReading]

ASSUME ConstantsOK ==
    /\ Jobs \subseteq [kind : {"quota", "health", "local"}, provider : Providers]
    /\ MaxReading \in Nat
    /\ MaxFailures \in Nat \ {0}
    /\ GenMod \in Nat \ {0, 1}
    /\ NoImage \notin Image

Generation == 0 .. GenMod - 1

\* Providers whose local logs are scanned.
LocalProviders == {p \in Providers : [kind |-> "local", provider |-> p] \in Jobs}

\* What the window shows of one provider; look is the status of its windows.
Display == [status : {"fresh", "stale", "unavailable"}, quota : Reading,
            look : {"fresh", "stale"}, error : BOOLEAN,
            local : {"none", "empty", "full", "partial"},
            health : {"none", "operational", "unknown"}]

InitialDisplay == [status |-> "unavailable", quota |-> NoReading, look |-> "stale",
                   error |-> FALSE, local |-> "none", health |-> "none"]

VARIABLES
    phase,          \* "off" | "top" | "select" | "flush" | "exited"
    stopping,       \* a stop was accepted
    engine,         \* "building" | "ready" | "absent"
    cacheTask,      \* "reading" | "read" | "merged"
    cached,         \* the image the cache task has read
    show,           \* show[p]: the coordinator's snapshot of provider p
    refreshing,     \* providers shown as being refreshed
    received,       \* providers that delivered a fresh quota in this run
    inFlight,       \* jobs with a running collector
    queued,         \* running jobs that are to run once more
    due,            \* jobs whose due instant has passed
    gen,            \* gen[j]: generation of job j
    failures,       \* failures[p]: consecutive failures of p's quota job
    tasks,          \* running collectors: <<job, generation>>
    pending,        \* the latest image in the writer's channel
    saving,         \* the image the writer is saving
    disk,           \* the shared cache file
    taken,          \* history: readings obtained so far, over all runs
    unread,         \* history: this run could not read the cache file
    missed          \* history: the last save of this run failed

coordVars  == <<phase, stopping, engine, cacheTask, cached, refreshing>>
jobVars    == <<inFlight, queued, due, gen, failures, tasks>>
screenVars == <<show, received>>
writerVars == <<pending, saving, disk, missed>>
histVars   == <<taken, unread>>
vars == <<coordVars, jobVars, screenVars, writerVars, histVars>>

Running == phase \in {"top", "select", "flush"}

-----------------------------------------------------------------------------
(* The process starts, and is killed.                                      *)

\* Everything the process keeps in memory, as start_monitor creates it.
Init ==
    /\ phase = "off"
    /\ disk = EmptyImage
    /\ taken = [p \in Providers |-> 0]
    /\ stopping = FALSE
    /\ engine = "building"
    /\ cacheTask = "reading"
    /\ cached = EmptyImage
    /\ show = [p \in Providers |-> InitialDisplay]
    /\ refreshing = Providers
    /\ received = {}
    /\ inFlight = {}
    /\ queued = {}
    /\ due = Jobs
    /\ gen = [j \in Jobs |-> 0]
    /\ failures = [p \in Providers |-> 0]
    /\ tasks = {}
    /\ pending = NoImage
    /\ saving = NoImage
    /\ unread = FALSE
    /\ missed = FALSE

ColdMemory ==
    /\ stopping' = FALSE
    /\ engine' = "building"
    /\ cacheTask' = "reading"
    /\ cached' = EmptyImage
    /\ show' = [p \in Providers |-> InitialDisplay]
    /\ refreshing' = Providers
    /\ received' = {}
    /\ inFlight' = {}
    /\ queued' = {}
    /\ due' = Jobs
    /\ gen' = [j \in Jobs |-> 0]
    /\ failures' = [p \in Providers |-> 0]
    /\ tasks' = {}
    /\ pending' = NoImage
    /\ saving' = NoImage
    /\ unread' = FALSE
    /\ missed' = FALSE

Launch ==
    /\ phase \in {"off", "exited"}
    /\ phase' = "top"
    /\ ColdMemory
    /\ UNCHANGED <<disk, taken>>

\* The file is replaced by a rename, so a kill during a save leaves the old
\* file and a temporary one that nobody reads.
Crash ==
    /\ Running
    /\ phase' = "off"
    /\ ColdMemory
    /\ UNCHANGED <<disk, taken>>

-----------------------------------------------------------------------------
(* The head of the coordinator's loop.                                     *)

\* Mutant: only a built engine counts as finished.
NoTasksWithEngine == tasks = {} /\ cacheTask = "merged" /\ engine = "ready"

NoTasks == tasks = {} /\ cacheTask = "merged" /\ engine # "building"

\* Mutants: jobs in flight are started again; a stop does not block new jobs;
\* a quota job is given up once its failures reach the top of the ladder.
StartableTwice == IF stopping \/ engine # "ready" THEN {} ELSE due
StartableWhileStopping == IF engine # "ready" THEN {} ELSE due \ inFlight
StartableUntilFailure ==
    IF stopping \/ engine # "ready" THEN {}
    ELSE {j \in due \ inFlight : j.kind = "quota" => failures[j.provider] < MaxFailures}

\* Jobs that the head of the loop starts.
Startable == IF stopping \/ engine # "ready" THEN {} ELSE due \ inFlight

Busy(S) == {p \in Providers : \E j \in S : j.provider = p}

Schedule ==
    /\ phase = "top"
    /\ ~(stopping /\ NoTasks)
    /\ phase' = "select"
    /\ inFlight' = inFlight \cup Startable
    /\ gen' = [j \in Jobs |-> IF j \in Startable THEN (gen[j] + 1) % GenMod ELSE gen[j]]
    /\ tasks' = tasks \cup {<<j, (gen[j] + 1) % GenMod>> : j \in Startable}
    /\ refreshing' = IF engine # "ready" /\ ~stopping THEN Providers
                                                      ELSE Busy(inFlight')
    /\ UNCHANGED <<stopping, engine, cacheTask, cached, queued, due, failures>>
    /\ UNCHANGED <<screenVars, writerVars, histVars>>

\* Only providers with a last successful reading are saved.
ImageOf(display) ==
    [p \in Providers |-> IF display[p].quota.lastOk = 0 THEN NoReading ELSE display[p].quota]

\* Nothing runs any more: the last image is sent and the channel is closed.
Leave ==
    /\ phase = "top"
    /\ stopping /\ NoTasks
    /\ phase' = "flush"
    /\ refreshing' = Busy(inFlight)
    /\ pending' = ImageOf(show)
    /\ UNCHANGED <<stopping, engine, cacheTask, cached, saving, disk, missed>>
    /\ UNCHANGED <<jobVars, screenVars, histVars>>

\* Mutant: the save in progress is not awaited.
DrainedUnlessSaving == pending = NoImage

Drained == pending = NoImage /\ saving = NoImage

\* The writer has drained its channel; the coordinator task ends.
Exit ==
    /\ phase = "flush"
    /\ Drained
    /\ phase' = "exited"
    /\ UNCHANGED <<stopping, engine, cacheTask, cached, refreshing>>
    /\ UNCHANGED <<jobVars, screenVars, writerVars, histVars>>

-----------------------------------------------------------------------------
(* The branches of select!.                                                *)

\* One branch runs and the loop starts over.
Wake == phase = "select" /\ phase' = "top"

Refresh ==
    /\ Wake
    /\ ~stopping
    /\ queued' = queued \cup inFlight
    /\ due' = due \cup (Jobs \ inFlight)
    /\ UNCHANGED <<stopping, engine, cacheTask, cached, refreshing>>
    /\ UNCHANGED <<inFlight, gen, failures, tasks, screenVars, writerVars, histVars>>

Stop ==
    /\ Wake
    /\ ~stopping
    /\ stopping' = TRUE
    /\ queued' = {}
    /\ UNCHANGED <<engine, cacheTask, cached, refreshing, inFlight, due, gen, failures, tasks>>
    /\ UNCHANGED <<screenVars, writerVars, histVars>>

\* 100 ms pass without an event.
Tick ==
    /\ Wake
    /\ UNCHANGED <<stopping, engine, cacheTask, cached, refreshing>>
    /\ UNCHANGED <<jobVars, screenVars, writerVars, histVars>>

\* Mutant: the cached provider, which has no error, replaces all but the usage.
RecalledWithoutError(d, reading) ==
    [d EXCEPT !.status = "stale", !.quota = reading, !.look = "stale", !.error = FALSE]

\* What a cached reading is shown as; what the run has learnt besides stays.
Recalled(d, reading) ==
    [d EXCEPT !.status = "stale", !.quota = reading, !.look = "stale"]

\* Mutant: the cache replaces whatever is shown.
RecallableAlways(p) == cached[p] # NoReading

\* A cached quota does not replace one that this run has received.
Recallable(p) == p \notin received /\ cached[p] # NoReading

CacheMerge ==
    /\ Wake
    /\ cacheTask = "read"
    /\ cacheTask' = "merged"
    /\ show' = [p \in Providers |->
                 IF Recallable(p) THEN Recalled(show[p], cached[p]) ELSE show[p]]
    /\ pending' = ImageOf(show')
    /\ UNCHANGED <<stopping, engine, cached, refreshing, received, saving, disk, missed>>
    /\ UNCHANGED <<jobVars, histVars>>

\* What the checkpoint file may hold of the providers' local usage.
Summaries == [LocalProviders -> {"none", "full", "partial"}]

\* The engine is built and the summaries of its checkpoint are shown.
EngineReady(summary) ==
    /\ Wake
    /\ engine = "building"
    /\ engine' = "ready"
    /\ show' = [p \in Providers |->
                 IF p \in LocalProviders
                 THEN [show[p] EXCEPT !.local = summary[p]]
                 ELSE show[p]]
    /\ UNCHANGED <<stopping, cacheTask, cached, refreshing, received>>
    /\ UNCHANGED <<jobVars, writerVars, histVars>>

\* Building the engine panicked: the task's error has no job and is dropped.
EngineLost ==
    /\ Wake
    /\ engine = "building"
    /\ engine' = "absent"
    /\ UNCHANGED <<stopping, cacheTask, cached, refreshing>>
    /\ UNCHANGED <<jobVars, screenVars, writerVars, histVars>>

\* The collector of generation g of job j ends.
Ends(j, g) ==
    /\ Wake
    /\ <<j, g>> \in tasks
    /\ tasks' = tasks \ {<<j, g>>}
    /\ UNCHANGED <<stopping, engine, cacheTask, cached, refreshing, gen>>

\* Mutant: the queued request waits for the job's normal delay.
NextDueLater(j) == due \ {j}

\* A job is due at once if it was requested while it ran, and after its delay
\* otherwise.
NextDue(j) == IF j \in queued THEN due \cup {j} ELSE due \ {j}

\* Mutant: a job with a queued request is kept in flight.
AcceptedKeepingQueued(j, g) ==
    /\ Ends(j, g)
    /\ gen[j] = g
    /\ inFlight' = IF j \in queued THEN inFlight ELSE inFlight \ {j}
    /\ queued' = queued
    /\ due' = NextDue(j)

\* A result is accepted if it is of the job's generation, and frees the job.
\* The code drops any other; OneTaskPerJob says that there is none, so that
\* dropping one is no action here.
Accepted(j, g) ==
    /\ Ends(j, g)
    /\ gen[j] = g
    /\ inFlight' = inFlight \ {j}
    /\ queued' = queued \ {j}
    /\ due' = NextDue(j)

\* Mutants: images are sent before the cache is merged; none is sent on results.
SendImageAlways ==
    /\ pending' = ImageOf(show')
    /\ UNCHANGED <<saving, disk, missed>>
SendImageNever == UNCHANGED <<pending, saving, disk, missed>>

\* A quota image is sent only once the cache has been merged.
SendImage ==
    /\ pending' = IF cacheTask = "merged" THEN ImageOf(show') ELSE pending
    /\ UNCHANGED <<saving, disk, missed>>

\* A fresh response replaces the whole quota and clears the error.
QuotaFresh(j, g) ==
    LET p == j.provider IN
    /\ j.kind = "quota"
    /\ taken[p] < MaxReading
    /\ Accepted(j, g)
    /\ taken' = [taken EXCEPT ![p] = @ + 1]
    /\ show' = [show EXCEPT ![p] =
                 [@ EXCEPT !.status = "fresh", !.look = "fresh", !.error = FALSE,
                           !.quota = [from |-> taken[p] + 1, lastOk |-> taken[p] + 1]]]
    /\ received' = received \cup {p}
    /\ failures' = [failures EXCEPT ![p] = 0]
    /\ SendImage
    /\ UNCHANGED unread

\* Mutant: the windows of the failed response replace the last ones.
AfterFailureLosingWindows(d, panicked) ==
    IF d.quota.lastOk # 0
    THEN [d EXCEPT !.status = "stale", !.look = "stale", !.error = TRUE,
                   !.quota = IF panicked THEN @ ELSE [@ EXCEPT !.from = 0]]
    ELSE [d EXCEPT !.status = "unavailable", !.look = "stale", !.error = TRUE]

\* A failed response, or a collector that panicked, keeps the last reading
\* (if any) as stale and reports the error.
AfterFailure(d, panicked) ==
    IF d.quota.lastOk # 0
    THEN [d EXCEPT !.status = "stale", !.look = "stale", !.error = TRUE]
    ELSE [d EXCEPT !.status = "unavailable", !.look = "stale", !.error = TRUE,
                   !.quota = IF panicked THEN @ ELSE NoReading]

\* Failures beyond the top of the backoff ladder count no further.
CountFailure(n) == IF n < MaxFailures THEN n + 1 ELSE n

QuotaFailed(j, g, panicked) ==
    LET p == j.provider IN
    /\ j.kind = "quota"
    /\ Accepted(j, g)
    /\ show' = [show EXCEPT ![p] = AfterFailure(@, panicked)]
    /\ failures' = [failures EXCEPT ![p] = CountFailure(@)]
    /\ SendImage
    /\ UNCHANGED <<received, histVars>>

\* A health check answers (h); "unknown" stands for every answer that is not
\* "operational", and is what a panic shows.
HealthResult(j, g, h) ==
    /\ j.kind = "health"
    /\ Accepted(j, g)
    /\ show' = [show EXCEPT ![j.provider].health = h]
    /\ UNCHANGED <<failures, received, writerVars, histVars>>

\* Mutant: the latest scan always replaces the totals.
AfterScanReplacing(local, scan) ==
    IF scan = "nothing" THEN "empty" ELSE IF scan = "panicked" THEN local ELSE scan

\* A partial scan of no file at all ("nothing"), or a scan that panicked,
\* keeps the totals shown before and marks them partial.
AfterScan(local, scan) ==
    IF scan \in {"nothing", "panicked"} /\ local \in {"full", "partial"} THEN "partial"
    ELSE IF scan = "nothing" THEN "empty"
    ELSE IF scan = "panicked" THEN local
    ELSE scan

LocalResult(j, g, scan) ==
    /\ j.kind = "local"
    /\ Accepted(j, g)
    /\ show' = [show EXCEPT ![j.provider].local = AfterScan(show[j.provider].local, scan)]
    /\ UNCHANGED <<failures, received, writerVars, histVars>>

JobEnds(j, g) ==
    \/ QuotaFresh(j, g)
    \/ \E panicked \in BOOLEAN : QuotaFailed(j, g, panicked)
    \/ \E h \in {"operational", "unknown"} : HealthResult(j, g, h)
    \/ \E scan \in {"full", "partial", "nothing", "panicked"} : LocalResult(j, g, scan)

-----------------------------------------------------------------------------
(* The other tasks and the clock.                                          *)

\* The cache task reads the file, all of it or (unreadable, malformed, of
\* another version) nothing.  The import of the first version's file, when there is
\* none yet (cache.rs:57-76), is a file that is not empty at the first start.
CacheRead(readable) ==
    /\ phase \in {"top", "select"}
    /\ cacheTask = "reading"
    /\ cacheTask' = "read"
    /\ cached' = IF readable THEN disk ELSE EmptyImage
    /\ unread' = ~readable
    /\ UNCHANGED <<phase, stopping, engine, refreshing, taken>>
    /\ UNCHANGED <<jobVars, screenVars, writerVars>>

\* The due instant of a job passes.
TimerExpires(j) ==
    /\ phase \in {"top", "select"}
    /\ j \notin due
    /\ due' = due \cup {j}
    /\ UNCHANGED <<inFlight, queued, gen, failures, tasks>>
    /\ UNCHANGED <<coordVars, screenVars, writerVars, histVars>>

\* The writer takes the latest of the images in its channel.
WriterTakes ==
    /\ Running
    /\ saving = NoImage
    /\ pending # NoImage
    /\ saving' = pending
    /\ pending' = NoImage
    /\ UNCHANGED <<disk, missed, coordVars, jobVars, screenVars, histVars>>

\* The save replaces the file, or fails and leaves it; nothing is retried.
WriterSaves(ok) ==
    /\ Running
    /\ saving # NoImage
    /\ saving' = NoImage
    /\ disk' = IF ok THEN saving ELSE disk
    /\ missed' = ~ok
    /\ UNCHANGED <<pending, coordVars, jobVars, screenVars, histVars>>

-----------------------------------------------------------------------------
Commands == Refresh \/ Stop

Environment ==
    \/ Launch
    \/ Crash
    \/ Commands
    \/ \E j \in Jobs : TimerExpires(j)

Coordinator ==
    \/ Schedule
    \/ Leave
    \/ Exit
    \/ Tick
    \/ CacheMerge
    \/ \E summary \in Summaries : EngineReady(summary)
    \/ EngineLost
    \/ \E j \in Jobs, g \in Generation : JobEnds(j, g)

Background ==
    \/ \E readable \in BOOLEAN : CacheRead(readable)
    \/ WriterTakes
    \/ \E ok \in BOOLEAN : WriterSaves(ok)

Next == Environment \/ Coordinator \/ Background

Spec == Init /\ [][Next]_vars

\* The coordinator's loop and the writer are never starved, collectors and
\* the cache task end (each collector has its own timeouts), time passes, and
\* select! polls its branches in random order, so that a branch that is ready
\* again and again is taken.  Commands, crashes, launches and the outcomes of
\* collectors and saves are not assumed.
Fairness ==
    /\ WF_vars(Schedule \/ Leave \/ Exit)
    /\ WF_vars(Tick)
    /\ SF_vars(CacheMerge)
    /\ SF_vars(EngineLost \/ \E summary \in Summaries : EngineReady(summary))
    /\ \A j \in Jobs : SF_vars(\E g \in Generation : JobEnds(j, g))
    /\ \A j \in Jobs : WF_vars(TimerExpires(j))
    /\ WF_vars(\E readable \in BOOLEAN : CacheRead(readable))
    /\ WF_vars(WriterTakes)
    /\ WF_vars(\E ok \in BOOLEAN : WriterSaves(ok))

FairSpec == Spec /\ Fairness
-----------------------------------------------------------------------------
(* Properties.                                                             *)

TypeOK ==
    /\ phase \in {"off", "top", "select", "flush", "exited"}
    /\ stopping \in BOOLEAN
    /\ engine \in {"building", "ready", "absent"}
    /\ cacheTask \in {"reading", "read", "merged"}
    /\ cached \in Image
    /\ show \in [Providers -> Display]
    /\ refreshing \subseteq Providers
    /\ received \subseteq Providers
    /\ inFlight \subseteq Jobs
    /\ queued \subseteq Jobs
    /\ due \subseteq Jobs
    /\ gen \in [Jobs -> Generation]
    /\ failures \in [Providers -> 0..MaxFailures]
    /\ tasks \subseteq Jobs \X Generation
    /\ pending \in Image \cup {NoImage}
    /\ saving \in Image \cup {NoImage}
    /\ disk \in Image
    /\ taken \in [Providers -> 0..MaxReading]
    /\ unread \in BOOLEAN
    /\ missed \in BOOLEAN

\* A provider that delivered a fresh quota in this run keeps showing its newest
\* reading, whatever fails or arrives late afterwards; "fresh" is only said of
\* the newest reading ever taken, and never together with an error.
NewestReadingShown ==
    \A p \in Providers :
      /\ p \in received => show[p].quota.from = taken[p] /\ taken[p] > 0
      /\ "fresh" \in {show[p].status, show[p].look} =>
           p \in received /\ show[p].status = show[p].look /\ ~show[p].error

Dated(image) == \A p \in Providers : image[p].from = image[p].lastOk

\* Windows and "last updated" always come from the same reading: on screen, in
\* the writer's hands, in the file and in what was read from it.
QuotaMatchesItsTime ==
    /\ \A p \in Providers : show[p].quota.from = show[p].quota.lastOk
    /\ Dated(disk) /\ Dated(cached)
    /\ pending # NoImage => Dated(pending)
    /\ saving # NoImage => Dated(saving)

\* A job has at most one running collector, of its current generation, and a
\* request can only be queued behind it; so no result is ever dropped as one of
\* another generation, and none is queued once a stop was accepted.
OneTaskPerJob ==
    /\ tasks = {<<j, gen[j]>> : j \in inFlight}
    /\ queued \subseteq inFlight
    /\ stopping => queued = {}

\* Until the cached quota is merged nothing is handed to the writer, so a fast
\* provider cannot erase from the file what a slow one has there; what is merged
\* is what the file still holds, and meets an empty screen except where the run
\* has received something.
CacheSurvivesTheStart ==
    cacheTask # "merged" =>
      /\ pending = NoImage /\ saving = NoImage
      /\ cacheTask = "read" => cached = IF unread THEN EmptyImage ELSE disk
      /\ \A p \in Providers \ received : show[p].quota = NoReading

\* Images on their way to the file are in the order of their age: what is in the
\* file is no newer than what is being saved, than what waits for the writer,
\* than what the window shows; and nothing is newer than what was ever taken.
ImagesInOrder ==
    \A p \in Providers :
      LET screen == show[p].quota.from IN
      /\ pending # NoImage => pending[p].from <= screen
      /\ saving # NoImage =>
           saving[p].from <= IF pending # NoImage THEN pending[p].from ELSE screen
      /\ cacheTask = "merged" /\ ~unread =>
           disk[p].from <= IF saving # NoImage THEN saving[p].from
                           ELSE IF pending # NoImage THEN pending[p].from ELSE screen
      /\ screen <= taken[p] /\ disk[p].from <= taken[p] /\ cached[p].from <= taken[p]

\* Whatever races with it, the newest reading is what the window shows, next to
\* its own time; what the file already had survives the start; and what goes to
\* the file goes there in the order it was read.
QuotasInOrder ==
    NewestReadingShown /\ QuotaMatchesItsTime /\ CacheSurvivesTheStart /\ ImagesInOrder

\* While the coordinator waits, a provider is shown as being refreshed exactly
\* if one of its collectors is running (or the engine is not there yet).
ProgressIsReal ==
    phase = "select" /\ engine = "ready" => refreshing = {t[1].provider : t \in tasks}

\* The backoff counter of a quota job is positive exactly while the window
\* shows an error for the provider.
ErrorTellsLastFailure ==
    \A p \in Providers : failures[p] > 0 <=> show[p].error

\* After an orderly exit the file holds what the window showed last, unless the
\* last save failed.
OrderlyExitIsSaved == phase = "exited" /\ ~missed => disk = ImageOf(show)

\* Within a run the reading shown for a provider never goes back to an older
\* one (a late cache, a failure, a second collector), and local totals that
\* were shown do not vanish.
ShownNeverGoesBack ==
    [][Running /\ phase' # "off" =>
         \A p \in Providers :
           /\ show'[p].quota.from >= show[p].quota.from
           /\ show[p].local \in {"full", "partial"} => show'[p].local \in {"full", "partial"}
           /\ show[p].health # "none" => show'[p].health # "none"]_vars

\* The shared file never goes back to an older reading of a provider, over
\* failures, stops, crashes and restarts, unless the run could not read it.
FileNeverGoesBack ==
    [][~unread => \A p \in Providers : disk'[p].from >= disk[p].from]_vars

\* Requests made while a job runs are worth one more run, and it is not put off:
\* when the job ends it is due again at once.
RequestsCoalesce ==
    [][\A j \in queued :
         j \in inFlight' \/ stopping' \/ phase' = "off" \/ (j \in due' /\ j \notin queued')]_vars

\* Once a stop was accepted no collector starts.
NoWorkAfterStop == [][stopping => tasks' \subseteq tasks]_vars

\* An accepted stop ends the process.
StopEnds == stopping ~> ~Running

\* No job is ever forgotten: a request made while it runs is followed by another
\* run, and with no request at all it is started again and again, whatever became
\* of its last collector.
JobsRunAgain ==
    \A j \in Jobs :
      /\ \A g \in Generation :
           (j \in queued /\ gen[j] = g) ~> (gen[j] # g \/ stopping \/ ~Running)
      /\ []<>(j \in inFlight \/ engine = "absent" \/ stopping \/ ~Running)

\* A reading shown is eventually in the file, unless a save fails or the
\* process is killed first.
ReadingReachesTheFile ==
    \A p \in Providers, n \in 1..MaxReading :
      (p \in received /\ show[p].quota.from = n) ~>
        (disk[p].from >= n \/ missed \/ phase = "off")

-----------------------------------------------------------------------------
(* The monitor keeps the promises of QuotaLedger.                          *)

Ledger == INSTANCE QuotaLedger WITH
    shown <- [p \in Providers |-> IF Running THEN show[p].quota.from ELSE 0],
    saved <- [p \in Providers |-> disk[p].from],
    open <- Running,
    unread <- Running /\ unread

LedgerSpec == Ledger!Spec
=============================================================================
