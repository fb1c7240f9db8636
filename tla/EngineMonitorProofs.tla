------------------------- MODULE EngineMonitorProofs -------------------------
(***************************************************************************)
(* Theorems about EngineMonitor, for every set of providers and jobs and   *)
(* every bound.                                                            *)
(***************************************************************************)
EXTENDS EngineMonitor, TLAPS

\* The image made of well-typed displays is a well-typed image.
LEMMA ImageOfType ==
  ASSUME NEW display \in [Providers -> Display]
  PROVE  ImageOf(display) \in Image
BY DEF ImageOf, Image, Reading, NoReading, Display

\* A generation is followed by a generation.
LEMMA NextGeneration ==
  ASSUME NEW g \in Generation
  PROVE  (g + 1) % GenMod \in Generation
BY ConstantsOK DEF Generation

\* An accepted result keeps the job variables in their types.
LEMMA AcceptedType ==
  ASSUME TypeOK, NEW j \in Jobs, NEW g \in Generation, Accepted(j, g)
  PROVE  /\ phase' \in {"off", "top", "select", "flush", "exited"}
         /\ inFlight' \subseteq Jobs
         /\ queued' \subseteq Jobs
         /\ due' \subseteq Jobs
         /\ tasks' \subseteq Jobs \X Generation
         /\ gen' \in [Jobs -> Generation]
         /\ stopping' = stopping /\ engine' = engine /\ cacheTask' = cacheTask
         /\ cached' = cached /\ refreshing' = refreshing
         /\ gen' = gen
BY DEF TypeOK, Accepted, Ends, Wake, NextDue

\* Sending an image keeps the writer's variables in their types.
LEMMA SendImageType ==
  ASSUME TypeOK, show' \in [Providers -> Display], SendImage
  PROVE  /\ pending' \in Image \cup {NoImage}
         /\ saving' \in Image \cup {NoImage}
         /\ disk' \in Image
         /\ missed' \in BOOLEAN
BY ImageOfType DEF TypeOK, SendImage

\* A step of a collector's end keeps every variable in its type.
LEMMA JobEndsType ==
  ASSUME TypeOK, NEW j \in Jobs, NEW g \in Generation, JobEnds(j, g)
  PROVE  TypeOK'
<1> DEFINE p == j.provider
<1>0. p \in Providers
  BY ConstantsOK
<1>2. CASE QuotaFresh(j, g)
  <2>1. taken[p] + 1 \in 0..MaxReading
    BY <1>0, <1>2, ConstantsOK DEF QuotaFresh, TypeOK
  <2> DEFINE r == [from |-> taken[p] + 1, lastOk |-> taken[p] + 1]
             d == [show[p] EXCEPT !.status = "fresh", !.look = "fresh",
                                  !.error = FALSE, !.quota = r]
  <2>a. r \in Reading
    BY <2>1 DEF Reading
  <2>d. show[p] \in Display
    BY <1>0 DEF TypeOK
  <2>b. d \in Display
    BY <2>a, <2>d DEF Display
  <2>c. show' = [show EXCEPT ![p] = d]
    BY <1>2 DEF QuotaFresh
  <2>2. show' \in [Providers -> Display]
    BY <2>b, <2>c DEF TypeOK
  <2>3. SendImage /\ Accepted(j, g)
    BY <1>2 DEF QuotaFresh
  <2>4. /\ taken' \in [Providers -> 0..MaxReading]
        /\ received' \subseteq Providers
        /\ failures' \in [Providers -> 0..MaxFailures]
        /\ unread' = unread
    BY <1>0, <1>2, <2>1, ConstantsOK DEF QuotaFresh, TypeOK
  <2> QED
    BY <2>2, <2>3, <2>4, AcceptedType, SendImageType DEF TypeOK
<1>3. ASSUME NEW panicked \in BOOLEAN, QuotaFailed(j, g, panicked)
      PROVE  TypeOK'
  <2> DEFINE r == IF panicked THEN show[p].quota ELSE NoReading
  <2>a. show[p] \in Display
    BY <1>0 DEF TypeOK
  <2>b. r \in Reading
    BY <2>a, ConstantsOK DEF Display, Reading, NoReading
  <2>c. [show[p] EXCEPT !.status = "unavailable", !.look = "stale", !.error = TRUE,
                        !.quota = r] \in Display
    BY <2>a, <2>b DEF Display
  <2>d. [show[p] EXCEPT !.status = "stale", !.look = "stale", !.error = TRUE] \in Display
    BY <2>a DEF Display
  <2>1. AfterFailure(show[p], panicked) \in Display
    BY <2>c, <2>d DEF AfterFailure
  <2>2. show' \in [Providers -> Display]
    BY <1>0, <1>3, <2>1 DEF QuotaFailed, TypeOK
  <2>3. SendImage /\ Accepted(j, g)
    BY <1>3 DEF QuotaFailed
  <2>4. CountFailure(failures[p]) \in 0..MaxFailures
    BY <1>0, ConstantsOK DEF CountFailure, TypeOK
  <2>5. /\ failures' \in [Providers -> 0..MaxFailures]
        /\ received' = received /\ taken' = taken /\ unread' = unread
    BY <1>0, <1>3, <2>4 DEF QuotaFailed, TypeOK, histVars
  <2> QED
    BY <2>2, <2>3, <2>5, AcceptedType, SendImageType DEF TypeOK
<1>4. ASSUME NEW h \in {"operational", "unknown"}, HealthResult(j, g, h)
      PROVE  TypeOK'
  <2>a. [show[p] EXCEPT !.health = h] \in Display
    BY <1>0 DEF TypeOK, Display
  <2>1. show' \in [Providers -> Display]
    BY <2>a, <1>4 DEF HealthResult, TypeOK
  <2> QED
    BY <1>4, <2>1, AcceptedType DEF HealthResult, TypeOK, writerVars, histVars
<1>5. ASSUME NEW scan \in {"full", "partial", "nothing", "panicked"},
             LocalResult(j, g, scan)
      PROVE  TypeOK'
  <2>1. AfterScan(show[p].local, scan) \in {"none", "empty", "full", "partial"}
    BY <1>0 DEF AfterScan, TypeOK, Display
  <2>a. [show[p] EXCEPT !.local = AfterScan(show[p].local, scan)] \in Display
    BY <1>0, <2>1 DEF TypeOK, Display
  <2>2. show' \in [Providers -> Display]
    BY <2>a, <1>5 DEF LocalResult, TypeOK
  <2> QED
    BY <1>5, <2>2, AcceptedType DEF LocalResult, TypeOK, writerVars, histVars
<1> QED
  BY <1>2, <1>3, <1>4, <1>5 DEF JobEnds

\* What a run starts with is well typed.
LEMMA ColdType ==
  /\ InitialDisplay \in Display
  /\ EmptyImage \in Image
  /\ 0 \in 0..MaxReading /\ 0 \in Generation /\ 0 \in 0..MaxFailures
BY ConstantsOK DEF InitialDisplay, Display, EmptyImage, Image, NoReading, Reading, Generation

\* TypeOK is inductive.
LEMMA TypeStep == TypeOK /\ [Next]_vars => TypeOK'
<1> SUFFICES ASSUME TypeOK, [Next]_vars
             PROVE  TypeOK'
  OBVIOUS
<1> USE DEF coordVars, jobVars, screenVars, writerVars, histVars
<1>1. CASE Launch
  BY <1>1, ColdType DEF Launch, ColdMemory, TypeOK
<1>2. CASE Crash
  BY <1>2, ColdType DEF Crash, ColdMemory, TypeOK
<1>3. CASE Schedule
  <2>1. \A j \in Jobs : (gen[j] + 1) % GenMod \in Generation
    BY NextGeneration DEF TypeOK
  <2>2. Startable \subseteq Jobs
    BY DEF Startable, TypeOK
  <2>3. refreshing' \subseteq Providers
    BY <1>3 DEF Schedule, Busy
  <2>4. /\ inFlight' \subseteq Jobs
        /\ gen' \in [Jobs -> Generation]
        /\ phase' = "select"
    BY <1>3, <2>1, <2>2 DEF Schedule, TypeOK
  <2>5. tasks' \subseteq Jobs \X Generation
    BY <1>3, <2>1, <2>2 DEF Schedule, TypeOK
  <2> QED
    BY <1>3, <2>3, <2>4, <2>5 DEF Schedule, TypeOK
<1>4. CASE Leave
  BY <1>4, ImageOfType DEF Leave, Busy, TypeOK
<1>5. CASE Exit
  BY <1>5 DEF Exit, TypeOK
<1>6. CASE Refresh
  BY <1>6 DEF Refresh, Wake, TypeOK
<1>7. CASE Stop
  BY <1>7 DEF Stop, Wake, TypeOK
<1>8. CASE Tick
  BY <1>8 DEF Tick, Wake, TypeOK
<1>9. CASE CacheMerge
  <2>1. \A p \in Providers : Recalled(show[p], cached[p]) \in Display
    BY DEF Recalled, TypeOK, Display, Image
  <2>2. show' \in [Providers -> Display]
    BY <1>9, <2>1 DEF CacheMerge, TypeOK
  <2> QED
    BY <1>9, <2>2, ImageOfType DEF CacheMerge, Wake, TypeOK
<1>10. ASSUME NEW summary \in Summaries, EngineReady(summary)
       PROVE  TypeOK'
  <2>1. \A p \in LocalProviders : summary[p] \in {"none", "empty", "full", "partial"}
    BY DEF Summaries
  <2>2. show' \in [Providers -> Display]
    BY <1>10, <2>1 DEF EngineReady, TypeOK, Display
  <2> QED
    BY <1>10, <2>2 DEF EngineReady, Wake, TypeOK
<1>11. CASE EngineLost
  BY <1>11 DEF EngineLost, Wake, TypeOK
<1>12. ASSUME NEW j \in Jobs, NEW g \in Generation, JobEnds(j, g)
       PROVE  TypeOK'
  BY <1>12, JobEndsType
<1>13. ASSUME NEW readable \in BOOLEAN, CacheRead(readable)
       PROVE  TypeOK'
  BY <1>13, ColdType DEF CacheRead, TypeOK
<1>14. ASSUME NEW j \in Jobs, TimerExpires(j)
       PROVE  TypeOK'
  BY <1>14 DEF TimerExpires, TypeOK
<1>15. CASE WriterTakes
  BY <1>15 DEF WriterTakes, TypeOK
<1>16. ASSUME NEW ok \in BOOLEAN, WriterSaves(ok)
       PROVE  TypeOK'
  BY <1>16 DEF WriterSaves, TypeOK
<1>17. CASE UNCHANGED vars
  BY <1>17 DEF vars, TypeOK
<1> QED
  BY <1>1, <1>2, <1>3, <1>4, <1>5, <1>6, <1>7, <1>8, <1>9, <1>10, <1>11, <1>12,
     <1>13, <1>14, <1>15, <1>16, <1>17
  DEF Next, Environment, Commands, Coordinator, Background

\* The initial state is well typed.
LEMMA TypeInit == Init => TypeOK
BY ColdType DEF Init, TypeOK

\* Every variable of the monitor stays in its type, through crashes and restarts.
THEOREM TypeCorrect == Spec => []TypeOK
BY TypeInit, TypeStep, PTL DEF Spec
-----------------------------------------------------------------------------
(***************************************************************************)
(* The quota data: what is shown, what is on its way to the file and what  *)
(* is in it.  DataInv is inductive: none of its parts is so alone, because *)
(* a failure keeps a reading only if it is dated (QuotaMatchesItsTime), a  *)
(* merged cache is harmless only if nothing was written before             *)
(* (CacheSurvivesTheStart), and an image is no older than the file only if *)
(* it was made from a screen that is not (ImagesInOrder).                  *)
(***************************************************************************)
DataInv ==
    /\ NewestReadingShown
    /\ QuotaMatchesItsTime
    /\ CacheSurvivesTheStart
    /\ ImagesInOrder

dataVars == <<show, received, cacheTask, cached, unread, pending, saving, disk, taken>>

\* In an image of dated displays every provider has the reading it shows.
LEMMA ImageOfDated ==
  ASSUME NEW display \in [Providers -> Display],
         \A p \in Providers : display[p].quota.from = display[p].quota.lastOk
  PROVE  /\ ImageOf(display) \in Image
         /\ Dated(ImageOf(display))
         /\ \A p \in Providers : ImageOf(display)[p].from = display[p].quota.from
<1> SUFFICES ASSUME NEW p \in Providers
             PROVE  /\ ImageOf(display)[p].from = ImageOf(display)[p].lastOk
                    /\ ImageOf(display)[p].from = display[p].quota.from
  BY ImageOfType DEF Dated
<1> QED
  BY DEF ImageOf, NoReading

\* A step that leaves the quota data alone keeps DataInv.
LEMMA DataUnchanged == DataInv /\ UNCHANGED dataVars => DataInv'
BY DEF dataVars, DataInv, NewestReadingShown, QuotaMatchesItsTime, Dated,
       CacheSurvivesTheStart, ImagesInOrder

\* So does one that changes at most the local usage and the health shown.
LEMMA DataSameQuota ==
  ASSUME DataInv, UNCHANGED <<received, cacheTask, cached, unread, pending, saving, disk, taken>>,
         \A p \in Providers : /\ show'[p].quota = show[p].quota
                              /\ show'[p].status = show[p].status
                              /\ show'[p].look = show[p].look
                              /\ show'[p].error = show[p].error
  PROVE  DataInv'
<1>1. NewestReadingShown'
  BY DEF DataInv, NewestReadingShown
<1>2. QuotaMatchesItsTime'
  BY DEF DataInv, QuotaMatchesItsTime, Dated
<1>3. CacheSurvivesTheStart'
  BY DEF DataInv, CacheSurvivesTheStart
<1>4. ImagesInOrder'
  BY DEF DataInv, ImagesInOrder
<1> QED
  BY <1>1, <1>2, <1>3, <1>4 DEF DataInv

\* A run starts with an empty screen, an empty writer and the file it finds.
LEMMA DataCold == TypeOK /\ DataInv /\ ColdMemory /\ UNCHANGED <<disk, taken>> => DataInv'
<1> SUFFICES ASSUME TypeOK, DataInv, ColdMemory, UNCHANGED <<disk, taken>>
             PROVE  DataInv'
  OBVIOUS
<1>1. \A p \in Providers :
        /\ show'[p] = InitialDisplay
        /\ cached'[p] = NoReading
        /\ disk'[p].from <= taken'[p] /\ 0 <= taken'[p]
  BY DEF ColdMemory, EmptyImage, DataInv, ImagesInOrder, TypeOK
<1>2. NewestReadingShown'
  BY <1>1 DEF ColdMemory, NewestReadingShown, InitialDisplay
<1>3. QuotaMatchesItsTime'
  BY <1>1 DEF ColdMemory, DataInv, QuotaMatchesItsTime, Dated, InitialDisplay, NoReading
<1>4. CacheSurvivesTheStart'
  BY <1>1 DEF ColdMemory, CacheSurvivesTheStart, InitialDisplay
<1>5. ImagesInOrder'
  BY <1>1 DEF ColdMemory, ImagesInOrder, InitialDisplay, NoReading
<1> QED
  BY <1>2, <1>3, <1>4, <1>5 DEF DataInv

\* The late cache: it is merged into a screen that has received nothing newer.
LEMMA DataCacheMerge == TypeOK /\ TypeOK' /\ DataInv /\ CacheMerge => DataInv'
<1> SUFFICES ASSUME TypeOK, TypeOK', DataInv, CacheMerge
             PROVE  DataInv'
  OBVIOUS
<1>1. ASSUME NEW p \in Providers
      PROVE  \/ /\ Recallable(p)
                /\ show'[p] = Recalled(show[p], cached[p])
             \/ /\ ~Recallable(p)
                /\ show'[p] = show[p]
  BY DEF CacheMerge
<1>2. \A p \in Providers : show[p] \in Display /\ cached[p] \in Reading
  BY DEF TypeOK, Image
<1>3. \A p \in Providers : show'[p].quota.from = show'[p].quota.lastOk
  BY <1>1, <1>2 DEF Recalled, Display, DataInv, QuotaMatchesItsTime, Dated
<1>4. show' \in [Providers -> Display]
  BY DEF TypeOK
<1>5. /\ pending' # NoImage
      /\ Dated(pending')
      /\ \A p \in Providers : pending'[p].from = show'[p].quota.from
  <2>1. pending' = ImageOf(show')
    BY DEF CacheMerge
  <2> QED
    BY <1>3, <1>4, <2>1, ImageOfDated, ConstantsOK
<1>6. /\ saving' = NoImage /\ saving = NoImage
      /\ cached = IF unread THEN EmptyImage ELSE disk
      /\ \A p \in Providers \ received : show[p].quota = NoReading
  BY DEF CacheMerge, DataInv, CacheSurvivesTheStart
<1>7. NewestReadingShown'
  <2> SUFFICES ASSUME NEW p \in Providers
               PROVE  /\ p \in received => show'[p].quota.from = taken[p] /\ taken[p] > 0
                      /\ "fresh" \in {show'[p].status, show'[p].look} =>
                           p \in received /\ show'[p].status = show'[p].look /\ ~show'[p].error
    BY DEF CacheMerge, NewestReadingShown, histVars
  <2>1. CASE Recallable(p)
    BY <1>1, <1>2, <2>1 DEF Recallable, Recalled, Display
  <2>2. CASE ~Recallable(p)
    BY <1>1, <2>2 DEF DataInv, NewestReadingShown
  <2> QED
    BY <2>1, <2>2
<1>8. QuotaMatchesItsTime'
  BY <1>3, <1>5, <1>6 DEF CacheMerge, DataInv, QuotaMatchesItsTime, Dated
<1>9. CacheSurvivesTheStart'
  BY DEF CacheMerge, CacheSurvivesTheStart
<1>10. ImagesInOrder'
  <2> SUFFICES ASSUME NEW p \in Providers
               PROVE  /\ pending'[p].from <= show'[p].quota.from
                      /\ ~unread => disk[p].from <= pending'[p].from
                      /\ show'[p].quota.from <= taken[p]
                      /\ disk[p].from <= taken[p]
                      /\ cached[p].from <= taken[p]
    BY <1>5, <1>6 DEF CacheMerge, ImagesInOrder, histVars
  <2>1. /\ show[p].quota.from \in Nat /\ cached[p].from \in Nat /\ disk[p].from \in Nat
        /\ taken[p] \in Nat /\ show'[p].quota.from \in Nat
    BY <1>2, <1>4 DEF Display, Reading, TypeOK, Image
  <2>2. /\ show[p].quota.from <= taken[p]
        /\ disk[p].from <= taken[p]
        /\ cached[p].from <= taken[p]
    BY DEF DataInv, ImagesInOrder
  <2>3. show'[p].quota.from <= taken[p]
    BY <1>1, <1>2, <2>2 DEF Recalled, Display
  <2>4. ASSUME ~unread PROVE disk[p].from <= show'[p].quota.from
    <3>1. cached = disk
      BY <2>4, <1>6
    <3>2. CASE Recallable(p)
      <4>1. show'[p].quota = cached[p]
        BY <1>1, <1>2, <3>2 DEF Recalled, Display
      <4> QED
        BY <2>1, <3>1, <4>1
    <3>3. CASE p \in received
      BY <1>1, <2>1, <2>2, <3>3 DEF Recallable, DataInv, NewestReadingShown
    <3>4. CASE cached[p] = NoReading
      BY <2>1, <3>1, <3>4 DEF NoReading
    <3> QED
      BY <3>2, <3>3, <3>4 DEF Recallable
  <2> QED
    BY <1>5, <2>1, <2>2, <2>3, <2>4
<1> QED
  BY <1>7, <1>8, <1>9, <1>10 DEF DataInv

\* A quota result that leaves the screen dated, and as new as it was, may be sent.
LEMMA DataSend ==
  ASSUME TypeOK, TypeOK', DataInv, SendImage, UNCHANGED <<cacheTask, cached, unread>>,
         \A p \in Providers : /\ show'[p].quota.from = show'[p].quota.lastOk
                              /\ show[p].quota.from <= show'[p].quota.from
                              /\ show'[p].quota.from <= taken'[p]
                              /\ taken[p] <= taken'[p]
  PROVE  QuotaMatchesItsTime' /\ ImagesInOrder'
<1>1. \/ pending' = pending /\ cacheTask # "merged"
      \/ /\ pending' # NoImage
         /\ Dated(pending')
         /\ \A p \in Providers : pending'[p].from = show'[p].quota.from
  <2>1. show' \in [Providers -> Display]
    BY DEF TypeOK
  <2> QED
    BY <2>1, ImageOfDated, ConstantsOK DEF SendImage
<1>2. QuotaMatchesItsTime'
  BY <1>1 DEF SendImage, DataInv, QuotaMatchesItsTime, Dated
<1>3. ASSUME NEW p \in Providers
      PROVE  /\ show[p].quota.from \in Nat /\ show'[p].quota.from \in Nat
             /\ disk[p].from \in Nat /\ cached[p].from \in Nat
             /\ taken[p] \in Nat /\ taken'[p] \in Nat
             /\ saving # NoImage => saving[p].from \in Nat
             /\ pending # NoImage => pending[p].from \in Nat
  BY DEF TypeOK, Image, Reading, Display
<1>4. ImagesInOrder'
  <2> SUFFICES ASSUME NEW p \in Providers
               PROVE  LET screen == show'[p].quota.from IN
                      /\ pending' # NoImage => pending'[p].from <= screen
                      /\ saving # NoImage =>
                           saving[p].from <= IF pending' # NoImage THEN pending'[p].from
                                                                   ELSE screen
                      /\ cacheTask = "merged" /\ ~unread =>
                           disk[p].from <= IF saving # NoImage THEN saving[p].from
                                           ELSE IF pending' # NoImage THEN pending'[p].from
                                           ELSE screen
                      /\ screen <= taken'[p] /\ disk[p].from <= taken'[p]
                      /\ cached[p].from <= taken'[p]
    BY DEF ImagesInOrder, SendImage
  <2>1. /\ pending # NoImage => pending[p].from <= show[p].quota.from
        /\ saving # NoImage =>
             saving[p].from <= IF pending # NoImage THEN pending[p].from
                                                    ELSE show[p].quota.from
        /\ cacheTask = "merged" /\ ~unread =>
             disk[p].from <= IF saving # NoImage THEN saving[p].from
                             ELSE IF pending # NoImage THEN pending[p].from
                             ELSE show[p].quota.from
        /\ disk[p].from <= taken[p]
        /\ cached[p].from <= taken[p]
    BY DEF DataInv, ImagesInOrder
  <2>2. cacheTask # "merged" => pending = NoImage /\ saving = NoImage
    BY DEF DataInv, CacheSurvivesTheStart
  <2> QED
    BY <1>1, <1>3, <2>1, <2>2
<1> QED
  BY <1>2, <1>4

\* A fresh reading is newer than everything there is.
LEMMA DataQuotaFresh ==
  ASSUME TypeOK, TypeOK', DataInv, NEW j \in Jobs, NEW g \in Generation, QuotaFresh(j, g)
  PROVE  DataInv'
<1> DEFINE p == j.provider
<1>0. p \in Providers
  BY ConstantsOK
<1>1. /\ taken'[p] = taken[p] + 1
      /\ show'[p].quota.from = taken[p] + 1 /\ show'[p].quota.lastOk = taken[p] + 1
      /\ show'[p].status = "fresh" /\ show'[p].look = "fresh" /\ show'[p].error = FALSE
      /\ \A q \in Providers \ {p} : show'[q] = show[q] /\ taken'[q] = taken[q]
      /\ received' = received \cup {p}
      /\ UNCHANGED <<cacheTask, cached, unread>>
      /\ SendImage
  BY <1>0 DEF QuotaFresh, TypeOK, Accepted, Ends, Display
<1>2. \A q \in Providers : /\ show[q].quota.from <= taken[q]
                           /\ show[q].quota.from = show[q].quota.lastOk
                           /\ show[q].quota.from \in Nat /\ taken[q] \in Nat
  BY DEF DataInv, ImagesInOrder, QuotaMatchesItsTime, TypeOK, Display, Reading
<1>3. \A q \in Providers : /\ show'[q].quota.from = show'[q].quota.lastOk
                           /\ show[q].quota.from <= show'[q].quota.from
                           /\ show'[q].quota.from <= taken'[q]
                           /\ taken[q] <= taken'[q]
  BY <1>1, <1>2
<1>4. QuotaMatchesItsTime' /\ ImagesInOrder'
  BY <1>1, <1>3, DataSend
<1>5. NewestReadingShown'
  BY <1>1, <1>2 DEF DataInv, NewestReadingShown
<1>6. CacheSurvivesTheStart'
  BY <1>1 DEF DataInv, CacheSurvivesTheStart, SendImage
<1> QED
  BY <1>4, <1>5, <1>6 DEF DataInv

\* A failure keeps the reading that is shown.
LEMMA DataQuotaFailed ==
  ASSUME TypeOK, TypeOK', DataInv, NEW j \in Jobs, NEW g \in Generation,
         NEW panicked \in BOOLEAN, QuotaFailed(j, g, panicked)
  PROVE  DataInv'
<1> DEFINE p == j.provider
<1>0. p \in Providers
  BY ConstantsOK
<1>1. /\ show'[p] = AfterFailure(show[p], panicked)
      /\ \A q \in Providers \ {p} : show'[q] = show[q]
      /\ UNCHANGED <<cacheTask, cached, unread, received, taken>>
      /\ SendImage
  BY <1>0 DEF QuotaFailed, TypeOK, Accepted, Ends, histVars
<1>2. \A q \in Providers : /\ show[q].quota.from <= taken[q]
                           /\ show[q].quota.from = show[q].quota.lastOk
                           /\ show[q].quota.from \in Nat /\ taken[q] \in Nat
                           /\ show[q] \in Display /\ show[q].quota \in Reading
  BY DEF DataInv, ImagesInOrder, QuotaMatchesItsTime, TypeOK, Display, Reading
<1>3. /\ show'[p].quota = show[p].quota
      /\ show'[p].status # "fresh" /\ show'[p].look = "stale"
  BY <1>0, <1>1, <1>2 DEF AfterFailure, Display, Reading, NoReading
<1>4. \A q \in Providers : /\ show'[q].quota = show[q].quota
                           /\ "fresh" \in {show'[q].status, show'[q].look} => show'[q] = show[q]
  BY <1>1, <1>3
<1>5. QuotaMatchesItsTime' /\ ImagesInOrder'
  BY <1>1, <1>2, <1>4, DataSend
<1>6. NewestReadingShown'
  BY <1>1, <1>4 DEF DataInv, NewestReadingShown
<1>7. CacheSurvivesTheStart'
  BY <1>1, <1>4 DEF DataInv, CacheSurvivesTheStart, SendImage
<1> QED
  BY <1>5, <1>6, <1>7 DEF DataInv

\* The end of any collector keeps DataInv.
LEMMA DataJobEnds ==
  ASSUME TypeOK, TypeOK', DataInv, NEW j \in Jobs, NEW g \in Generation, JobEnds(j, g)
  PROVE  DataInv'
<1> USE DEF writerVars, histVars, screenVars
<1>2. CASE QuotaFresh(j, g)
  BY <1>2, DataQuotaFresh
<1>3. ASSUME NEW panicked \in BOOLEAN, QuotaFailed(j, g, panicked)
      PROVE  DataInv'
  BY <1>3, DataQuotaFailed
<1>4. ASSUME NEW h \in {"operational", "unknown"}, HealthResult(j, g, h)
      PROVE  DataInv'
  <2>1. \A p \in Providers : /\ show'[p].quota = show[p].quota
                             /\ show'[p].status = show[p].status
                             /\ show'[p].look = show[p].look
                             /\ show'[p].error = show[p].error
    BY <1>4 DEF HealthResult, TypeOK, Display
  <2> QED
    BY <1>4, <2>1, DataSameQuota DEF HealthResult, Accepted, Ends
<1>5. ASSUME NEW scan \in {"full", "partial", "nothing", "panicked"},
             LocalResult(j, g, scan)
      PROVE  DataInv'
  <2>1. \A p \in Providers : /\ show'[p].quota = show[p].quota
                             /\ show'[p].status = show[p].status
                             /\ show'[p].look = show[p].look
                             /\ show'[p].error = show[p].error
    BY <1>5 DEF LocalResult, TypeOK, Display
  <2> QED
    BY <1>5, <2>1, DataSameQuota DEF LocalResult, Accepted, Ends
<1> QED
  BY <1>2, <1>3, <1>4, <1>5 DEF JobEnds

\* The last image of a run is made from the screen.
LEMMA DataLeave == TypeOK /\ DataInv /\ Leave => DataInv'
<1> SUFFICES ASSUME TypeOK, DataInv, Leave
             PROVE  DataInv'
  OBVIOUS
<1>1. /\ pending' # NoImage
      /\ Dated(pending')
      /\ \A p \in Providers : pending'[p].from = show[p].quota.from
  <2>1. pending' = ImageOf(show) /\ show \in [Providers -> Display]
    BY DEF Leave, TypeOK
  <2>2. \A p \in Providers : show[p].quota.from = show[p].quota.lastOk
    BY DEF DataInv, QuotaMatchesItsTime
  <2> QED
    BY <2>1, <2>2, ImageOfDated, ConstantsOK
<1>2. UNCHANGED <<show, received, cacheTask, cached, unread, saving, disk, taken>>
  BY DEF Leave, screenVars, histVars
<1>3. cacheTask = "merged"
  BY DEF Leave, NoTasks
<1>4. NewestReadingShown' /\ CacheSurvivesTheStart'
  BY <1>2, <1>3 DEF DataInv, NewestReadingShown, CacheSurvivesTheStart
<1>5. QuotaMatchesItsTime'
  BY <1>1, <1>2 DEF DataInv, QuotaMatchesItsTime, Dated
<1>6. ASSUME NEW p \in Providers
      PROVE  /\ show[p].quota.from \in Nat
             /\ disk[p].from \in Nat
             /\ saving # NoImage => saving[p].from \in Nat
             /\ pending # NoImage => pending[p].from \in Nat
  BY DEF TypeOK, Image, Reading, Display
<1>7. ImagesInOrder'
  BY <1>1, <1>2, <1>6 DEF DataInv, ImagesInOrder
<1> QED
  BY <1>4, <1>5, <1>7 DEF DataInv

\* The cache task reads what the file holds, or nothing.
LEMMA DataCacheRead ==
  ASSUME TypeOK, DataInv, NEW readable \in BOOLEAN, CacheRead(readable)
  PROVE  DataInv'
<1>1. /\ cacheTask = "reading" /\ cacheTask' = "read"
      /\ cached' = IF unread' THEN EmptyImage ELSE disk
      /\ UNCHANGED <<show, received, pending, saving, disk, taken>>
  BY DEF CacheRead, screenVars, writerVars
<1>2. NewestReadingShown' /\ CacheSurvivesTheStart'
  BY <1>1 DEF DataInv, NewestReadingShown, CacheSurvivesTheStart
<1>3. QuotaMatchesItsTime'
  BY <1>1 DEF DataInv, QuotaMatchesItsTime, Dated, EmptyImage, NoReading
<1>4. \A p \in Providers : cached'[p].from <= taken[p]
  BY <1>1 DEF DataInv, ImagesInOrder, EmptyImage, NoReading, TypeOK
<1>5. ImagesInOrder'
  BY <1>1, <1>4 DEF DataInv, ImagesInOrder
<1> QED
  BY <1>2, <1>3, <1>5 DEF DataInv

\* The writer moves images on without changing their order.
LEMMA DataWriter ==
  ASSUME TypeOK, DataInv, WriterTakes \/ \E ok \in BOOLEAN : WriterSaves(ok)
  PROVE  DataInv'
<1>1. UNCHANGED <<show, received, cacheTask, cached, unread, taken>>
  BY DEF WriterTakes, WriterSaves, coordVars, screenVars, histVars
<1>2. cacheTask = "merged"
  BY DEF DataInv, CacheSurvivesTheStart, WriterTakes, WriterSaves
<1>3. NewestReadingShown' /\ CacheSurvivesTheStart'
  BY <1>1, <1>2 DEF DataInv, NewestReadingShown, CacheSurvivesTheStart
<1>4. QuotaMatchesItsTime'
  BY <1>1 DEF DataInv, QuotaMatchesItsTime, Dated, WriterTakes, WriterSaves
<1>5. ASSUME NEW p \in Providers
      PROVE  /\ show[p].quota.from \in Nat
             /\ disk[p].from \in Nat /\ taken[p] \in Nat
             /\ saving # NoImage => saving[p].from \in Nat
             /\ pending # NoImage => pending[p].from \in Nat
  BY DEF TypeOK, Image, Reading, Display
<1>6. ImagesInOrder'
  BY <1>1, <1>5 DEF DataInv, ImagesInOrder, WriterTakes, WriterSaves
<1> QED
  BY <1>3, <1>4, <1>6 DEF DataInv

\* DataInv is inductive.
LEMMA DataStep == TypeOK /\ TypeOK' /\ DataInv /\ [Next]_vars => DataInv'
<1> SUFFICES ASSUME TypeOK, TypeOK', DataInv, [Next]_vars
             PROVE  DataInv'
  OBVIOUS
<1>1. CASE Launch \/ Crash
  BY <1>1, DataCold DEF Launch, Crash
<1>2. CASE Leave
  BY <1>2, DataLeave
<1>3. CASE CacheMerge
  BY <1>3, DataCacheMerge
<1>4. ASSUME NEW summary \in Summaries, EngineReady(summary)
      PROVE  DataInv'
  <2>1. \A p \in Providers : /\ show'[p].quota = show[p].quota
                             /\ show'[p].status = show[p].status
                             /\ show'[p].look = show[p].look
                             /\ show'[p].error = show[p].error
    BY <1>4 DEF EngineReady, TypeOK, Display
  <2> QED
    BY <1>4, <2>1, DataSameQuota DEF EngineReady, writerVars, histVars
<1>5. ASSUME NEW j \in Jobs, NEW g \in Generation, JobEnds(j, g)
      PROVE  DataInv'
  BY <1>5, DataJobEnds
<1>6. ASSUME NEW readable \in BOOLEAN, CacheRead(readable)
      PROVE  DataInv'
  BY <1>6, DataCacheRead
<1>7. CASE WriterTakes \/ \E ok \in BOOLEAN : WriterSaves(ok)
  BY <1>7, DataWriter
<1>8. CASE \/ Schedule \/ Exit \/ Refresh \/ Stop \/ Tick \/ EngineLost \/ UNCHANGED vars
           \/ \E j \in Jobs : TimerExpires(j)
  <2>1. UNCHANGED dataVars
    BY <1>8 DEF Schedule, Exit, Refresh, Stop, Tick, EngineLost, TimerExpires, vars, dataVars,
                coordVars, jobVars, screenVars, writerVars, histVars
  <2> QED
    BY <2>1, DataUnchanged
<1> QED
  BY <1>1, <1>2, <1>3, <1>4, <1>5, <1>6, <1>7, <1>8
  DEF Next, Environment, Commands, Coordinator, Background

\* DataInv holds before the first run.
LEMMA DataInit == Init => DataInv
BY ConstantsOK
DEF Init, DataInv, NewestReadingShown, QuotaMatchesItsTime, Dated, CacheSurvivesTheStart,
    ImagesInOrder, InitialDisplay, EmptyImage, NoReading

\* A provider that delivered in this run keeps showing its newest reading, dated
\* by itself, whatever fails or arrives late; nothing is written before the cache
\* is merged; images reach the file in the order of their age.
THEOREM QuotaSafe == Spec => []QuotasInOrder
<1>1. Init => TypeOK /\ DataInv
  BY TypeInit, DataInit
<1>2. TypeOK /\ DataInv /\ [Next]_vars => (TypeOK /\ DataInv)'
  BY TypeStep, DataStep
<1>3. DataInv => QuotasInOrder
  BY DEF DataInv, QuotasInOrder
<1> QED
  BY <1>1, <1>2, <1>3, PTL DEF Spec

-----------------------------------------------------------------------------
(* The file and the ledger.                                                *)

\* Only a completed save changes the file, and by ImagesInOrder the image saved
\* is no older than the file.
LEMMA FileStep ==
  ASSUME TypeOK, DataInv, [Next]_vars, ~unread, NEW p \in Providers
  PROVE  disk'[p].from >= disk[p].from
<1>1. disk[p].from \in Nat
  BY ConstantsOK DEF TypeOK, Image, Reading
<1>2. ASSUME NEW ok \in BOOLEAN, WriterSaves(ok)
      PROVE  disk'[p].from >= disk[p].from
  <2>1. saving # NoImage /\ cacheTask = "merged"
    BY <1>2 DEF WriterSaves, DataInv, CacheSurvivesTheStart
  <2>2. disk[p].from <= saving[p].from
    BY <2>1 DEF DataInv, ImagesInOrder
  <2>3. disk' = saving \/ disk' = disk
    BY <1>2 DEF WriterSaves
  <2>4. saving[p].from \in Nat
    BY <2>1, ConstantsOK DEF TypeOK, Image, Reading
  <2> QED
    BY <1>1, <2>2, <2>3, <2>4
<1>3. CASE disk' = disk
  BY <1>1, <1>3
<1>4. (\E ok \in BOOLEAN : WriterSaves(ok)) \/ disk' = disk
  <2>1. CASE Environment
    BY <2>1 DEF Environment, Commands, Launch, Crash, Refresh, Stop, TimerExpires, writerVars
  <2>2. CASE Coordinator
    <3>1. ASSUME NEW j \in Jobs, NEW g \in Generation, JobEnds(j, g)
          PROVE  disk' = disk
      BY <3>1 DEF JobEnds, QuotaFresh, QuotaFailed, HealthResult, LocalResult,
                  SendImage, writerVars
    <3> QED
      BY <2>2, <3>1 DEF Coordinator, Schedule, Leave, Exit, Tick, CacheMerge, EngineReady,
                        EngineLost, writerVars
  <2>3. CASE Background
    BY <2>3 DEF Background, CacheRead, WriterTakes, writerVars
  <2>4. CASE UNCHANGED vars
    BY <2>4 DEF vars, writerVars
  <2> QED
    BY <2>1, <2>2, <2>3, <2>4 DEF Next
<1> QED
  BY <1>2, <1>3, <1>4

\* The shared file never goes back to an older reading, unless the run that
\* writes it could not read it.
THEOREM FileSafe == Spec => FileNeverGoesBack
<1>1. TypeOK /\ DataInv /\ [Next]_vars
        => [~unread => \A p \in Providers : disk'[p].from >= disk[p].from]_vars
  BY FileStep
<1>2. TypeOK /\ DataInv /\ [Next]_vars => (TypeOK /\ DataInv)'
  BY TypeStep, DataStep
<1> QED
  BY <1>1, <1>2, TypeInit, DataInit, PTL DEF Spec, FileNeverGoesBack

\* Until the file has been read nothing says that it could not be.
ReadInv == cacheTask = "reading" => ~unread

LEMMA ReadStep == ReadInv /\ [Next]_vars => ReadInv'
<1> SUFFICES ASSUME ReadInv, [Next]_vars
             PROVE  ReadInv'
  OBVIOUS
<1> USE DEF ReadInv, coordVars, histVars
<1>1. CASE Environment
  BY <1>1 DEF Environment, Commands, Launch, Crash, ColdMemory, Refresh, Stop, TimerExpires
<1>2. CASE Coordinator
  <2>1. ASSUME NEW j \in Jobs, NEW g \in Generation, JobEnds(j, g)
        PROVE  UNCHANGED <<cacheTask, unread>>
    BY <2>1 DEF JobEnds, QuotaFresh, QuotaFailed, HealthResult, LocalResult,
                Accepted, Ends
  <2> QED
    BY <1>2, <2>1 DEF Coordinator, Schedule, Leave, Exit, Tick, CacheMerge, EngineReady, EngineLost
<1>3. CASE Background
  BY <1>3 DEF Background, CacheRead, WriterTakes, WriterSaves
<1>4. CASE UNCHANGED vars
  BY <1>4 DEF vars
<1> QED
  BY <1>1, <1>2, <1>3, <1>4 DEF Next

\* A step that changes neither the quota shown, nor the file, nor the session
\* is a stutter of the ledger.
LEMMA LedgerStutter ==
  ASSUME TypeOK, Running, Running', UNCHANGED <<disk, taken, unread>>,
         \A p \in Providers : show'[p].quota.from = show[p].quota.from
  PROVE  UNCHANGED Ledger!vars
BY DEF Ledger!vars

\* Every step of the monitor is a step of the ledger.
LEMMA LedgerStep == TypeOK /\ DataInv /\ ReadInv /\ [Next]_vars => [Ledger!Next]_(Ledger!vars)
<1> SUFFICES ASSUME TypeOK, DataInv, ReadInv, [Next]_vars
             PROVE  Ledger!Next \/ UNCHANGED Ledger!vars
  OBVIOUS
<1> USE DEF coordVars, jobVars, screenVars, writerVars, histVars
<1>0. \A p \in Providers : /\ show[p].quota.from \in Nat
                           /\ disk[p].from \in Nat
  BY DEF TypeOK, Image, Reading, Display
<1>1. CASE Launch
  <2>1. ~Running /\ Running' /\ unread' = FALSE
    BY <1>1 DEF Launch, ColdMemory, Running
  <2>2. \A p \in Providers : show'[p].quota.from = 0
    BY <1>1 DEF Launch, ColdMemory, InitialDisplay, NoReading
  <2>3. Ledger!Begin
    BY <1>1, <2>1, <2>2 DEF Launch, Ledger!Begin
  <2> QED
    BY <2>3 DEF Ledger!Next
<1>2. CASE Crash
  <2>1. Running /\ ~Running' /\ unread' = FALSE
    BY <1>2 DEF Crash, ColdMemory, Running
  <2>2. Ledger!End
    BY <1>2, <2>1 DEF Crash, Ledger!End, Ledger!Nothing
  <2> QED
    BY <2>2 DEF Ledger!Next
<1>3. CASE Exit
  <2>1. Running /\ ~Running'
    BY <1>3 DEF Exit, Running
  <2>2. Ledger!End
    BY <1>3, <2>1 DEF Exit, Ledger!End, Ledger!Nothing
  <2> QED
    BY <2>2 DEF Ledger!Next
<1>4. CASE \/ Schedule \/ Leave \/ Refresh \/ Stop \/ Tick \/ EngineLost
           \/ WriterTakes \/ \E j \in Jobs : TimerExpires(j)
  <2>1. /\ Running /\ Running'
        /\ UNCHANGED <<show, disk, taken, unread>>
    BY <1>4 DEF Schedule, Leave, Refresh, Stop, Tick, EngineLost, TimerExpires, WriterTakes,
                Wake, Running
  <2> QED
    BY <2>1, LedgerStutter
<1>5. CASE CacheMerge
  <2> DEFINE S == {p \in Providers : Recallable(p)}
  <2>1. Running /\ Running' /\ UNCHANGED <<disk, taken, unread>>
    BY <1>5 DEF CacheMerge, Wake, Running
  <2>2. ASSUME NEW p \in S
        PROVE  show[p].quota.from = 0 /\ show'[p].quota.from = disk[p].from
    <3>1. /\ show[p].quota = NoReading
          /\ cached = IF unread THEN EmptyImage ELSE disk
          /\ cached[p] # NoReading
      BY <1>5 DEF CacheMerge, DataInv, CacheSurvivesTheStart, Recallable
    <3>2. cached = disk
      BY <3>1 DEF EmptyImage
    <3>3. p \in Providers /\ show[p] \in Display
      BY DEF TypeOK
    <3>4. show'[p] = Recalled(show[p], cached[p])
      BY <1>5, <3>3 DEF CacheMerge
    <3>5. show'[p].quota = cached[p]
      BY <3>3, <3>4 DEF Recalled, Display
    <3> QED
      BY <3>1, <3>2, <3>5 DEF NoReading
  <2>3. \A p \in Providers \ S : show'[p] = show[p]
    BY <1>5 DEF CacheMerge
  <2>4. S \in SUBSET Providers
    OBVIOUS
  <2> HIDE DEF S
  <2>5. PICK T \in SUBSET Providers : T = S
    BY <2>4
  <2>6. Ledger!Recall(T)
    BY <2>1, <2>2, <2>3, <2>5 DEF Ledger!Recall
  <2> QED
    BY <2>6 DEF Ledger!Next
<1>6. ASSUME NEW summary \in Summaries, EngineReady(summary)
      PROVE  UNCHANGED Ledger!vars
  <2>1. \A p \in Providers : show'[p].quota.from = show[p].quota.from
    BY <1>6 DEF EngineReady, TypeOK, Display
  <2>2. Running /\ Running' /\ UNCHANGED <<disk, taken, unread>>
    BY <1>6 DEF EngineReady, Wake, Running
  <2> QED
    BY <2>1, <2>2, LedgerStutter
<1>7. ASSUME NEW j \in Jobs, NEW g \in Generation, JobEnds(j, g)
      PROVE  Ledger!Next \/ UNCHANGED Ledger!vars
  <2> DEFINE p == j.provider
  <2>0. p \in Providers
    BY ConstantsOK
  <2>1. Running /\ Running' /\ UNCHANGED <<disk, unread>>
    BY <1>7 DEF JobEnds, QuotaFresh, QuotaFailed, HealthResult, LocalResult,
                Accepted, Ends, SendImage, Wake, Running
  <2>2. CASE QuotaFresh(j, g)
    <3>1. /\ taken' = [taken EXCEPT ![p] = @ + 1]
          /\ show'[p].quota.from = taken[p] + 1
          /\ \A q \in Providers \ {p} : show'[q] = show[q]
      BY <2>0, <2>2 DEF QuotaFresh, TypeOK, Display
    <3>2. Ledger!Measure(p)
      BY <2>0, <2>1, <3>1 DEF Ledger!Measure
    <3> QED
      BY <2>0, <3>2 DEF Ledger!Next
  <2>3. ASSUME NEW panicked \in BOOLEAN, QuotaFailed(j, g, panicked)
        PROVE  UNCHANGED Ledger!vars
    <3>1. show' = [show EXCEPT ![p] = AfterFailure(show[p], panicked)] /\ taken' = taken
      BY <2>3 DEF QuotaFailed
    <3>2. show[p] \in Display /\ show[p].quota.from = show[p].quota.lastOk
      BY <2>0 DEF TypeOK, DataInv, QuotaMatchesItsTime
    <3>3. AfterFailure(show[p], panicked).quota.from = show[p].quota.from
      BY <3>2 DEF AfterFailure, Display, NoReading, Reading
    <3>4. \A q \in Providers : show'[q].quota.from = show[q].quota.from
      BY <2>0, <3>1, <3>3 DEF TypeOK
    <3> QED
      BY <2>1, <3>1, <3>4, LedgerStutter
  <2>5. ASSUME NEW h \in {"operational", "unknown"}, HealthResult(j, g, h)
        PROVE  UNCHANGED Ledger!vars
    <3>1. show' = [show EXCEPT ![p].health = h] /\ taken' = taken
      BY <2>5 DEF HealthResult
    <3>2. \A q \in Providers : show'[q].quota.from = show[q].quota.from
      BY <2>0, <3>1 DEF TypeOK, Display
    <3> QED
      BY <2>1, <3>1, <3>2, LedgerStutter
  <2>6. ASSUME NEW scan \in {"full", "partial", "nothing", "panicked"}, LocalResult(j, g, scan)
        PROVE  UNCHANGED Ledger!vars
    <3>1. show' = [show EXCEPT ![p].local = AfterScan(show[p].local, scan)] /\ taken' = taken
      BY <2>6 DEF LocalResult
    <3>2. \A q \in Providers : show'[q].quota.from = show[q].quota.from
      BY <2>0, <3>1 DEF TypeOK, Display
    <3> QED
      BY <2>1, <3>1, <3>2, LedgerStutter
  <2> QED
    BY <1>7, <2>2, <2>3, <2>5, <2>6 DEF JobEnds
<1>8. ASSUME NEW readable \in BOOLEAN, CacheRead(readable)
      PROVE  Ledger!Next \/ UNCHANGED Ledger!vars
  <2>1. /\ Running /\ Running'
        /\ UNCHANGED <<show, disk, taken>>
        /\ unread' = ~readable
    BY <1>8 DEF CacheRead, Running
  <2>2. ~unread
    BY <1>8 DEF CacheRead, ReadInv
  <2>3. CASE readable
    <3>1. UNCHANGED unread
      BY <2>1, <2>2, <2>3 DEF TypeOK
    <3> QED
      BY <2>1, <3>1, LedgerStutter
  <2>4. CASE ~readable
    <3>1. Ledger!Forget
      BY <2>1, <2>4 DEF Ledger!Forget
    <3> QED
      BY <3>1 DEF Ledger!Next
  <2> QED
    BY <2>3, <2>4
<1>9. ASSUME NEW ok \in BOOLEAN, WriterSaves(ok)
      PROVE  Ledger!Next \/ UNCHANGED Ledger!vars
  <2>1. /\ Running /\ Running'
        /\ UNCHANGED <<show, taken, unread>>
        /\ saving # NoImage
        /\ disk' = IF ok THEN saving ELSE disk
    BY <1>9 DEF WriterSaves, Running
  <2>2. cacheTask = "merged"
    BY <2>1 DEF DataInv, CacheSurvivesTheStart
  <2>3. CASE ~ok
    BY <2>1, <2>3, LedgerStutter
  <2>4. CASE ok
    <3>1. ASSUME NEW p \in Providers
          PROVE  /\ disk'[p].from \in Nat
                 /\ disk'[p].from <= show[p].quota.from
                 /\ unread \/ disk[p].from <= disk'[p].from
      <4>1. /\ saving[p].from \in Nat
            /\ pending # NoImage => pending[p].from \in Nat
        BY <2>1, ConstantsOK DEF TypeOK, Image, Reading
      <4>2. saving[p].from <= show[p].quota.from
        BY <1>0, <2>1, <4>1 DEF DataInv, ImagesInOrder
      <4>3. unread \/ disk[p].from <= saving[p].from
        BY <2>1, <2>2 DEF DataInv, ImagesInOrder
      <4> QED
        BY <2>1, <2>4, <4>1, <4>2, <4>3
    <3>2. Ledger!Save
      BY <2>1, <3>1 DEF Ledger!Save
    <3> QED
      BY <3>2 DEF Ledger!Next
  <2> QED
    BY <2>3, <2>4
<1>10. CASE UNCHANGED vars
  BY <1>10 DEF vars, Ledger!vars, Running
<1> QED
  BY <1>1, <1>2, <1>3, <1>4, <1>5, <1>6, <1>7, <1>8, <1>9, <1>10
  DEF Next, Environment, Commands, Coordinator, Background

LEMMA LedgerInit == Init => Ledger!Init
<1> SUFFICES ASSUME Init
             PROVE  Ledger!Init
  OBVIOUS
<1>1. ~Running
  BY DEF Init, Running
<1> QED
  BY <1>1 DEF Init, Ledger!Init, Ledger!Nothing, EmptyImage, NoReading

\* The monitor implements the ledger: what it shows and what it saves, over
\* any number of runs, is a behaviour of QuotaLedger.
THEOREM ImplementsLedger == Spec => LedgerSpec
<1>1. TypeOK /\ DataInv /\ ReadInv /\ [Next]_vars => (TypeOK /\ DataInv /\ ReadInv)'
  BY TypeStep, DataStep, ReadStep
<1>2. Init => ReadInv
  BY DEF Init, ReadInv
<1> QED
  BY <1>1, <1>2, TypeInit, DataInit, LedgerInit, LedgerStep, PTL
  DEF Spec, LedgerSpec, Ledger!Spec

-----------------------------------------------------------------------------
(* Jobs and their collectors.                                              *)

\* An accepted result: tasks, inFlight, queued and stopping change
\* in no other way.
LEMMA JobEndsJobs ==
  ASSUME OneTaskPerJob, NEW j \in Jobs, NEW g \in Generation, JobEnds(j, g)
  PROVE  /\ gen[j] = g /\ j \in inFlight
         /\ tasks' = tasks \ {<<j, g>>}
         /\ inFlight' = inFlight \ {j}
         /\ queued' = queued \ {j}
         /\ UNCHANGED <<gen, stopping>>
<1>1. gen[j] = g /\ j \in inFlight
  BY DEF OneTaskPerJob, JobEnds, QuotaFresh, QuotaFailed, HealthResult, LocalResult,
         Accepted, Ends
<1> QED
  BY <1>1 DEF JobEnds, QuotaFresh, QuotaFailed, HealthResult, LocalResult,
              Accepted, Ends

LEMMA JobsInit == Init => OneTaskPerJob
BY DEF Init, OneTaskPerJob

LEMMA JobsStep == TypeOK /\ OneTaskPerJob /\ [Next]_vars => OneTaskPerJob'
<1> SUFFICES ASSUME TypeOK, OneTaskPerJob, [Next]_vars
             PROVE  OneTaskPerJob'
  OBVIOUS
<1> USE DEF coordVars, jobVars
<1>1. CASE Launch \/ Crash
  BY <1>1 DEF Launch, Crash, ColdMemory, OneTaskPerJob
<1>2. CASE Schedule
  <2>1. /\ inFlight' = inFlight \cup Startable
        /\ gen' = [j \in Jobs |-> IF j \in Startable THEN (gen[j] + 1) % GenMod ELSE gen[j]]
        /\ tasks' = tasks \cup {<<j, (gen[j] + 1) % GenMod>> : j \in Startable}
        /\ UNCHANGED <<queued, stopping>>
    BY <1>2 DEF Schedule
  <2>2. Startable \subseteq Jobs \ inFlight
    BY DEF Startable, TypeOK
  <2>3. inFlight \subseteq Jobs
    BY DEF TypeOK
  <2>4. \A j \in inFlight : gen'[j] = gen[j]
    BY <2>1, <2>2, <2>3
  <2>5. \A j \in Startable : gen'[j] = (gen[j] + 1) % GenMod
    BY <2>1, <2>2
  <2> HIDE DEF Startable
  <2>6. tasks' = {<<j, gen'[j]>> : j \in inFlight'}
    BY <2>1, <2>4, <2>5 DEF OneTaskPerJob
  <2> QED
    BY <2>1, <2>6 DEF OneTaskPerJob
<1>3. CASE Refresh \/ Stop
  BY <1>3 DEF Refresh, Stop, OneTaskPerJob
<1>4. ASSUME NEW j \in Jobs, NEW g \in Generation, JobEnds(j, g)
      PROVE  OneTaskPerJob'
  BY <1>4, JobEndsJobs DEF OneTaskPerJob
<1>5. CASE UNCHANGED <<inFlight, queued, gen, tasks, stopping>>
  BY <1>5 DEF OneTaskPerJob
<1>6. CASE \/ Leave \/ Exit \/ Tick \/ CacheMerge \/ EngineLost
           \/ (\E summary \in Summaries : EngineReady(summary))
           \/ Background \/ (\E j \in Jobs : TimerExpires(j)) \/ UNCHANGED vars
  BY <1>5, <1>6 DEF Leave, Exit, Tick, CacheMerge, EngineLost, EngineReady, Background, CacheRead,
                    WriterTakes, WriterSaves, TimerExpires, vars
<1> QED
  BY <1>1, <1>2, <1>3, <1>4, <1>6 DEF Next, Environment, Commands, Coordinator

\* A job has one collector at a time, and no result is dropped: the generation
\* check of complete_job never bites.
THEOREM JobsSafe == Spec => []OneTaskPerJob
BY JobsInit, JobsStep, TypeInit, TypeStep, PTL DEF Spec

\* Once a stop was accepted no collector starts, whatever is due or requested.
THEOREM StopIsFinal == Spec => NoWorkAfterStop
<1>1. OneTaskPerJob /\ [Next]_vars => [stopping => tasks' \subseteq tasks]_vars
  <2> SUFFICES ASSUME OneTaskPerJob, Next, stopping
               PROVE  tasks' \subseteq tasks
    OBVIOUS
  <2> USE DEF coordVars, jobVars
  <2>1. CASE Environment
    BY <2>1 DEF Environment, Launch, Crash, ColdMemory, Commands, Refresh, Stop, TimerExpires
  <2>2. CASE Schedule
    BY <2>2 DEF Schedule, Startable
  <2>3. ASSUME NEW j \in Jobs, NEW g \in Generation, JobEnds(j, g)
        PROVE  tasks' \subseteq tasks
    BY <2>3, JobEndsJobs
  <2>4. CASE \/ Leave \/ Exit \/ Tick \/ CacheMerge \/ EngineLost
             \/ (\E summary \in Summaries : EngineReady(summary)) \/ Background
    BY <2>4 DEF Leave, Exit, Tick, CacheMerge, EngineLost, EngineReady, Background, CacheRead,
                WriterTakes, WriterSaves
  <2> QED
    BY <2>1, <2>2, <2>3, <2>4 DEF Next, Coordinator
<1> QED
  BY <1>1, JobsInit, JobsStep, TypeInit, TypeStep, PTL DEF Spec, NoWorkAfterStop

-----------------------------------------------------------------------------
(* Progress and errors on screen.                                          *)

\* Only the head of the loop leads to the wait, and nothing that happens during
\* the wait touches what progress is made of.
LEMMA WaitStep ==
  ASSUME TypeOK, [Next]_vars, phase' = "select"
  PROVE  Schedule \/ (phase = "select" /\ UNCHANGED <<engine, refreshing, tasks>>)
<1> USE DEF coordVars, jobVars
<1>1. CASE Environment
  BY <1>1 DEF Environment, Commands, Launch, Crash, Refresh, Stop, Wake, TimerExpires
<1>2. CASE Coordinator
  <2>1. ASSUME NEW j \in Jobs, NEW g \in Generation, JobEnds(j, g)
        PROVE  phase' = "top"
    BY <2>1 DEF JobEnds, QuotaFresh, QuotaFailed, HealthResult, LocalResult,
                Accepted, Ends, Wake
  <2> QED
    BY <1>2, <2>1 DEF Coordinator, Leave, Exit, Tick, CacheMerge, EngineReady, EngineLost, Wake
<1>3. CASE Background
  BY <1>3 DEF Background, CacheRead, WriterTakes, WriterSaves
<1>4. CASE UNCHANGED vars
  BY <1>4 DEF vars
<1> QED
  BY <1>1, <1>2, <1>3, <1>4 DEF Next

\* While the coordinator waits, the providers shown as being refreshed are those
\* of the running collectors.
THEOREM ProgressSafe == Spec => []ProgressIsReal
<1>1. Init => ProgressIsReal
  BY DEF Init, ProgressIsReal
<1>2. TypeOK /\ TypeOK' /\ OneTaskPerJob' /\ ProgressIsReal /\ [Next]_vars => ProgressIsReal'
  <2> SUFFICES ASSUME TypeOK, TypeOK', OneTaskPerJob', ProgressIsReal, [Next]_vars,
                      phase' = "select", engine' = "ready"
               PROVE  refreshing' = {t[1].provider : t \in tasks'}
    BY DEF ProgressIsReal
  <2>1. CASE Schedule
    <3>1. refreshing' = Busy(inFlight')
      BY <2>1 DEF Schedule
    <3>2. tasks' = {<<j, gen'[j]>> : j \in inFlight'}
      BY DEF OneTaskPerJob
    <3>3. \A j \in inFlight' : j.provider \in Providers
      BY ConstantsOK DEF TypeOK
    <3>4. \A t \in tasks' : t[1] \in inFlight'
      BY <3>2
    <3>5. \A j \in inFlight' : \E t \in tasks' : t[1] = j
      <4> TAKE j \in inFlight'
      <4>1. <<j, gen'[j]>> \in tasks' /\ <<j, gen'[j]>>[1] = j
        BY <3>2
      <4> QED
        BY <4>1
    <3>6. \A q : q \in refreshing' <=> \E t \in tasks' : q = t[1].provider
      BY <3>1, <3>3, <3>4, <3>5 DEF Busy
    <3> QED
      BY <3>6
  <2>2. CASE phase = "select" /\ UNCHANGED <<engine, refreshing, tasks>>
    BY <2>2 DEF ProgressIsReal
  <2> QED
    BY <2>1, <2>2, WaitStep
<1> QED
  BY <1>1, <1>2, JobsInit, JobsStep, TypeInit, TypeStep, PTL DEF Spec

LEMMA ErrorStep == TypeOK /\ ErrorTellsLastFailure /\ [Next]_vars => ErrorTellsLastFailure'
<1> SUFFICES ASSUME TypeOK, ErrorTellsLastFailure, [Next]_vars
             PROVE  ErrorTellsLastFailure'
  OBVIOUS
<1> USE DEF jobVars, screenVars
<1>0. \A p \in Providers : show[p] \in Display /\ failures[p] \in 0..MaxFailures
  BY DEF TypeOK
<1>1. CASE Launch \/ Crash
  BY <1>1 DEF Launch, Crash, ColdMemory, InitialDisplay, ErrorTellsLastFailure
<1>2. ASSUME \A p \in Providers : show'[p].error = show[p].error, failures' = failures
      PROVE  ErrorTellsLastFailure'
  BY <1>2 DEF ErrorTellsLastFailure
<1>3. CASE CacheMerge
  <2>1. \A p \in Providers : show'[p].error = show[p].error
    BY <1>0, <1>3 DEF CacheMerge, Recalled, Display
  <2> QED
    BY <1>2, <1>3, <2>1 DEF CacheMerge
<1>4. ASSUME NEW summary \in Summaries, EngineReady(summary)
      PROVE  ErrorTellsLastFailure'
  <2>1. \A p \in Providers : show'[p].error = show[p].error
    BY <1>0, <1>4 DEF EngineReady, Display
  <2> QED
    BY <1>2, <1>4, <2>1 DEF EngineReady
<1>5. ASSUME NEW j \in Jobs, NEW g \in Generation, JobEnds(j, g)
      PROVE  ErrorTellsLastFailure'
  <2> DEFINE p == j.provider
  <2>0. p \in Providers
    BY ConstantsOK
  <2>2. CASE QuotaFresh(j, g)
    <3>1. /\ \A q \in Providers \ {p} : show'[q] = show[q] /\ failures'[q] = failures[q]
          /\ failures'[p] = 0
      BY <2>0, <2>2 DEF QuotaFresh, TypeOK
    <3>2. show'[p].error = FALSE
      BY <1>0, <2>0, <2>2 DEF QuotaFresh, TypeOK, Display
    <3> QED
      BY <2>0, <3>1, <3>2 DEF ErrorTellsLastFailure
  <2>3. ASSUME NEW panicked \in BOOLEAN, QuotaFailed(j, g, panicked)
        PROVE  ErrorTellsLastFailure'
    <3>1. /\ \A q \in Providers \ {p} : show'[q] = show[q] /\ failures'[q] = failures[q]
          /\ failures'[p] = CountFailure(failures[p])
          /\ show'[p] = AfterFailure(show[p], panicked)
      BY <2>0, <2>3 DEF QuotaFailed, TypeOK
    <3>2. AfterFailure(show[p], panicked).error = TRUE
      BY <1>0, <2>0 DEF AfterFailure, Display
    <3>3. CountFailure(failures[p]) > 0
      BY <1>0, <2>0, ConstantsOK DEF CountFailure
    <3> QED
      BY <2>0, <3>1, <3>2, <3>3 DEF ErrorTellsLastFailure
  <2>4. ASSUME NEW h \in {"operational", "unknown"}, HealthResult(j, g, h)
        PROVE  ErrorTellsLastFailure'
    <3>1. show' = [show EXCEPT ![p].health = h] /\ failures' = failures
      BY <2>4 DEF HealthResult
    <3>2. \A q \in Providers : show'[q].error = show[q].error
      BY <1>0, <2>0, <3>1 DEF TypeOK, Display
    <3> QED
      BY <1>2, <3>1, <3>2
  <2>5. ASSUME NEW scan \in {"full", "partial", "nothing", "panicked"}, LocalResult(j, g, scan)
        PROVE  ErrorTellsLastFailure'
    <3>1. show' = [show EXCEPT ![p].local = AfterScan(show[p].local, scan)] /\ failures' = failures
      BY <2>5 DEF LocalResult
    <3>2. \A q \in Providers : show'[q].error = show[q].error
      BY <1>0, <2>0, <3>1 DEF TypeOK, Display
    <3> QED
      BY <1>2, <3>1, <3>2
  <2> QED
    BY <1>5, <2>2, <2>3, <2>4, <2>5 DEF JobEnds
<1>6. CASE \/ Schedule \/ Leave \/ Exit \/ Tick \/ EngineLost \/ Commands \/ Background
           \/ (\E j \in Jobs : TimerExpires(j)) \/ UNCHANGED vars
  BY <1>2, <1>6 DEF Schedule, Leave, Exit, Tick, EngineLost, Commands, Refresh, Stop, Background,
                    CacheRead, WriterTakes, WriterSaves, TimerExpires, vars
<1> QED
  BY <1>1, <1>3, <1>4, <1>5, <1>6 DEF Next, Environment, Coordinator

\* A quota job backs off exactly while its provider's error is on screen.
THEOREM ErrorsSafe == Spec => []ErrorTellsLastFailure
<1>1. Init => ErrorTellsLastFailure
  <2> SUFFICES ASSUME Init, NEW p \in Providers
               PROVE  failures[p] > 0 <=> show[p].error
    BY DEF ErrorTellsLastFailure
  <2>1. failures[p] = 0 /\ show[p].error = FALSE
    BY DEF Init, InitialDisplay
  <2>2. ~(0 > 0)
    OBVIOUS
  <2> QED
    BY <2>1, <2>2
<1> QED
  BY <1>1, ErrorStep, TypeInit, TypeStep, PTL DEF Spec

-----------------------------------------------------------------------------
(* An orderly exit.                                                        *)

\* On the way out the last image is in the channel, then with the writer, then
\* in the file (or its save has failed).
LastImageUnderWay ==
    phase \in {"flush", "exited"} =>
      \/ phase = "flush" /\ pending = ImageOf(show)
      \/ phase = "flush" /\ pending = NoImage /\ saving = ImageOf(show)
      \/ pending = NoImage /\ saving = NoImage /\ (missed \/ disk = ImageOf(show))

LEMMA ExitStep == TypeOK /\ LastImageUnderWay /\ [Next]_vars => LastImageUnderWay'
<1> SUFFICES ASSUME TypeOK, LastImageUnderWay, [Next]_vars, phase' \in {"flush", "exited"}
             PROVE  \/ phase' = "flush" /\ pending' = ImageOf(show')
                    \/ phase' = "flush" /\ pending' = NoImage /\ saving' = ImageOf(show')
                    \/ pending' = NoImage /\ saving' = NoImage /\ (missed' \/ disk' = ImageOf(show'))
  BY DEF LastImageUnderWay, ImageOf
<1> USE DEF coordVars, screenVars, writerVars
<1>0. ImageOf(show) # NoImage
  BY ImageOfType, ConstantsOK DEF TypeOK
<1>1. CASE Leave
  BY <1>1 DEF Leave, screenVars
<1>2. CASE Exit
  BY <1>0, <1>2 DEF Exit, Drained, LastImageUnderWay
<1>3. CASE WriterTakes
  BY <1>0, <1>3 DEF WriterTakes, LastImageUnderWay
<1>4. ASSUME NEW ok \in BOOLEAN, WriterSaves(ok)
      PROVE  \/ phase' = "flush" /\ pending' = ImageOf(show')
             \/ phase' = "flush" /\ pending' = NoImage /\ saving' = ImageOf(show')
             \/ pending' = NoImage /\ saving' = NoImage /\ (missed' \/ disk' = ImageOf(show'))
  <2>1. CASE ok
    BY <1>0, <1>4, <2>1 DEF WriterSaves, LastImageUnderWay
  <2>2. CASE ~ok
    BY <1>0, <1>4, <2>2 DEF WriterSaves, LastImageUnderWay
  <2> QED
    BY <2>1, <2>2
<1>5. CASE UNCHANGED vars
  BY <1>5 DEF vars, LastImageUnderWay
<1>6. ASSUME NEW j \in Jobs, NEW g \in Generation, JobEnds(j, g)
      PROVE  phase' = "top"
  BY <1>6 DEF JobEnds, QuotaFresh, QuotaFailed, HealthResult, LocalResult,
              Accepted, Ends, Wake
<1>7. \/ Leave \/ Exit \/ WriterTakes \/ (\E ok \in BOOLEAN : WriterSaves(ok)) \/ UNCHANGED vars
  BY <1>6 DEF Next, Environment, Commands, Coordinator, Background, Launch, Crash, Refresh, Stop,
              TimerExpires, Schedule, Tick, CacheMerge, EngineReady, EngineLost, Wake, CacheRead
<1> QED
  BY <1>1, <1>2, <1>3, <1>4, <1>5, <1>7

\* After an orderly exit the file holds what the window showed last, unless the
\* last save failed.
THEOREM ExitSafe == Spec => []OrderlyExitIsSaved
<1>1. Init => LastImageUnderWay
  BY DEF Init, LastImageUnderWay
<1>2. LastImageUnderWay => OrderlyExitIsSaved
  BY DEF LastImageUnderWay, OrderlyExitIsSaved
<1> QED
  BY <1>1, <1>2, ExitStep, TypeInit, TypeStep, PTL DEF Spec
-----------------------------------------------------------------------------
(* What is on screen stays there, and requests are not lost.               *)

\* Until the engine is there no collector runs, so that local totals and the
\* health of a vendor are not shown yet: what the checkpoint file says of them
\* cannot replace anything.
NothingWithoutEngine ==
    engine # "ready" =>
      tasks = {} /\ \A p \in Providers : show[p].local = "none" /\ show[p].health = "none"

\* What a failure leaves of the display, besides the quota.
LEMMA FailureKeeps ==
  ASSUME NEW d \in Display, NEW panicked \in BOOLEAN
  PROVE  AfterFailure(d, panicked).local = d.local /\ AfterFailure(d, panicked).health = d.health
BY DEF AfterFailure, Display

LEMMA EngineStep == TypeOK /\ NothingWithoutEngine /\ [Next]_vars => NothingWithoutEngine'
<1> SUFFICES ASSUME TypeOK, NothingWithoutEngine, [Next]_vars
             PROVE  NothingWithoutEngine'
  OBVIOUS
<1> USE DEF coordVars, jobVars, screenVars
<1>1. CASE Environment
  BY <1>1 DEF Environment, Commands, Launch, Crash, ColdMemory, Refresh, Stop, TimerExpires,
              InitialDisplay, NothingWithoutEngine
<1>2. CASE Schedule
  <2> SUFFICES ASSUME engine # "ready" PROVE NothingWithoutEngine'
    BY <1>2 DEF Schedule, NothingWithoutEngine
  <2>1. Startable = {}  BY DEF Startable
  <2> QED
    BY <1>2, <2>1 DEF Schedule, NothingWithoutEngine
<1>3. CASE CacheMerge
  BY <1>3 DEF CacheMerge, Recalled, NothingWithoutEngine, TypeOK, Display
<1>4. ASSUME NEW summary \in Summaries, EngineReady(summary)
      PROVE  NothingWithoutEngine'
  BY <1>4 DEF EngineReady, NothingWithoutEngine
<1>5. CASE Leave \/ Exit \/ Tick \/ EngineLost
  BY <1>5 DEF Leave, Exit, Tick, EngineLost, NothingWithoutEngine
<1>6. ASSUME NEW j \in Jobs, NEW g \in Generation, JobEnds(j, g)
      PROVE  NothingWithoutEngine'
  <2>1. <<j, g>> \in tasks /\ engine' = engine
    BY <1>6 DEF JobEnds, QuotaFresh, QuotaFailed, HealthResult, LocalResult, Accepted, Ends
  <2> QED
    BY <2>1 DEF NothingWithoutEngine
<1>7. CASE Background
  BY <1>7 DEF Background, CacheRead, WriterTakes, WriterSaves, NothingWithoutEngine
<1>8. CASE UNCHANGED vars
  BY <1>8 DEF vars, NothingWithoutEngine
<1> QED
  BY <1>1, <1>2, <1>3, <1>4, <1>5, <1>6, <1>7, <1>8 DEF Next, Coordinator

\* The display after is no older than the display before.
NotOlder(before, after) ==
    /\ after.quota.from >= before.quota.from
    /\ before.local \in {"full", "partial"} => after.local \in {"full", "partial"}
    /\ before.health # "none" => after.health # "none"

LEMMA SameIsNotOlder == ASSUME NEW d \in Display PROVE NotOlder(d, d)
BY ConstantsOK DEF NotOlder, Display, Reading

LEMMA ShownStep ==
  ASSUME TypeOK, DataInv, NothingWithoutEngine, [Next]_vars, Running, phase' # "off",
         NEW p \in Providers
  PROVE  NotOlder(show[p], show'[p])
<1> USE DEF coordVars, jobVars, screenVars
<1>0. /\ show \in [Providers -> Display] /\ show[p] \in Display
      /\ show[p].quota.from \in 0..MaxReading
      /\ MaxReading \in Nat
  BY ConstantsOK DEF TypeOK, Display, Reading
<1>1. CASE show' = show
  BY <1>0, <1>1, SameIsNotOlder
<1>2. CASE CacheMerge
  <2>1. cacheTask = "read" /\ show'[p] = IF Recallable(p) THEN Recalled(show[p], cached[p]) ELSE show[p]
    BY <1>2 DEF CacheMerge
  <2>2. CASE Recallable(p)
    <3>1. show[p].quota = NoReading
      BY <2>1, <2>2 DEF Recallable, DataInv, CacheSurvivesTheStart
    <3>2. cached[p] \in Reading
      BY DEF TypeOK, Image
    <3> QED
      BY <1>0, <2>1, <2>2, <3>1, <3>2 DEF Recalled, NotOlder, NoReading, Display, Reading
  <2>3. CASE ~Recallable(p)
    BY <1>0, <2>1, <2>3, SameIsNotOlder
  <2> QED
    BY <2>2, <2>3
<1>3. ASSUME NEW summary \in Summaries, EngineReady(summary)
      PROVE  NotOlder(show[p], show'[p])
  <2>1. show[p].local = "none" /\ show[p].health = "none"
    BY <1>3 DEF EngineReady, NothingWithoutEngine
  <2>2. show'[p].quota = show[p].quota
    BY <1>0, <1>3 DEF EngineReady, Display
  <2> QED
    BY <1>0, <2>1, <2>2 DEF NotOlder
<1>4. ASSUME NEW j \in Jobs, NEW g \in Generation, QuotaFresh(j, g)
      PROVE  NotOlder(show[p], show'[p])
  <2>1. show[p].quota.from <= taken[p] /\ taken[p] \in Nat
    BY ConstantsOK DEF DataInv, ImagesInOrder, TypeOK
  <2>2. CASE j.provider = p
    BY <1>0, <1>4, <2>1, <2>2 DEF QuotaFresh, NotOlder, Display
  <2>3. CASE j.provider # p
    <3>1. show'[p] = show[p]  BY <1>0, <1>4, <2>3 DEF QuotaFresh
    <3> QED  BY <1>0, <3>1, SameIsNotOlder
  <2> QED
    BY <2>2, <2>3
<1>5. ASSUME NEW j \in Jobs, NEW g \in Generation, NEW panicked \in BOOLEAN,
             QuotaFailed(j, g, panicked)
      PROVE  NotOlder(show[p], show'[p])
  <2>1. show[p].quota.from = show[p].quota.lastOk
    BY DEF DataInv, QuotaMatchesItsTime
  <2>2. CASE j.provider = p
    <3>1. show'[p] = AfterFailure(show[p], panicked)
      BY <1>0, <1>5, <2>2 DEF QuotaFailed
    <3>2. AfterFailure(show[p], panicked).quota.from = show[p].quota.from
      BY <1>0, <2>1 DEF AfterFailure, NoReading, Display
    <3> QED
      BY <1>0, <3>1, <3>2, FailureKeeps DEF NotOlder
  <2>3. CASE j.provider # p
    <3>1. show'[p] = show[p]  BY <1>0, <1>5, <2>3 DEF QuotaFailed
    <3> QED  BY <1>0, <3>1, SameIsNotOlder
  <2> QED
    BY <2>2, <2>3
<1>6. ASSUME NEW j \in Jobs, NEW g \in Generation, NEW h \in {"operational", "unknown"},
             HealthResult(j, g, h)
      PROVE  NotOlder(show[p], show'[p])
  BY <1>0, <1>6 DEF HealthResult, NotOlder, Display
<1>7. ASSUME NEW j \in Jobs, NEW g \in Generation,
             NEW scan \in {"full", "partial", "nothing", "panicked"}, LocalResult(j, g, scan)
      PROVE  NotOlder(show[p], show'[p])
  BY <1>0, <1>7 DEF LocalResult, AfterScan, NotOlder, Display
<1>8. CASE Environment
  <2>1. show' = show
    BY <1>8 DEF Environment, Commands, Launch, Crash, Refresh, Stop, TimerExpires, Running
  <2> QED  BY <1>1, <2>1
<1>9. CASE Schedule \/ Leave \/ Exit \/ Tick \/ EngineLost \/ Background \/ UNCHANGED vars
  <2>1. show' = show
    BY <1>9 DEF Schedule, Leave, Exit, Tick, EngineLost, Background, CacheRead, WriterTakes,
                WriterSaves, vars
  <2> QED  BY <1>1, <2>1
<1> QED
  BY <1>2, <1>3, <1>4, <1>5, <1>6, <1>7, <1>8, <1>9 DEF Next, Coordinator, JobEnds

\* Within a run nothing that was shown is replaced by something older: not by the
\* cached quota, which arrives late; not by a failure; not by the summaries of
\* the checkpoint file, which come when no scan can have been shown.
THEOREM ShownSafe == Spec => ShownNeverGoesBack
<1>1. TypeOK /\ DataInv /\ NothingWithoutEngine /\ [Next]_vars
        => [Running /\ phase' # "off" =>
              \A p \in Providers :
                /\ show'[p].quota.from >= show[p].quota.from
                /\ show[p].local \in {"full", "partial"} => show'[p].local \in {"full", "partial"}
                /\ show[p].health # "none" => show'[p].health # "none"]_vars
  BY ShownStep DEF NotOlder
<1>2. TypeOK /\ DataInv /\ NothingWithoutEngine /\ [Next]_vars
        => (TypeOK /\ DataInv /\ NothingWithoutEngine)'
  BY TypeStep, DataStep, EngineStep
<1>3. Init => NothingWithoutEngine
  BY DEF Init, InitialDisplay, NothingWithoutEngine
<1> QED
  BY <1>1, <1>2, <1>3, TypeInit, DataInit, PTL DEF Spec, ShownNeverGoesBack

\* Outside the loop no collector runs.
NoneOutsideLoop == phase \in {"off", "flush", "exited"} => tasks = {}

LEMMA OutsideStep == NoneOutsideLoop /\ [Next]_vars => NoneOutsideLoop'
<1> SUFFICES ASSUME NoneOutsideLoop, [Next]_vars PROVE NoneOutsideLoop'
  OBVIOUS
<1> USE DEF coordVars, jobVars, NoneOutsideLoop
<1>1. CASE Environment
  BY <1>1 DEF Environment, Commands, Launch, Crash, ColdMemory, Refresh, Stop, Wake, TimerExpires
<1>2. CASE Schedule \/ Leave \/ Exit \/ Tick \/ CacheMerge \/ EngineLost
           \/ (\E summary \in Summaries : EngineReady(summary))
  BY <1>2 DEF Schedule, Leave, NoTasks, Exit, Tick, CacheMerge, EngineReady, EngineLost, Wake
<1>3. ASSUME NEW j \in Jobs, NEW g \in Generation, JobEnds(j, g) PROVE phase' = "top"
  BY <1>3 DEF JobEnds, QuotaFresh, QuotaFailed, HealthResult, LocalResult, Accepted, Ends, Wake
<1>4. CASE Background
  BY <1>4 DEF Background, CacheRead, WriterTakes, WriterSaves
<1>5. CASE UNCHANGED vars
  BY <1>5 DEF vars
<1> QED
  BY <1>1, <1>2, <1>3, <1>4, <1>5 DEF Next, Coordinator

\* What one step does to a queued request.
LEMMA QueuedStep ==
  ASSUME OneTaskPerJob, NoneOutsideLoop, [Next]_vars, NEW j \in queued
  PROVE  j \in inFlight' \/ stopping' \/ phase' = "off" \/ (j \in due' /\ j \notin queued')
<1> USE DEF coordVars, jobVars
<1>1. j \in inFlight  BY DEF OneTaskPerJob
<1>2. CASE Environment
  <2>1. CASE Launch
    <3>1. <<j, gen[j]>> \in tasks  BY <1>1 DEF OneTaskPerJob
    <3> QED  BY <2>1, <3>1 DEF Launch, NoneOutsideLoop
  <2> QED
    BY <1>1, <1>2, <2>1 DEF Environment, Crash, Commands, Refresh, Stop, TimerExpires
<1>3. CASE Coordinator
  <2>1. ASSUME NEW k \in Jobs, NEW g \in Generation, JobEnds(k, g)
        PROVE  j \in inFlight' \/ (j \in due' /\ j \notin queued')
    <3>1. inFlight' = inFlight \ {k} /\ queued' = queued \ {k} /\ due' = NextDue(k)
      BY <2>1 DEF JobEnds, QuotaFresh, QuotaFailed, HealthResult, LocalResult, Accepted
    <3> QED
      BY <1>1, <3>1 DEF NextDue
  <2> QED
    BY <1>1, <1>3, <2>1 DEF Coordinator, Schedule, Leave, Exit, Tick, CacheMerge, EngineReady,
                            EngineLost
<1>4. CASE Background
  BY <1>1, <1>4 DEF Background, CacheRead, WriterTakes, WriterSaves
<1>5. CASE UNCHANGED vars
  BY <1>1, <1>5 DEF vars
<1> QED
  BY <1>2, <1>3, <1>4, <1>5 DEF Next

\* A request made while its job runs leads to one more run, at once when the
\* job ends, unless the program is stopped.
THEOREM RequestsSafe == Spec => RequestsCoalesce
<1>1. OneTaskPerJob /\ NoneOutsideLoop /\ [Next]_vars
        => [\A j \in queued : j \in inFlight' \/ stopping' \/ phase' = "off"
                               \/ (j \in due' /\ j \notin queued')]_vars
  BY QueuedStep
<1>2. Init => NoneOutsideLoop
  BY DEF Init, NoneOutsideLoop
<1> QED
  BY <1>1, <1>2, OutsideStep, JobsInit, JobsStep, TypeInit, TypeStep, PTL
  DEF Spec, RequestsCoalesce
=============================================================================
