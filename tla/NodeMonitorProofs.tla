-------------------------- MODULE NodeMonitorProofs --------------------------
(***************************************************************************)
(* Proofs about NodeMonitor, for all providers and bounds.                 *)
(***************************************************************************)
EXTENDS NodeMonitor, SequenceTheorems, TLAPS

-----------------------------------------------------------------------------
(* Type correctness.                                                       *)

LEMMA ImageOfType ==
  ASSUME NEW display \in [Providers -> Display]
  PROVE  ImageOf(display) \in Image
<1>1. NoReading \in Reading /\ \A p \in Providers : display[p].quota \in Reading
  BY ConstantsOK DEF NoReading, Reading, Display
<1> QED
  BY <1>1 DEF ImageOf, Image

\* The chain with one more save is the chain, and at most one more image at its end.
LEMMA ChainedIs ==
  ASSUME NEW image \in Image, writes \in Seq(Image)
  PROVE  /\ Chained(image) \in Seq(Image)
         /\ \A i \in 1..Len(Chained(image)) :
              \/ i \in 1..Len(writes) /\ Chained(image)[i] = writes[i]
              \/ i = Len(writes) + 1 /\ Chained(image)[i] = image
<1>1. CASE Chained(image) = writes
  BY <1>1
<1>2. CASE Chained(image) = Append(writes, image)
  <2>1. /\ Append(writes, image) \in Seq(Image)
        /\ Len(Append(writes, image)) = Len(writes) + 1
        /\ \A i \in 1..Len(writes) : Append(writes, image)[i] = writes[i]
        /\ Append(writes, image)[Len(writes) + 1] = image
    BY AppendProperties
  <2>2. Len(writes) \in Nat
    BY LenProperties
  <2>3. \A i \in 1..(Len(writes) + 1) : i \in 1..Len(writes) \/ i = Len(writes) + 1
    BY <2>2
  <2> QED
    BY <1>2, <2>1, <2>3
<1> QED
  BY <1>1, <1>2 DEF Chained

LEMMA NextGenType == ASSUME TypeOK, NEW p \in Providers PROVE NextGen(p) \in Generation
<1>1. gen[p] \in Nat /\ GenMod \in Nat /\ GenMod > 0
  BY ConstantsOK DEF TypeOK, Generation
<1>2. (gen[p] + 1) % GenMod \in 0..(GenMod - 1)
  BY <1>1
<1> QED
  BY <1>2 DEF NextGen, Generation

LEMMA AskedType ==
  ASSUME NEW D, NEW work \in [D -> Work], NEW S
  PROVE  Asked(work, S) \in [D -> Work]
<1>1. DOMAIN work = D
  OBVIOUS
<1> QED
  BY <1>1 DEF Asked, Work

\* A request for fetches leaves the variables of the fetches well typed.
LEMMA AskFetchType ==
  ASSUME TypeOK, NEW S \in SUBSET Providers, AskFetch(S)
  PROVE  /\ fetch' \in [Providers -> Work]
         /\ gen' \in [Providers -> Generation]
         /\ fetches' \subseteq Providers \X Generation
         /\ timer' \subseteq Providers
<1>1. fetch' \in [Providers -> Work]
  BY AskedType DEF AskFetch, TypeOK
<1>2. gen' \in [Providers -> Generation]
  BY NextGenType DEF AskFetch, TypeOK
<1>3. \A p \in IdleAmong(S) : <<p, NextGen(p)>> \in Providers \X Generation
  BY NextGenType DEF IdleAmong
<1>4. fetches' \subseteq Providers \X Generation
  BY <1>3 DEF AskFetch, TypeOK
<1> QED
  BY <1>1, <1>2, <1>4 DEF AskFetch, TypeOK

LEMMA AskCheckType ==
  ASSUME TypeOK, NEW S, AskCheck(S)
  PROVE  check' \in [Checked -> Work] /\ checkTimer' \subseteq Checked
  BY AskedType DEF AskCheck, TypeOK

LEMMA AskScanType ==
  ASSUME TypeOK, NEW S, AskScan(S)
  PROVE  scan' \in [Scanned -> Work]
  BY AskedType DEF AskScan, TypeOK

\* What is published is well typed if the snapshot is.
LEMMA PublishType ==
  ASSUME TypeOK, show' \in [Providers -> Display], Publish
  PROVE  refreshing' \subseteq Providers /\ writes' \in Seq(Image)
<1>1. ImageOf(show') \in Image
  BY ImageOfType
<1>2. Chained(ImageOf(show')) \in Seq(Image)
  BY <1>1, ChainedIs DEF TypeOK
<1> QED
  BY <1>2 DEF Publish, Working, TypeOK

LEMMA FetchEndsType ==
  ASSUME TypeOK, NEW p \in Providers, NEW g \in Generation, FetchEnds(p, g)
  PROVE  /\ fetch' \in [Providers -> Work]
         /\ gen' \in [Providers -> Generation]
         /\ fetches' \subseteq Providers \X Generation
         /\ timer' \subseteq Providers
<1>1. NextGen(p) \in Generation
  BY NextGenType
<1>2. Rests(p) \subseteq Providers
  BY DEF Rests, TypeOK
<1>3. fetch' \in [Providers -> Work]
  BY DEF FetchEnds, TypeOK, Work
<1>4. gen' \in [Providers -> Generation]
  BY <1>1 DEF FetchEnds, TypeOK
<1>5. fetches' \subseteq Providers \X Generation
  <2>1. \/ fetches' = fetches \ {<<p, g>>}
        \/ fetches' = (fetches \ {<<p, g>>}) \cup {<<p, NextGen(p)>>}
    BY DEF FetchEnds
  <2>2. <<p, NextGen(p)>> \in Providers \X Generation
    BY <1>1
  <2> QED
    BY <2>1, <2>2 DEF TypeOK
<1>6. timer' \subseteq Providers
  BY <1>2 DEF FetchEnds, TypeOK
<1> QED
  BY <1>3, <1>4, <1>5, <1>6

\* What the file holds and what a failure leaves can be shown.
LEMMA DisplayTypes ==
  /\ InitialDisplay \in Display
  /\ \A r \in Reading : Recalled(r) \in Display
  /\ \A d \in Display : AfterFailure(d) \in Display
<1>1. NoReading \in Reading
  BY ConstantsOK DEF NoReading, Reading
<1>2. InitialDisplay \in Display
  BY <1>1 DEF InitialDisplay, Display
<1>3. ASSUME NEW r \in Reading PROVE Recalled(r) \in Display
  BY <1>2, <1>3 DEF Recalled, Display
<1>4. ASSUME NEW d \in Display PROVE AfterFailure(d) \in Display
  BY <1>1, <1>4 DEF AfterFailure, Display
<1> QED
  BY <1>2, <1>3, <1>4

LEMMA ColdType == ASSUME TypeOK, ColdMemory, UNCHANGED <<disk, taken>>,
                         phase' \in {"off", "loading"}
                  PROVE  TypeOK'
<1>1. /\ show' \in [Providers -> Display] /\ gen' \in [Providers -> Generation]
      /\ fetch' \in [Providers -> Work] /\ scan' \in [Scanned -> Work]
      /\ check' \in [Checked -> Work]
  BY DisplayTypes, ConstantsOK DEF ColdMemory, Generation, Work
<1>2. writes' \in Seq(Image)
  BY DEF ColdMemory
<1> QED
  BY <1>1, <1>2 DEF ColdMemory, TypeOK

LEMMA TypeStep == TypeOK /\ [Next]_vars => TypeOK'
<1> SUFFICES ASSUME TypeOK, [Next]_vars PROVE TypeOK'
  OBVIOUS
<1> USE DEF coreVars, fetchVars, taskVars, fileVars, histVars
<1>0. /\ show \in [Providers -> Display] /\ disk \in Image /\ writes \in Seq(Image)
      /\ taken \in [Providers -> 0..MaxReading]
  BY DEF TypeOK
<1>1. CASE Launch \/ Crash
  BY <1>1, ColdType DEF Launch, Crash
<1>2. ASSUME NEW readable \in BOOLEAN, Create(readable) PROVE TypeOK'
  <2>1. \A p \in Providers : Recalled(disk[p]) \in Display
    BY <1>0, DisplayTypes DEF Image
  <2>2. show' \in [Providers -> Display]
    BY <1>0, <1>2, <2>1 DEF Create
  <2> QED
    BY <1>2, <2>2 DEF Create, TypeOK
<1>3. CASE Start
  <2>1. show' \in [Providers -> Display]
    BY <1>0, <1>3 DEF Start
  <2> QED
    BY <1>3, <2>1, PublishType, AskFetchType, AskScanType, AskCheckType DEF Start, TypeOK
<1>4. ASSUME NEW S \in SUBSET Providers, Refresh(S) PROVE TypeOK'
  <2>1. show' \in [Providers -> Display]
    BY <1>0, <1>4 DEF Refresh
  <2> QED
    BY <1>4, <2>1, PublishType, AskFetchType, AskScanType, AskCheckType DEF Refresh, TypeOK
<1>5. CASE Stop
  BY <1>5 DEF Stop, TypeOK
<1>6. CASE FinalSave
  <2>1. writes' \in Seq(Image)
    BY <1>0, <1>6, ImageOfType, ChainedIs DEF FinalSave
  <2> QED
    BY <1>6, <2>1 DEF FinalSave, TypeOK
<1>7. CASE Exit
  BY <1>7 DEF Exit, TypeOK
<1>8. ASSUME NEW p \in Providers, FetchTimer(p) PROVE TypeOK'
  <2>1. show' \in [Providers -> Display]
    BY <1>0, <1>8 DEF FetchTimer
  <2> QED
    BY <1>8, <2>1, PublishType, AskFetchType DEF FetchTimer, TypeOK
<1>9. ASSUME NEW p \in Providers, NEW g \in Generation, QuotaFresh(p, g) PROVE TypeOK'
  <2>1. taken[p] + 1 \in 0..MaxReading
    BY <1>0, <1>9, ConstantsOK DEF QuotaFresh
  <2>2. [from |-> taken[p] + 1, lastOk |-> taken[p] + 1] \in Reading
    BY <2>1 DEF Reading
  <2>3. show' \in [Providers -> Display]
    BY <1>0, <1>9, <2>2 DEF QuotaFresh, Display
  <2>4. taken' \in [Providers -> 0..MaxReading]
    BY <1>0, <1>9, <2>1 DEF QuotaFresh
  <2> QED
    BY <1>9, <2>3, <2>4, PublishType, FetchEndsType DEF QuotaFresh, TypeOK
<1>10. ASSUME NEW p \in Providers, NEW g \in Generation, QuotaFailed(p, g) PROVE TypeOK'
  <2>1. show' \in [Providers -> Display]
    BY <1>0, <1>10, DisplayTypes DEF QuotaFailed
  <2> QED
    BY <1>10, <2>1, PublishType, FetchEndsType DEF QuotaFailed, TypeOK
<1>11. ASSUME NEW p \in Scanned, ScanDue(p) PROVE TypeOK'
  <2>1. show' \in [Providers -> Display]
    BY <1>0, <1>11 DEF ScanDue
  <2> QED
    BY <1>11, <2>1, PublishType, AskScanType DEF ScanDue, TypeOK
<1>12. ASSUME NEW p \in Scanned, NEW ok \in BOOLEAN, ScanEnds(p, ok) PROVE TypeOK'
  <2>1. show' \in [Providers -> Display]
    BY <1>0, <1>12 DEF ScanEnds, Display
  <2>2. scan' \in [Scanned -> Work]
    BY <1>12 DEF ScanEnds, TypeOK, Ended, Work
  <2> QED
    BY <1>12, <2>1, <2>2, PublishType DEF ScanEnds, TypeOK
<1>13. ASSUME NEW p \in Scanned, NEW found \in BOOLEAN, LateSummary(p, found) PROVE TypeOK'
  <2>1. p \in Providers /\ show[p] \in Display
    BY <1>0, ConstantsOK
  <2>2. Summarised(show[p].local) \in {"none", "cached", "scanned"}
    BY <2>1 DEF Summarised, Display
  <2>3. [show[p] EXCEPT !.local = Summarised(show[p].local)] \in Display
    BY <2>1, <2>2 DEF Display
  <2>4. show' \in [Providers -> Display]
    BY <1>0, <1>13, <2>3 DEF LateSummary
  <2> QED
    BY <1>13, <2>4, PublishType DEF LateSummary, TypeOK
<1>14. ASSUME NEW p \in Checked, CheckTimer(p) PROVE TypeOK'
  <2>1. show' \in [Providers -> Display]
    BY <1>0, <1>14 DEF CheckTimer
  <2> QED
    BY <1>14, <2>1, PublishType, AskCheckType DEF CheckTimer, TypeOK
<1>15. ASSUME NEW p \in Checked, NEW ok \in BOOLEAN, CheckEnds(p, ok) PROVE TypeOK'
  <2>1. show' \in [Providers -> Display]
    BY <1>0, <1>15 DEF CheckEnds, Display
  <2>2. check' \in [Checked -> Work] /\ checkTimer' \subseteq Checked
    BY <1>15 DEF CheckEnds, TypeOK, Ended, Work
  <2> QED
    BY <1>15, <2>1, <2>2, PublishType DEF CheckEnds, TypeOK
<1>16. ASSUME NEW ok \in BOOLEAN, WriteNext(ok) PROVE TypeOK'
  <2>1. Head(writes) \in Image /\ Tail(writes) \in Seq(Image)
    BY <1>0, <1>16, HeadTailProperties DEF WriteNext
  <2> QED
    BY <1>16, <2>1 DEF WriteNext, TypeOK
<1>17. CASE UNCHANGED vars
  BY <1>17 DEF vars, TypeOK
<1> QED
  BY <1>1, <1>2, <1>3, <1>4, <1>5, <1>6, <1>7, <1>8, <1>9, <1>10, <1>11, <1>12, <1>13, <1>14,
     <1>15, <1>16, <1>17 DEF Next, Environment, Fetches, Background, Core

LEMMA TypeInit == Init => TypeOK
<1> SUFFICES ASSUME Init PROVE TypeOK
  OBVIOUS
<1>1. show \in [Providers -> Display] /\ gen \in [Providers -> Generation]
  BY DisplayTypes, ConstantsOK DEF Init, Generation
<1>2. disk \in Image /\ taken \in [Providers -> 0..MaxReading] /\ writes \in Seq(Image)
  BY ConstantsOK DEF Init, EmptyImage, Image, NoReading, Reading
<1> QED
  BY <1>1, <1>2 DEF Init, TypeOK, Work

\* Every state of the monitor is well typed.
THEOREM TypeCorrect == Spec => []TypeOK
  BY TypeInit, TypeStep, PTL DEF Spec

-----------------------------------------------------------------------------
(* The order of readings on their way to the file.                         *)

\* Nothing is newer than the last reading taken; the images of the chain follow
\* each other in age, up to what is shown; and what the file holds is not newer
\* than any of them, in a run that could read it.
InOrder ==
    /\ \A p \in Providers : show[p].quota.from <= taken[p] /\ disk[p].from <= taken[p]
    /\ \A p \in Providers, i \in 1..Len(writes) : writes[i][p].from <= show[p].quota.from
    /\ \A p \in Providers, i, j \in 1..Len(writes) :
         i <= j => writes[i][p].from <= writes[j][p].from
    /\ ~unread => \A p \in Providers, i \in 1..Len(writes) : disk[p].from <= writes[i][p].from
    /\ Created /\ ~unread => \A p \in Providers : disk[p].from <= show[p].quota.from
    /\ phase \in {"off", "loading"} =>
         ~unread /\ writes = <<>> /\ \A p \in Providers : show[p] = InitialDisplay

DataInv == QuotaMatchesItsTime /\ InOrder

\* What is said of a provider's quota does not change.
SameQuota ==
    \A p \in Providers :
      /\ show'[p].quota = show[p].quota /\ show'[p].status = show[p].status
      /\ show'[p].look = show[p].look /\ show'[p].error = show[p].error

\* A step that leaves quotas and the file alone, and may have an image saved.
QuietStep ==
    /\ Created
    /\ phase' \in {"live", "stopping", "saving"}
    /\ UNCHANGED <<disk, taken, unread>>
    /\ SameQuota
    /\ writes' = writes \/ writes' = Chained(ImageOf(show'))

\* The steps of the monitor, sorted by what they do to the quotas.
LEMMA StepKinds ==
  ASSUME TypeOK, [Next]_vars
  PROVE  \/ Launch \/ Crash \/ Exit \/ QuietStep \/ UNCHANGED vars
         \/ \E readable \in BOOLEAN : Create(readable)
         \/ \E p \in Providers, g \in Generation : QuotaFresh(p, g) \/ QuotaFailed(p, g)
         \/ \E ok \in BOOLEAN : WriteNext(ok)
<1> USE DEF coreVars, fetchVars, taskVars, fileVars, histVars
<1>0. \A p \in Providers : show[p] \in Display
  BY DEF TypeOK
<1>1. ASSUME phase = "live" \/ Created, show' = show, Publish,
             phase' = phase, UNCHANGED <<disk, taken, unread>>
      PROVE  QuietStep
  BY <1>1 DEF QuietStep, SameQuota, Publish, Created
<1>2. ASSUME Created, SameQuota, Publish, phase' = phase, UNCHANGED <<disk, taken, unread>>
      PROVE  QuietStep
  BY <1>2 DEF QuietStep, Publish, Created
<1>3. CASE Start
  BY <1>1, <1>3 DEF Start
<1>4. ASSUME NEW S, Refresh(S) PROVE QuietStep
  BY <1>1, <1>4 DEF Refresh
<1>5. CASE Stop
  BY <1>5 DEF Stop, QuietStep, SameQuota, Created
<1>6. CASE FinalSave
  BY <1>6 DEF FinalSave, QuietStep, SameQuota, Created
<1>7. ASSUME NEW p, FetchTimer(p) PROVE QuietStep
  BY <1>1, <1>7 DEF FetchTimer
<1>8. ASSUME NEW p, ScanDue(p) PROVE QuietStep
  BY <1>1, <1>8 DEF ScanDue
<1>9. ASSUME NEW p, CheckTimer(p) PROVE QuietStep
  BY <1>1, <1>9 DEF CheckTimer
<1>10. ASSUME NEW p \in Scanned, NEW ok \in BOOLEAN, ScanEnds(p, ok) PROVE QuietStep
  <2>1. SameQuota
    BY <1>0, <1>10 DEF ScanEnds, SameQuota, TypeOK, Display
  <2> QED
    BY <1>2, <1>10, <2>1 DEF ScanEnds
<1>11. ASSUME NEW p \in Scanned, NEW found \in BOOLEAN, LateSummary(p, found) PROVE QuietStep
  <2>1. SameQuota
    BY <1>0, <1>11 DEF LateSummary, SameQuota, TypeOK, Display
  <2> QED
    BY <1>2, <1>11, <2>1 DEF LateSummary
<1>12. ASSUME NEW p \in Checked, NEW ok \in BOOLEAN, CheckEnds(p, ok) PROVE QuietStep
  <2>1. SameQuota
    BY <1>0, <1>12 DEF CheckEnds, SameQuota, TypeOK, Display
  <2> QED
    BY <1>2, <1>12, <2>1 DEF CheckEnds
<1> QED
  BY <1>3, <1>4, <1>5, <1>6, <1>7, <1>8, <1>9, <1>10, <1>11, <1>12
     DEF Next, Environment, Fetches, Background, Core

\* A snapshot whose quotas have not become older may be saved behind the others.
LEMMA DataPublish ==
  ASSUME TypeOK, TypeOK', DataInv, Created,
         phase' \in {"live", "stopping", "saving"}, UNCHANGED <<disk, unread>>,
         writes' = writes \/ writes' = Chained(ImageOf(show')),
         \A p \in Providers :
           /\ show[p].quota.from <= show'[p].quota.from
           /\ show'[p].quota.from <= taken'[p] /\ taken[p] <= taken'[p]
           /\ show'[p].quota.from = show'[p].quota.lastOk
           /\ "fresh" \in {show'[p].status, show'[p].look} =>
                /\ show'[p].quota.from = taken'[p]
                /\ show'[p].status = show'[p].look /\ ~show'[p].error
  PROVE  DataInv'
<1> DEFINE image == ImageOf(show')
<1>a. \A d \in Display : d.quota.from \in Nat /\ d.quota.lastOk \in Nat
  BY ConstantsOK DEF Display, Reading
<1>b. \A m \in Image, p \in Providers : m[p].from \in Nat
  BY ConstantsOK DEF Image, Reading
<1>c. \A i \in 1..Len(writes) : writes[i] \in Image
  BY ElementOfSeq DEF TypeOK
<1>0. /\ \A p \in Providers : /\ show[p].quota.from \in Nat
                              /\ show'[p].quota.from \in Nat /\ show'[p].quota.lastOk \in Nat
                              /\ taken[p] \in Nat /\ taken'[p] \in Nat
                              /\ disk[p].from \in Nat
      /\ \A p \in Providers, i \in 1..Len(writes) : writes[i][p].from \in Nat
  <2>1. \A p \in Providers : show[p] \in Display /\ show'[p] \in Display
    BY DEF TypeOK
  <2>2. \A p \in Providers : taken[p] \in Nat /\ taken'[p] \in Nat
    BY ConstantsOK DEF TypeOK
  <2>3. disk \in Image
    BY DEF TypeOK
  <2> QED
    BY <1>a, <1>b, <1>c, <2>1, <2>2, <2>3
<1>1. image \in Image /\ writes \in Seq(Image) /\ Len(writes) \in Nat /\ Len(writes') \in Nat
  BY ImageOfType, LenProperties DEF TypeOK
<1>2. \A p \in Providers : image[p].from = show'[p].quota.from /\ image[p].from = image[p].lastOk
  BY <1>0 DEF ImageOf, NoReading
<1> HIDE DEF image
<1>3. \A i \in 1..Len(writes') :
        \/ i \in 1..Len(writes) /\ writes'[i] = writes[i]
        \/ i = Len(writes) + 1 /\ writes'[i] = image
  BY <1>1, ChainedIs DEF image
<1>4. QuotaMatchesItsTime'
  <2>1. \A i \in 1..Len(writes'), p \in Providers : writes'[i][p].from = writes'[i][p].lastOk
    BY <1>2, <1>3 DEF DataInv, QuotaMatchesItsTime
  <2> QED
    BY <2>1 DEF DataInv, QuotaMatchesItsTime
<1>5. \A p \in Providers : show'[p].quota.from <= taken'[p] /\ disk'[p].from <= taken'[p]
  BY <1>0 DEF DataInv, InOrder
<1>6. \A p \in Providers, i \in 1..Len(writes') : writes'[i][p].from <= show'[p].quota.from
  BY <1>0, <1>2, <1>3 DEF DataInv, InOrder
<1>7. \A p \in Providers, i, j \in 1..Len(writes') :
        i <= j => writes'[i][p].from <= writes'[j][p].from
  <2> SUFFICES ASSUME NEW p \in Providers, NEW i \in 1..Len(writes'), NEW j \in 1..Len(writes'),
                      i <= j
               PROVE  writes'[i][p].from <= writes'[j][p].from
    OBVIOUS
  <2>1. CASE j = Len(writes) + 1 /\ writes'[j] = image
    BY <1>2, <1>6, <2>1
  <2>2. CASE j \in 1..Len(writes) /\ writes'[j] = writes[j]
    <3>1. i \in 1..Len(writes) /\ writes'[i] = writes[i]
      BY <1>1, <1>3, <2>2
    <3> QED
      BY <2>2, <3>1 DEF DataInv, InOrder
  <2> QED
    BY <1>3, <2>1, <2>2
<1>8. ASSUME ~unread'
      PROVE  /\ \A p \in Providers : disk'[p].from <= show'[p].quota.from
             /\ \A p \in Providers, i \in 1..Len(writes') : disk'[p].from <= writes'[i][p].from
  <2>1. \A p \in Providers : disk'[p].from <= show'[p].quota.from
    BY <1>0, <1>8 DEF DataInv, InOrder
  <2> QED
    BY <1>2, <1>3, <1>8, <2>1 DEF DataInv, InOrder
<1> QED
  BY <1>4, <1>5, <1>6, <1>7, <1>8 DEF DataInv, InOrder

LEMMA DataQuiet == TypeOK /\ TypeOK' /\ DataInv /\ QuietStep => DataInv'
<1> SUFFICES ASSUME TypeOK, TypeOK', DataInv, QuietStep PROVE DataInv'
  OBVIOUS
<1>1. \A p \in Providers : show[p].quota.from \in Nat /\ taken[p] \in Nat
  BY ConstantsOK DEF TypeOK, Display, Reading
<1>2. \A p \in Providers :
        /\ show[p].quota.from <= show'[p].quota.from
        /\ show'[p].quota.from <= taken'[p] /\ taken[p] <= taken'[p]
        /\ show'[p].quota.from = show'[p].quota.lastOk
        /\ "fresh" \in {show'[p].status, show'[p].look} =>
             /\ show'[p].quota.from = taken'[p]
             /\ show'[p].status = show'[p].look /\ ~show'[p].error
  BY <1>1 DEF QuietStep, SameQuota, DataInv, InOrder, QuotaMatchesItsTime
<1> QED
  BY <1>2, DataPublish DEF QuietStep

\* A new process starts with an empty snapshot and an empty chain.
LEMMA DataCold ==
  ASSUME TypeOK, DataInv, ColdMemory, phase' \in {"off", "loading"}, UNCHANGED <<disk, taken>>
  PROVE  DataInv'
<1>1. writes' = <<>> /\ Len(writes') = 0 /\ ~unread'
  BY DEF ColdMemory
<1>2. \A p \in Providers : show'[p] = InitialDisplay /\ taken[p] \in Nat
  BY ConstantsOK DEF ColdMemory, TypeOK
<1>3. QuotaMatchesItsTime'
  BY <1>1, <1>2 DEF DataInv, QuotaMatchesItsTime, InitialDisplay, NoReading
<1>4. InOrder'
  BY <1>1, <1>2 DEF DataInv, InOrder, InitialDisplay, NoReading, Created
<1> QED
  BY <1>3, <1>4 DEF DataInv

\* What is recalled from the file is what the file holds, shown as stale.
LEMMA DataCreate ==
  ASSUME TypeOK, DataInv, NEW readable \in BOOLEAN, Create(readable)
  PROVE  DataInv'
<1> USE DEF fetchVars, taskVars, fileVars
<1>1. /\ writes' = <<>> /\ Len(writes') = 0 /\ disk' = disk /\ taken' = taken
      /\ phase' = "live" /\ unread' = ~readable
      /\ \A p \in Providers : show[p] = InitialDisplay
  BY DEF Create, DataInv, InOrder
<1>2. \A p \in Providers : taken[p] \in Nat /\ disk[p].from \in Nat
  <2>1. \A m \in Image, p \in Providers : m[p].from \in Nat
    BY ConstantsOK DEF Image, Reading
  <2> QED
    BY <2>1, ConstantsOK DEF TypeOK
<1>3. \A p \in Providers :
        /\ show'[p].status # "fresh" /\ show'[p].look # "fresh"
        /\ show'[p].quota.from = show'[p].quota.lastOk
        /\ show'[p].quota.from <= taken[p]
        /\ readable => disk[p].from <= show'[p].quota.from
  <2> SUFFICES ASSUME NEW p \in Providers
               PROVE  /\ show'[p].status # "fresh" /\ show'[p].look # "fresh"
                      /\ show'[p].quota.from = show'[p].quota.lastOk
                      /\ show'[p].quota.from <= taken[p]
                      /\ readable => disk[p].from <= show'[p].quota.from
    OBVIOUS
  <2>1. disk[p].from = disk[p].lastOk /\ disk[p].from <= taken[p]
    BY DEF DataInv, QuotaMatchesItsTime, InOrder
  <2>2. CASE readable /\ disk[p] # NoReading
    <3>1. show'[p] = Recalled(disk[p])
      BY <2>2 DEF Create
    <3> QED
      BY <1>2, <2>1, <3>1 DEF Recalled, InitialDisplay
  <2>3. CASE ~(readable /\ disk[p] # NoReading)
    <3>1. show'[p] = InitialDisplay
      BY <1>1, <2>3 DEF Create
    <3>2. NoReading.from = 0 /\ NoReading.lastOk = 0
      BY DEF NoReading
    <3> QED
      BY <1>2, <2>3, <3>1, <3>2 DEF InitialDisplay
  <2> QED
    BY <2>2, <2>3
<1>4. QuotaMatchesItsTime'
  BY <1>1, <1>3 DEF DataInv, QuotaMatchesItsTime
<1>5. \A p \in Providers : show'[p].quota.from <= taken'[p] /\ disk'[p].from <= taken'[p]
  BY <1>1, <1>3 DEF DataInv, InOrder
<1>6. ~unread' => \A p \in Providers : disk'[p].from <= show'[p].quota.from
  BY <1>1, <1>3
<1>7. 1..Len(writes') = {} /\ phase' \notin {"off", "loading"}
  BY <1>1
<1>8. InOrder'
  BY <1>5, <1>6, <1>7 DEF InOrder
<1> QED
  BY <1>4, <1>8 DEF DataInv

\* The variables FetchEnds assigns are none of those the quotas are in.
LEMMA DataQuotaFresh ==
  ASSUME TypeOK, TypeOK', DataInv, NEW p \in Providers, NEW g \in Generation, QuotaFresh(p, g)
  PROVE  DataInv'
<1> USE DEF coreVars, fileVars
<1>1. /\ Created /\ phase' \in {"live", "stopping", "saving"} /\ UNCHANGED <<disk, unread>>
      /\ writes' = writes \/ writes' = Chained(ImageOf(show'))
  BY DEF QuotaFresh, FetchEnds, Created, Publish
<1>2. \A q \in Providers : /\ show[q] \in Display /\ taken[q] \in Nat
                           /\ show[q].quota.from \in Nat
  BY ConstantsOK DEF TypeOK, Display, Reading
<1>3. /\ taken' = [taken EXCEPT ![p] = @ + 1]
      /\ taken'[p] = taken[p] + 1
      /\ \A q \in Providers \ {p} : taken'[q] = taken[q] /\ show'[q] = show[q]
  BY DEF QuotaFresh, TypeOK
<1>4. /\ show'[p].status = "fresh" /\ show'[p].look = "fresh" /\ ~show'[p].error
      /\ show'[p].quota = [from |-> taken[p] + 1, lastOk |-> taken[p] + 1]
  BY <1>2 DEF QuotaFresh, TypeOK, Display
<1>5. \A q \in Providers :
        /\ show[q].quota.from <= show'[q].quota.from
        /\ show'[q].quota.from <= taken'[q] /\ taken[q] <= taken'[q]
        /\ show'[q].quota.from = show'[q].quota.lastOk
        /\ "fresh" \in {show'[q].status, show'[q].look} =>
             /\ show'[q].quota.from = taken'[q]
             /\ show'[q].status = show'[q].look /\ ~show'[q].error
  <2> TAKE q \in Providers
  <2>1. CASE q = p
    <3>1. show[p].quota.from <= taken[p]
      BY DEF DataInv, InOrder
    <3> QED
      BY <1>2, <1>3, <1>4, <2>1, <3>1
  <2>2. CASE q # p
    BY <1>2, <1>3, <2>2 DEF DataInv, InOrder, QuotaMatchesItsTime
  <2> QED
    BY <2>1, <2>2
<1> QED
  BY <1>1, <1>5, DataPublish

\* A failure keeps the reading that is shown.
LEMMA FailureKeeps ==
  ASSUME TypeOK, DataInv, NEW p \in Providers
  PROVE  /\ AfterFailure(show[p]).quota.from = show[p].quota.from
         /\ AfterFailure(show[p]).quota.lastOk = show[p].quota.lastOk
         /\ AfterFailure(show[p]).status # "fresh" /\ AfterFailure(show[p]).look # "fresh"
<1>1. show[p] \in Display /\ show[p].quota.from = show[p].quota.lastOk
  BY DEF TypeOK, DataInv, QuotaMatchesItsTime
<1>2. NoReading.from = 0 /\ NoReading.lastOk = 0
  BY DEF NoReading
<1> QED
  BY <1>1, <1>2 DEF AfterFailure, Display

LEMMA DataQuotaFailed ==
  ASSUME TypeOK, TypeOK', DataInv, NEW p \in Providers, NEW g \in Generation, QuotaFailed(p, g)
  PROVE  DataInv'
<1> USE DEF coreVars, fileVars, histVars
<1>1. /\ Created /\ phase' \in {"live", "stopping", "saving"} /\ UNCHANGED <<disk, unread, taken>>
      /\ writes' = writes \/ writes' = Chained(ImageOf(show'))
  BY DEF QuotaFailed, FetchEnds, Created, Publish
<1>2. \A q \in Providers : taken[q] \in Nat /\ show[q].quota.from \in Nat
  BY ConstantsOK DEF TypeOK, Display, Reading
<1>3. /\ show'[p] = AfterFailure(show[p])
      /\ \A q \in Providers \ {p} : show'[q] = show[q]
  BY DEF QuotaFailed, TypeOK
<1>5. \A q \in Providers :
        /\ show[q].quota.from <= show'[q].quota.from
        /\ show'[q].quota.from <= taken'[q] /\ taken[q] <= taken'[q]
        /\ show'[q].quota.from = show'[q].quota.lastOk
        /\ "fresh" \in {show'[q].status, show'[q].look} =>
             /\ show'[q].quota.from = taken'[q]
             /\ show'[q].status = show'[q].look /\ ~show'[q].error
  <2> TAKE q \in Providers
  <2>0. show[q].quota.from <= taken[q] /\ show[q].quota.from = show[q].quota.lastOk
    BY DEF DataInv, InOrder, QuotaMatchesItsTime
  <2>1. CASE q = p
    BY <1>1, <1>2, <1>3, <2>0, <2>1, FailureKeeps
  <2>2. CASE q # p
    BY <1>1, <1>2, <1>3, <2>0, <2>2 DEF DataInv, QuotaMatchesItsTime
  <2> QED
    BY <2>1, <2>2
<1> QED
  BY <1>1, <1>5, DataPublish

\* The first save of the chain takes the place of the file.
LEMMA DataWrite ==
  ASSUME TypeOK, TypeOK', DataInv, NEW ok \in BOOLEAN, WriteNext(ok)
  PROVE  DataInv'
<1> USE DEF coreVars, fetchVars, taskVars, histVars
<1>0. writes \in Seq(Image) /\ writes # <<>> /\ Len(writes) \in Nat
  BY LenProperties DEF WriteNext, TypeOK
<1>1. /\ Len(writes) >= 1
      /\ Len(writes') = Len(writes) - 1
      /\ \A i \in 1..Len(writes') : writes'[i] = writes[i + 1]
      /\ Head(writes) = writes[1]
  BY <1>0, HeadTailProperties, EmptySeq DEF WriteNext
<1>2. \A i \in 1..Len(writes') : i + 1 \in 1..Len(writes) /\ 1 \in 1..Len(writes)
  BY <1>0, <1>1
<1>3. 1 \in 1..Len(writes)
  BY <1>0, <1>1
<1>4. /\ UNCHANGED <<show, taken, unread, phase>>
      /\ disk' = disk \/ disk' = writes[1]
  BY <1>1 DEF WriteNext
<1>5. /\ \A p \in Providers : disk[p].from \in Nat /\ show[p].quota.from \in Nat /\ taken[p] \in Nat
      /\ \A p \in Providers, i \in 1..Len(writes) : writes[i][p].from \in Nat
  <2>1. \A m \in Image, p \in Providers : m[p].from \in Nat
    BY ConstantsOK DEF Image, Reading
  <2>2. \A i \in 1..Len(writes) : writes[i] \in Image
    BY ElementOfSeq DEF TypeOK
  <2>3. \A p \in Providers : show[p].quota.from \in Nat /\ taken[p] \in Nat
    BY ConstantsOK DEF TypeOK, Display, Reading
  <2> QED
    BY <2>1, <2>2, <2>3 DEF TypeOK
<1>6. QuotaMatchesItsTime'
  BY <1>1, <1>2, <1>3, <1>4 DEF DataInv, QuotaMatchesItsTime
<1>7. \A p \in Providers : writes[1][p].from <= show[p].quota.from /\ writes[1][p].from <= taken[p]
  BY <1>3, <1>5 DEF DataInv, InOrder
<1>8. \A p \in Providers : disk'[p].from <= taken'[p]
  BY <1>4, <1>7 DEF DataInv, InOrder
<1>9. ~unread' => /\ \A p \in Providers, i \in 1..Len(writes') : disk'[p].from <= writes'[i][p].from
                  /\ \A p \in Providers : disk'[p].from <= show'[p].quota.from
  <2> SUFFICES ASSUME ~unread', NEW p \in Providers
               PROVE  /\ \A i \in 1..Len(writes') : disk'[p].from <= writes'[i][p].from
                      /\ disk'[p].from <= show'[p].quota.from
    OBVIOUS
  <2>1. ASSUME NEW i \in 1..Len(writes')
        PROVE  disk[p].from <= writes[i + 1][p].from /\ writes[1][p].from <= writes[i + 1][p].from
    BY <1>2, <1>4 DEF DataInv, InOrder
  <2>2. Created
    BY DEF WriteNext
  <2>3. disk[p].from <= show[p].quota.from
    BY <1>4, <2>2 DEF DataInv, InOrder
  <2> QED
    BY <1>1, <1>4, <1>7, <2>1, <2>3
<1>10. \A p \in Providers, i \in 1..Len(writes') : writes'[i][p].from <= show'[p].quota.from
  BY <1>1, <1>2, <1>4 DEF DataInv, InOrder
<1>11. \A p \in Providers, i, j \in 1..Len(writes') :
         i <= j => writes'[i][p].from <= writes'[j][p].from
  <2> SUFFICES ASSUME NEW p \in Providers, NEW i \in 1..Len(writes'), NEW j \in 1..Len(writes'),
                      i <= j
               PROVE  writes'[i][p].from <= writes'[j][p].from
    OBVIOUS
  <2>1. i + 1 \in 1..Len(writes) /\ j + 1 \in 1..Len(writes) /\ i + 1 <= j + 1
    BY <1>2
  <2> QED
    BY <1>1, <2>1 DEF DataInv, InOrder
<1>12. phase' \notin {"off", "loading"}
  BY <1>4 DEF WriteNext, Created
<1>13. \A p \in Providers : show'[p].quota.from <= taken'[p]
  BY <1>4 DEF DataInv, InOrder
<1> QED
  BY <1>6, <1>8, <1>9, <1>10, <1>11, <1>12, <1>13 DEF DataInv, InOrder

LEMMA DataStep == TypeOK /\ TypeOK' /\ DataInv /\ [Next]_vars => DataInv'
<1> SUFFICES ASSUME TypeOK, TypeOK', DataInv, [Next]_vars PROVE DataInv'
  OBVIOUS
<1>1. CASE Launch \/ Crash
  BY <1>1, DataCold DEF Launch, Crash
<1>2. CASE Exit
  BY <1>2 DEF Exit, Created, DataInv, QuotaMatchesItsTime, InOrder,
              fetchVars, taskVars, fileVars, histVars
<1>3. CASE UNCHANGED vars
  BY <1>3 DEF vars, coreVars, fetchVars, taskVars, fileVars, histVars,
              DataInv, QuotaMatchesItsTime, InOrder, Created
<1> QED
  BY <1>1, <1>2, <1>3, StepKinds, DataQuiet, DataCreate, DataQuotaFresh, DataQuotaFailed, DataWrite

LEMMA DataInit == Init => DataInv
<1> SUFFICES ASSUME Init PROVE DataInv
  OBVIOUS
<1>1. Len(writes) = 0
  BY DEF Init
<1> QED
  BY <1>1 DEF Init, DataInv, QuotaMatchesItsTime, InOrder, InitialDisplay, NoReading, EmptyImage, Created

\* Windows and their time come from one reading on screen, in every image that
\* waits to be saved and in the file; "fresh" is only said of the newest one.
THEOREM QuotaSafe == Spec => []QuotaMatchesItsTime
<1>1. DataInv => QuotaMatchesItsTime
  BY DEF DataInv
<1> QED
  BY <1>1, DataInit, DataStep, TypeInit, TypeStep, PTL DEF Spec
-----------------------------------------------------------------------------
(* The monitor implements the ledger.                                      *)

\* A step that changes neither the quota shown, nor the file, nor the session
\* is a stutter of the ledger.
LEMMA LedgerStutter ==
  ASSUME Running, Running', UNCHANGED <<disk, taken, unread>>,
         \A p \in Providers : show'[p].quota.from = show[p].quota.from
  PROVE  UNCHANGED Ledger!vars
BY DEF Ledger!vars

\* What is recalled is what the file holds; a file that cannot be read is
\* forgotten by this run.
LEMMA LedgerCreate ==
  ASSUME TypeOK, DataInv, NEW readable \in BOOLEAN, Create(readable)
  PROVE  Ledger!Next
<1>1. /\ Running /\ Running' /\ UNCHANGED <<disk, taken>>
      /\ ~unread /\ unread' = ~readable
      /\ \A p \in Providers : show[p] = InitialDisplay
  BY DEF Create, Running, DataInv, InOrder, fileVars
<1>2. InitialDisplay.quota.from = 0
  BY DEF InitialDisplay, NoReading
<1>3. CASE readable
  <2> DEFINE S == {p \in Providers : disk[p] # NoReading}
  <2>1. ASSUME NEW p \in S PROVE show'[p].quota.from = disk[p].from
    <3>1. show'[p] = Recalled(disk[p])
      BY <1>3 DEF Create
    <3> QED
      BY <3>1 DEF Recalled, InitialDisplay
  <2>2. \A p \in Providers \ S : show'[p] = show[p]
    BY <1>3 DEF Create
  <2>3. S \in SUBSET Providers
    OBVIOUS
  <2>4. unread' = unread
    BY <1>1, <1>3 DEF TypeOK
  <2> HIDE DEF S
  <2>5. PICK T \in SUBSET Providers : T = S
    BY <2>3
  <2>6. Ledger!Recall(T)
    BY <1>1, <1>2, <2>1, <2>2, <2>4, <2>5 DEF Ledger!Recall
  <2> QED
    BY <2>6 DEF Ledger!Next
<1>4. CASE ~readable
  <2>1. show' = show
    BY <1>4 DEF Create, TypeOK
  <2>2. Ledger!Forget
    BY <1>1, <1>4, <2>1 DEF Ledger!Forget
  <2> QED
    BY <2>2 DEF Ledger!Next
<1> QED
  BY <1>3, <1>4

LEMMA LedgerFetch ==
  ASSUME TypeOK, DataInv, NEW p \in Providers, NEW g \in Generation,
         QuotaFresh(p, g) \/ QuotaFailed(p, g)
  PROVE  Ledger!Next \/ UNCHANGED Ledger!vars
<1>1. Running /\ Running' /\ UNCHANGED <<disk, unread>>
  BY DEF QuotaFresh, QuotaFailed, FetchEnds, Created, Running, coreVars, fileVars, histVars
<1>2. CASE QuotaFresh(p, g)
  <2>1. /\ taken' = [taken EXCEPT ![p] = @ + 1]
        /\ show'[p].quota.from = taken[p] + 1
        /\ \A q \in Providers \ {p} : show'[q] = show[q]
    BY <1>2 DEF QuotaFresh, TypeOK, Display
  <2>2. Ledger!Measure(p)
    BY <1>1, <2>1 DEF Ledger!Measure
  <2> QED
    BY <2>2 DEF Ledger!Next
<1>3. CASE QuotaFailed(p, g)
  <2>1. show' = [show EXCEPT ![p] = AfterFailure(show[p])] /\ taken' = taken
    BY <1>3 DEF QuotaFailed, histVars
  <2>2. \A q \in Providers : show'[q].quota.from = show[q].quota.from
    BY <2>1, FailureKeeps DEF TypeOK
  <2> QED
    BY <1>1, <2>1, <2>2, LedgerStutter
<1> QED
  BY <1>2, <1>3

\* A save that succeeds writes what was shown, and nothing older than the file
\* holds unless this run could not read it.
LEMMA LedgerWrite ==
  ASSUME TypeOK, DataInv, NEW ok \in BOOLEAN, WriteNext(ok)
  PROVE  Ledger!Next \/ UNCHANGED Ledger!vars
<1>1. /\ Created /\ Running /\ Running'
      /\ UNCHANGED <<show, taken, unread>>
      /\ disk' = IF ok THEN Head(writes) ELSE disk
  BY DEF WriteNext, Created, Running, coreVars, histVars
<1>2. CASE ~ok
  BY <1>1, <1>2, LedgerStutter
<1>3. CASE ok
  <2>1. 1 \in 1..Len(writes) /\ Head(writes) = writes[1] /\ writes[1] \in Image
    <3>1. writes \in Seq(Image) /\ writes # <<>>
      BY DEF WriteNext, TypeOK
    <3>2. Len(writes) \in Nat /\ Len(writes) # 0
      BY <3>1, LenProperties, EmptySeq
    <3> QED
      BY <3>1, <3>2, HeadTailProperties, ElementOfSeq
  <2>2. ASSUME NEW p \in Providers
        PROVE  /\ disk'[p].from \in Nat
               /\ disk'[p].from <= show[p].quota.from
               /\ unread \/ disk[p].from <= disk'[p].from
    <3>1. disk'[p] = writes[1][p]
      BY <1>1, <1>3, <2>1
    <3>2. writes[1][p].from \in Nat
      BY <2>1, ConstantsOK DEF Image, Reading
    <3> QED
      BY <2>1, <3>1, <3>2 DEF DataInv, InOrder
  <2>3. Ledger!Save
    BY <1>1, <2>2 DEF Ledger!Save
  <2> QED
    BY <2>3 DEF Ledger!Next
<1> QED
  BY <1>2, <1>3

\* Every step of the monitor is a step of the ledger.
LEMMA LedgerStep == TypeOK /\ DataInv /\ [Next]_vars => [Ledger!Next]_(Ledger!vars)
<1> SUFFICES ASSUME TypeOK, DataInv, [Next]_vars
             PROVE  Ledger!Next \/ UNCHANGED Ledger!vars
  OBVIOUS
<1>1. CASE Launch
  <2>1. ~Running /\ Running' /\ ~unread' /\ UNCHANGED <<disk, taken>>
    BY <1>1 DEF Launch, ColdMemory, Running
  <2>2. \A p \in Providers : show'[p].quota.from = 0
    BY <1>1 DEF Launch, ColdMemory, InitialDisplay, NoReading
  <2>3. Ledger!Begin
    BY <2>1, <2>2 DEF Ledger!Begin
  <2> QED
    BY <2>3 DEF Ledger!Next
<1>2. CASE Crash \/ Exit
  <2>1. Running /\ ~Running' /\ UNCHANGED <<disk, taken>>
    BY <1>2 DEF Crash, Exit, Running, fileVars, histVars
  <2>2. Ledger!End
    BY <2>1 DEF Ledger!End, Ledger!Nothing
  <2> QED
    BY <2>2 DEF Ledger!Next
<1>3. CASE QuietStep
  <2>1. Running /\ Running' /\ UNCHANGED <<disk, taken, unread>>
    BY <1>3 DEF QuietStep, Created, Running
  <2>2. \A p \in Providers : show'[p].quota.from = show[p].quota.from
    BY <1>3 DEF QuietStep, SameQuota
  <2> QED
    BY <2>1, <2>2, LedgerStutter
<1>4. CASE UNCHANGED vars
  BY <1>4 DEF vars, coreVars, fileVars, histVars, Ledger!vars, Running
<1> QED
  BY <1>1, <1>2, <1>3, <1>4, StepKinds, LedgerCreate, LedgerFetch, LedgerWrite

LEMMA LedgerInit == Init => Ledger!Init
<1> SUFFICES ASSUME Init PROVE Ledger!Init
  OBVIOUS
<1>1. ~Running
  BY DEF Init, Running
<1> QED
  BY <1>1 DEF Init, Ledger!Init, Ledger!Nothing, EmptyImage, NoReading

\* What the Node monitor shows and saves, over any number of runs, is a
\* behaviour of QuotaLedger: a run never shows an older reading than it did,
\* and never saves one that was not shown or, if it could read the file, one
\* older than the file's.
THEOREM ImplementsLedger == Spec => LedgerSpec
<1>1. TypeOK /\ DataInv /\ [Next]_vars => (TypeOK /\ DataInv)'
  BY TypeStep, DataStep
<1> QED
  BY <1>1, TypeInit, DataInit, LedgerInit, LedgerStep, PTL
  DEF Spec, LedgerSpec, Ledger!Spec

-----------------------------------------------------------------------------
(* Polling and progress.                                                   *)

\* Before a core is started nothing is polled, and before it is created
\* nothing runs.
PollInv ==
    /\ PollingGoesOn
    /\ ProgressIsReal
    /\ ~started => checkTimer = {}
    /\ phase \in {"off", "loading"} => ~started /\ refreshing = {} /\ Working = {}

\* A fetch that is asked for takes the place of the timer.
LEMMA AskFetchPolls ==
  ASSUME TypeOK, PollingGoesOn, NEW S \in SUBSET Providers, AskFetch(S)
  PROVE  /\ fetches' = {<<p, gen'[p]>> : p \in {q \in Providers : fetch'[q] # "idle"}}
         /\ started /\ ~Stopped => timer' = {p \in Providers : fetch'[p] = "idle"}
         /\ S = Providers => timer' = {p \in Providers : fetch'[p] = "idle"}
<1>1. \A p \in Providers :
        fetch'[p] = IF p \notin S THEN fetch[p]
                    ELSE IF fetch[p] = "idle" THEN "running" ELSE "again"
  BY DEF AskFetch, Asked, TypeOK
<1>2. /\ \A p \in IdleAmong(S) : gen'[p] = NextGen(p)
      /\ \A p \in Providers \ IdleAmong(S) : gen'[p] = gen[p]
  BY DEF AskFetch, IdleAmong
<1>3. \A p \in Providers : p \in IdleAmong(S) <=> p \in S /\ fetch[p] = "idle"
  BY DEF IdleAmong
<1>4. {q \in Providers : fetch'[q] # "idle"} = {q \in Providers : fetch[q] # "idle"} \cup IdleAmong(S)
  BY <1>1, <1>3 DEF IdleAmong
<1>5. fetches' = {<<p, gen[p]>> : p \in {q \in Providers : fetch[q] # "idle"}}
                   \cup {<<p, NextGen(p)>> : p \in IdleAmong(S)}
  BY DEF AskFetch, PollingGoesOn
<1>6. \A p \in Providers : fetch[p] # "idle" => gen'[p] = gen[p]
  BY <1>2, <1>3
<1>7. fetches' = {<<p, gen'[p]>> : p \in {q \in Providers : fetch'[q] # "idle"}}
  BY <1>2, <1>4, <1>5, <1>6
<1>8. timer' = timer \ S
  BY DEF AskFetch
<1>9. started /\ ~Stopped => timer' = {p \in Providers : fetch'[p] = "idle"}
  BY <1>1, <1>8 DEF PollingGoesOn
<1>10. S = Providers => timer' = {p \in Providers : fetch'[p] = "idle"}
  BY <1>1, <1>8 DEF TypeOK
<1> QED
  BY <1>7, <1>9, <1>10

LEMMA AskCheckPolls ==
  ASSUME TypeOK, PollInv, NEW S \in SUBSET Checked, AskCheck(S)
  PROVE  /\ started /\ ~Stopped => checkTimer' = {p \in Checked : check'[p] = "idle"}
         /\ ~started => checkTimer' = {}
         /\ ~started /\ S = Checked => checkTimer' = {p \in Checked : check'[p] = "idle"}
<1>1. \A p \in Checked :
        check'[p] = IF p \notin S THEN check[p]
                    ELSE IF check[p] = "idle" THEN "running" ELSE "again"
  BY DEF AskCheck, Asked, TypeOK
<1>2. checkTimer' = {p \in checkTimer : p \notin S \/ check[p] # "idle"}
  BY DEF AskCheck
<1>3. started /\ ~Stopped => checkTimer' = {p \in Checked : check'[p] = "idle"}
  BY <1>1, <1>2 DEF PollInv, PollingGoesOn
<1>4. ~started => checkTimer' = {}
  BY <1>2 DEF PollInv
<1>5. ~started /\ S = Checked => checkTimer' = {p \in Checked : check'[p] = "idle"}
  BY <1>1, <1>4
<1> QED
  BY <1>3, <1>4, <1>5

\* When a fetch ends, the next one runs or is scheduled.
LEMMA FetchEndsPolls ==
  ASSUME TypeOK, PollingGoesOn, NEW p \in Providers, NEW g \in Generation, FetchEnds(p, g)
  PROVE  /\ fetches' = {<<q, gen'[q]>> : q \in {r \in Providers : fetch'[r] # "idle"}}
         /\ started /\ ~Stopped => timer' = {q \in Providers : fetch'[q] = "idle"}
<1>1. <<p, g>> \in fetches /\ gen[p] = g /\ fetch[p] # "idle"
  BY DEF FetchEnds, PollingGoesOn
<1>2. fetches \ {<<p, g>>} = {<<q, gen[q]>> : q \in {r \in Providers \ {p} : fetch[r] # "idle"}}
  BY <1>1 DEF PollingGoesOn
<1>3. /\ \A q \in Providers \ {p} : fetch'[q] = fetch[q] /\ gen'[q] = gen[q]
      /\ DOMAIN fetch = Providers /\ DOMAIN gen = Providers
  BY DEF FetchEnds, TypeOK
<1>4. CASE fetch[p] = "again"
  <2>1. /\ fetch'[p] = "running" /\ gen'[p] = NextGen(p) /\ timer' = timer
        /\ fetches' = (fetches \ {<<p, g>>}) \cup {<<p, NextGen(p)>>}
    BY <1>3, <1>4 DEF FetchEnds
  <2>2. {r \in Providers : fetch'[r] # "idle"} = {r \in Providers \ {p} : fetch[r] # "idle"} \cup {p}
    BY <1>3, <2>1
  <2>3. fetches' = {<<q, gen'[q]>> : q \in {r \in Providers : fetch'[r] # "idle"}}
    BY <1>2, <1>3, <2>1, <2>2
  <2>4. {q \in Providers : fetch'[q] = "idle"} = {q \in Providers : fetch[q] = "idle"}
    BY <1>3, <1>4, <2>1
  <2> QED
    BY <2>1, <2>3, <2>4 DEF PollingGoesOn
<1>5. CASE fetch[p] # "again"
  <2>1. /\ fetch'[p] = "idle" /\ gen' = gen /\ timer' = Rests(p)
        /\ fetches' = fetches \ {<<p, g>>}
    BY <1>3, <1>5 DEF FetchEnds
  <2>2. {r \in Providers : fetch'[r] # "idle"} = {r \in Providers \ {p} : fetch[r] # "idle"}
    BY <1>3, <2>1
  <2>3. fetches' = {<<q, gen'[q]>> : q \in {r \in Providers : fetch'[r] # "idle"}}
    BY <1>2, <2>1, <2>2
  <2>4. {q \in Providers : fetch'[q] = "idle"} = {q \in Providers : fetch[q] = "idle"} \cup {p}
    BY <1>3, <2>1
  <2>5. started /\ ~Stopped => timer' = timer \cup {p}
    BY <2>1 DEF Rests
  <2> QED
    BY <2>3, <2>4, <2>5 DEF PollingGoesOn
<1> QED
  BY <1>4, <1>5

\* A step of a live or stopping core that publishes, if it keeps the polling.
LEMMA PollPublish ==
  ASSUME PollInv, refreshing' = Working', phase' \notin {"off", "loading"},
         fetches' = {<<p, gen'[p]>> : p \in {q \in Providers : fetch'[q] # "idle"}},
         started' /\ ~Stopped' =>
           /\ timer' = {p \in Providers : fetch'[p] = "idle"}
           /\ checkTimer' = {p \in Checked : check'[p] = "idle"},
         ~started' => checkTimer' = {}
  PROVE  PollInv'
BY DEF PollInv, PollingGoesOn, ProgressIsReal

LEMMA PollStep == TypeOK /\ PollInv /\ [Next]_vars => PollInv'
<1> SUFFICES ASSUME TypeOK, PollInv, [Next]_vars PROVE PollInv'
  OBVIOUS
<1> USE DEF coreVars, fetchVars, taskVars, fileVars, histVars
<1>1. CASE Launch \/ Crash
  <2>1. phase' \in {"off", "loading"} /\ ColdMemory
    BY <1>1 DEF Launch, Crash
  <2>2. Working' = {}
    BY <2>1, ConstantsOK DEF ColdMemory, Working
  <2>3. fetches' = {<<p, gen'[p]>> : p \in {q \in Providers : fetch'[q] # "idle"}}
    BY <2>1 DEF ColdMemory
  <2> QED
    BY <2>1, <2>2, <2>3 DEF ColdMemory, PollInv, PollingGoesOn, ProgressIsReal
<1>2. ASSUME NEW readable \in BOOLEAN, Create(readable) PROVE PollInv'
  <2>1. /\ ~started /\ ~started' /\ phase' = "live" /\ refreshing' = {} /\ Working' = {}
        /\ UNCHANGED <<fetches, gen, fetch, checkTimer>>
    BY <1>2 DEF Create, PollInv, Working
  <2> QED
    BY <2>1 DEF PollInv, PollingGoesOn, ProgressIsReal
<1>3. CASE Start
  <2>1. ~started /\ started' /\ phase' = "live" /\ refreshing' = Working'
    BY <1>3 DEF Start, Publish
  <2>2. PollingGoesOn /\ AskFetch(Providers) /\ AskCheck(Checked)
    BY <1>3 DEF Start, PollInv
  <2> QED
    BY <2>1, <2>2, AskFetchPolls, AskCheckPolls, PollPublish
<1>4. ASSUME NEW S \in SUBSET Providers, Refresh(S) PROVE PollInv'
  <2>1. /\ phase = "live" /\ phase' = phase /\ started' = started /\ refreshing' = Working'
        /\ AskFetch(S) /\ AskCheck(S \cap Checked) /\ PollingGoesOn
    BY <1>4 DEF Refresh, Publish, PollInv
  <2>2. Stopped' = Stopped /\ S \cap Checked \in SUBSET Checked
    BY <2>1 DEF Stopped
  <2> QED
    BY <2>1, <2>2, AskFetchPolls, AskCheckPolls, PollPublish
<1>5. CASE Stop
  <2>1. Stopped' /\ phase' = "stopping" /\ checkTimer' = {} /\ UNCHANGED <<fetches, gen, fetch>>
    BY <1>5 DEF Stop, Stopped
  <2> QED
    BY <2>1 DEF PollInv, PollingGoesOn, ProgressIsReal
<1>6. CASE FinalSave \/ Exit
  <2>1. /\ Stopped' /\ phase' \in {"saving", "exited"}
        /\ UNCHANGED <<fetches, gen, fetch, started, checkTimer>>
    BY <1>6 DEF FinalSave, Exit, Stopped
  <2> QED
    BY <2>1 DEF PollInv, PollingGoesOn, ProgressIsReal
<1>7. ASSUME NEW p \in Providers, FetchTimer(p) PROVE PollInv'
  <2>1. /\ phase = "live" /\ phase' = phase /\ refreshing' = Working'
        /\ UNCHANGED <<started, check, checkTimer>>
        /\ AskFetch({p}) /\ PollingGoesOn /\ {p} \in SUBSET Providers
    BY <1>7 DEF FetchTimer, Publish, PollInv
  <2>2. Stopped' = Stopped
    BY <2>1 DEF Stopped
  <2>3. started /\ ~Stopped => checkTimer' = {q \in Checked : check'[q] = "idle"}
    BY <2>1 DEF PollingGoesOn
  <2> QED
    BY <2>1, <2>2, <2>3, AskFetchPolls, PollPublish DEF PollInv
<1>8. ASSUME NEW p \in Providers, NEW g \in Generation, QuotaFresh(p, g) \/ QuotaFailed(p, g)
      PROVE  PollInv'
  <2>1. /\ Created /\ phase' = phase /\ refreshing' = Working'
        /\ UNCHANGED <<started, check, checkTimer>>
        /\ FetchEnds(p, g) /\ PollingGoesOn
    BY <1>8 DEF QuotaFresh, QuotaFailed, FetchEnds, Publish, PollInv
  <2>2. Stopped' = Stopped /\ phase' \notin {"off", "loading"}
    BY <2>1 DEF Stopped, Created
  <2>3. started /\ ~Stopped => checkTimer' = {q \in Checked : check'[q] = "idle"}
    BY <2>1 DEF PollingGoesOn
  <2> QED
    BY <2>1, <2>2, <2>3, FetchEndsPolls, PollPublish DEF PollInv
<1>9. ASSUME \/ \E p \in Scanned : ScanDue(p) \/ \E ok \in BOOLEAN : ScanEnds(p, ok)
             \/ \E p \in Scanned, found \in BOOLEAN : LateSummary(p, found)
      PROVE  PollInv'
  <2>1. /\ phase \in {"live", "stopping", "saving"} /\ phase' = phase /\ refreshing' = Working'
        /\ UNCHANGED <<started, check, checkTimer, fetch, gen, fetches, timer>>
    BY <1>9 DEF ScanDue, ScanEnds, LateSummary, Publish, Created
  <2>2. Stopped' = Stopped
    BY <2>1 DEF Stopped
  <2> QED
    BY <2>1, <2>2, PollPublish DEF PollInv, PollingGoesOn
<1>10. ASSUME NEW p \in Checked, CheckTimer(p) PROVE PollInv'
  <2>1. /\ phase = "live" /\ phase' = phase /\ refreshing' = Working'
        /\ UNCHANGED <<started, fetch, gen, fetches, timer>>
        /\ AskCheck({p}) /\ {p} \in SUBSET Checked
    BY <1>10 DEF CheckTimer, Publish
  <2>2. Stopped' = Stopped
    BY <2>1 DEF Stopped
  <2> QED
    BY <2>1, <2>2, AskCheckPolls, PollPublish DEF PollInv, PollingGoesOn
<1>11. ASSUME NEW p \in Checked, NEW ok \in BOOLEAN, CheckEnds(p, ok) PROVE PollInv'
  <2>1. /\ Created /\ phase' = phase /\ refreshing' = Working'
        /\ UNCHANGED <<started, fetch, gen, fetches, timer>>
    BY <1>11 DEF CheckEnds, Publish
  <2>2. Stopped' = Stopped /\ phase' \notin {"off", "loading"}
    BY <2>1 DEF Stopped, Created
  <2>3. /\ check'[p] = Ended(check[p]) /\ Ended(check[p]) \in {"idle", "running"}
        /\ \A q \in Checked \ {p} : check'[q] = check[q]
    BY <1>11 DEF CheckEnds, TypeOK, Ended
  <2>4. checkTimer' = IF check'[p] = "idle" /\ started /\ ~Stopped
                      THEN checkTimer \cup {p} ELSE checkTimer
    BY <1>11 DEF CheckEnds
  <2>5. check[p] # "idle"
    BY <1>11 DEF CheckEnds
  <2>6. started /\ ~Stopped => checkTimer' = {q \in Checked : check'[q] = "idle"}
    BY <2>3, <2>4, <2>5 DEF PollInv, PollingGoesOn
  <2> QED
    BY <2>1, <2>2, <2>4, <2>6, PollPublish DEF PollInv, PollingGoesOn
<1>12. ASSUME \/ UNCHANGED vars \/ \E ok \in BOOLEAN : WriteNext(ok) PROVE PollInv'
  <2>1. UNCHANGED <<phase, started, refreshing, fetch, gen, fetches, timer, scan, check, checkTimer>>
    BY <1>12 DEF vars, WriteNext
  <2> QED
    BY <2>1 DEF PollInv, PollingGoesOn, ProgressIsReal, Stopped, Working
<1> QED
  BY <1>1, <1>2, <1>3, <1>4, <1>5, <1>6, <1>7, <1>8, <1>9, <1>10, <1>11, <1>12
     DEF Next, Environment, Fetches, Background, Core

LEMMA PollInit == Init => PollInv
<1> SUFFICES ASSUME Init PROVE PollInv
  OBVIOUS
<1>1. Working = {} /\ fetches = {<<p, gen[p]>> : p \in {q \in Providers : fetch[q] # "idle"}}
  BY ConstantsOK DEF Init, Working
<1> QED
  BY <1>1 DEF Init, PollInv, PollingGoesOn, ProgressIsReal

\* Of a started core every provider is either being fetched, by one fetch, or
\* has its next fetch scheduled, and its health likewise: polling never ends.
THEOREM PollingSafe == Spec => []PollingGoesOn
<1>1. PollInv => PollingGoesOn
  BY DEF PollInv
<1> QED
  BY <1>1, PollInit, PollStep, TypeInit, TypeStep, PTL DEF Spec

\* A live core lists as being refreshed exactly the providers with work under way.
THEOREM ProgressSafe == Spec => []ProgressIsReal
<1>1. PollInv => ProgressIsReal
  BY DEF PollInv
<1> QED
  BY <1>1, PollInit, PollStep, TypeInit, TypeStep, PTL DEF Spec

-----------------------------------------------------------------------------
(* The end of an orderly run.                                              *)

\* The last save of the run, once it is asked for, waits at the end of the
\* chain, or was done and succeeded unless it failed.
LastSave ==
    \/ writes # <<>> /\ writes[Len(writes)] = ImageOf(show)
    \/ writes = <<>> /\ (~missed => disk = ImageOf(show))

ExitInv ==
    /\ Stopped => timer = {} /\ checkTimer = {}
    /\ phase \in {"saving", "exited"} => Working = {} /\ LastSave
    /\ phase = "exited" => writes = <<>>

LEMMA SameImage ==
  ASSUME \A p \in Providers : show'[p].quota = show[p].quota
  PROVE  ImageOf(show') = ImageOf(show)
BY DEF ImageOf

LEMMA LastSaveWritten ==
  ASSUME TypeOK, LastSave, NEW ok \in BOOLEAN, WriteNext(ok)
  PROVE  LastSave'
<1>1. /\ writes \in Seq(Image) /\ writes # <<>> /\ show' = show
      /\ writes' = Tail(writes) /\ missed' = ~ok
      /\ disk' = IF ok THEN Head(writes) ELSE disk
  BY DEF WriteNext, TypeOK
<1>2. /\ Len(writes) \in Nat /\ Len(writes) # 0
      /\ Head(writes) = writes[1]
      /\ Len(writes') = Len(writes) - 1
      /\ \A i \in 1..Len(writes') : writes'[i] = writes[i + 1]
  BY <1>1, LenProperties, EmptySeq, HeadTailProperties
<1>3. CASE Len(writes) = 1
  <2>1. writes' = <<>>
    BY <1>1, <1>2, <1>3, EmptySeq, HeadTailProperties
  <2>2. writes[1] = ImageOf(show)
    BY <1>1, <1>3 DEF LastSave
  <2> QED
    BY <1>1, <1>2, <2>1, <2>2 DEF LastSave
<1>4. CASE Len(writes) # 1
  <2>1. Len(writes') \in 1..Len(writes') /\ Len(writes') + 1 = Len(writes)
    BY <1>2, <1>4
  <2>2. writes' # <<>> /\ writes'[Len(writes')] = writes[Len(writes)]
    <3>1. Len(<<>>) = 0
      OBVIOUS
    <3> QED
      BY <1>2, <2>1, <3>1
  <2> QED
    BY <1>1, <2>2 DEF LastSave
<1> QED
  BY <1>3, <1>4

\* A save that is asked for comes last in the chain.
LEMMA ChainedLast ==
  ASSUME NEW image \in Image, writes \in Seq(Image)
  PROVE  /\ Chained(image) # <<>>
         /\ Chained(image)[Len(Chained(image))] = image
<1>1. CASE Chained(image) = writes /\ writes # <<>> /\ writes[Len(writes)] = image
  BY <1>1
<1>2. CASE Chained(image) = Append(writes, image)
  <2>1. /\ Len(Append(writes, image)) = Len(writes) + 1
        /\ Append(writes, image)[Len(writes) + 1] = image
        /\ Len(writes) \in Nat
    BY AppendProperties, LenProperties
  <2>2. Len(<<>>) = 0
    OBVIOUS
  <2> QED
    BY <1>2, <2>1, <2>2
<1> QED
  BY <1>1, <1>2 DEF Chained

LEMMA ExitStep == TypeOK /\ TypeOK' /\ PollInv /\ PollInv' /\ ExitInv /\ [Next]_vars => ExitInv'
<1> SUFFICES ASSUME TypeOK, TypeOK', PollInv, PollInv', ExitInv, [Next]_vars PROVE ExitInv'
  OBVIOUS
<1> USE DEF coreVars, fetchVars, taskVars, fileVars, histVars
<1>1. CASE Launch \/ Crash
  BY <1>1 DEF Launch, Crash, ColdMemory, ExitInv, Stopped
<1>2. CASE (\E readable \in BOOLEAN : Create(readable)) \/ Start \/ \E S : Refresh(S)
  BY <1>2 DEF Create, Start, Refresh, ExitInv, Stopped
<1>3. CASE Stop
  BY <1>3 DEF Stop, ExitInv, Stopped
<1>4. CASE FinalSave
  <2>1. ImageOf(show) \in Image /\ writes \in Seq(Image)
    BY ImageOfType DEF TypeOK
  <2>2. LastSave'
    BY <1>4, <2>1, ChainedLast DEF FinalSave, LastSave
  <2>3. Working' = {} /\ phase' = "saving" /\ timer' = {} /\ checkTimer' = {}
    BY <1>4 DEF FinalSave, Quiet, ExitInv, Stopped, Working
  <2> QED
    BY <2>2, <2>3 DEF ExitInv
<1>5. CASE Exit
  BY <1>5 DEF Exit, Flushed, ExitInv, Stopped, LastSave, Working
<1>6. ASSUME NEW p \in Providers, FetchTimer(p) PROVE ExitInv'
  BY <1>6 DEF FetchTimer, ExitInv, Stopped
<1>7. ASSUME NEW p \in Checked, CheckTimer(p) PROVE ExitInv'
  BY <1>7 DEF CheckTimer, ExitInv, Stopped
<1>8. ASSUME NEW p \in Scanned, ScanDue(p) PROVE ExitInv'
  BY <1>8 DEF ScanDue, ExitInv, Stopped
<1>9. ASSUME NEW p \in Providers, NEW g \in Generation, QuotaFresh(p, g) \/ QuotaFailed(p, g)
      PROVE  ExitInv'
  <2>1. FetchEnds(p, g) /\ Created /\ phase' = phase /\ checkTimer' = checkTimer
    BY <1>9 DEF QuotaFresh, QuotaFailed, FetchEnds
  <2>2. <<p, g>> \in fetches /\ fetch[p] # "idle"
    BY <2>1 DEF FetchEnds, PollInv, PollingGoesOn
  <2>3. phase \notin {"saving", "exited"}
    BY <2>2 DEF ExitInv, Working
  <2>4. Stopped => timer' = timer
    BY <2>1 DEF FetchEnds, Rests
  <2> QED
    BY <2>1, <2>3, <2>4 DEF ExitInv, Stopped
<1>10. ASSUME NEW p \in Scanned, NEW ok \in BOOLEAN, ScanEnds(p, ok) PROVE ExitInv'
  <2>1. p \in Providers /\ scan[p] # "idle" /\ phase' = phase /\ UNCHANGED <<timer, checkTimer>>
    BY <1>10, ConstantsOK DEF ScanEnds
  <2>2. phase \notin {"saving", "exited"}
    BY <1>10, <2>1 DEF ExitInv, Working
  <2> QED
    BY <2>1, <2>2 DEF ExitInv, Stopped
<1>11. ASSUME NEW p \in Checked, NEW ok \in BOOLEAN, CheckEnds(p, ok) PROVE ExitInv'
  <2>1. /\ p \in Providers /\ check[p] # "idle" /\ phase' = phase /\ timer' = timer
        /\ Stopped => checkTimer' = checkTimer
    BY <1>11, ConstantsOK DEF CheckEnds
  <2>2. phase \notin {"saving", "exited"}
    BY <1>11, <2>1 DEF ExitInv, Working
  <2> QED
    BY <2>1, <2>2 DEF ExitInv, Stopped
<1>12. ASSUME NEW p \in Scanned, NEW found \in BOOLEAN, LateSummary(p, found) PROVE ExitInv'
  <2>1. /\ Created /\ UNCHANGED <<phase, timer, checkTimer, fetch, scan, check, disk, missed>>
        /\ Stopped => writes' = writes
    BY <1>12 DEF LateSummary, Publish
  <2>2. \A q \in Providers : show'[q].quota = show[q].quota
    BY <1>12 DEF LateSummary, TypeOK, Display
  <2>3. ImageOf(show') = ImageOf(show)
    BY <2>2, SameImage
  <2> QED
    BY <2>1, <2>3 DEF ExitInv, Stopped, Working, LastSave, Created
<1>13. ASSUME NEW ok \in BOOLEAN, WriteNext(ok) PROVE ExitInv'
  <2>1. UNCHANGED <<phase, timer, checkTimer, fetch, scan, check>> /\ phase # "exited"
    BY <1>13 DEF WriteNext, Created
  <2>2. phase = "saving" => LastSave'
    BY <1>13, LastSaveWritten DEF ExitInv
  <2> QED
    BY <2>1, <2>2 DEF ExitInv, Stopped, Working
<1>14. CASE UNCHANGED vars
  BY <1>14 DEF vars, ExitInv, Stopped, Working, LastSave
<1> QED
  BY <1>1, <1>2, <1>3, <1>4, <1>5, <1>6, <1>7, <1>8, <1>9, <1>10, <1>11, <1>12, <1>13, <1>14
     DEF Next, Environment, Fetches, Background, Core

\* After an orderly exit no fetch, scan, health request or timer is left, and
\* the file holds what was shown last unless the last save failed.
THEOREM ExitSafe == Spec => []OrderlyExitIsSaved
<1>1. Init => ExitInv
  BY DEF Init, ExitInv, Stopped
<1>2. PollInv /\ ExitInv => OrderlyExitIsSaved
  <2> SUFFICES ASSUME PollInv, ExitInv, phase = "exited"
               PROVE  /\ fetches = {} /\ Working = {} /\ timer = {} /\ checkTimer = {}
                      /\ ~missed => disk = ImageOf(show)
    BY DEF OrderlyExitIsSaved
  <2>1. Working = {} /\ writes = <<>> /\ LastSave /\ timer = {} /\ checkTimer = {}
    BY DEF ExitInv, Stopped
  <2>2. fetches = {}
    BY <2>1 DEF PollInv, PollingGoesOn, Working
  <2> QED
    BY <2>1, <2>2 DEF LastSave
<1> QED
  BY <1>1, <1>2, ExitStep, PollInit, PollStep, TypeInit, TypeStep, PTL DEF Spec
-----------------------------------------------------------------------------
(* Totals of local logs on screen.                                         *)

\* Before the store exists no totals are shown, so that creating it from the
\* cache, which holds none, replaces none.
NothingBeforeStore ==
    phase \in {"off", "loading"} => \A p \in Providers : show[p].local = "none"

LEMMA StoreStep == NothingBeforeStore /\ [Next]_vars => NothingBeforeStore'
<1> SUFFICES ASSUME NothingBeforeStore, [Next]_vars, phase' \in {"off", "loading"}
             PROVE  \A p \in Providers : show'[p].local = "none"
  BY DEF NothingBeforeStore
<1> USE DEF coreVars, fetchVars, taskVars, fileVars, histVars, Created
<1>1. CASE Launch \/ Crash
  BY <1>1 DEF Launch, Crash, ColdMemory, InitialDisplay
<1>2. CASE Start \/ Refresh(Providers) \/ Stop \/ FinalSave \/ Exit
           \/ (\E p \in Providers : Refresh({p})) \/ (\E p \in Scanned : ScanDue(p))
           \/ (\E readable \in BOOLEAN : Create(readable))
  BY <1>2 DEF Start, Refresh, Stop, FinalSave, Exit, ScanDue, Create
<1>3. CASE Fetches
  BY <1>3 DEF Fetches, FetchTimer, QuotaFresh, QuotaFailed, FetchEnds
<1>4. CASE Background
  BY <1>4 DEF Background, ScanEnds, LateSummary, CheckTimer, CheckEnds, WriteNext
<1>5. CASE UNCHANGED vars
  BY <1>5 DEF vars, NothingBeforeStore
<1> QED
  BY <1>1, <1>2, <1>3, <1>4, <1>5 DEF Next, Environment, Core

LEMMA TotalsStep ==
  ASSUME TypeOK, NothingBeforeStore, [Next]_vars, NEW p \in Scanned,
         show[p].local = "scanned", phase' # "off", phase # "exited"
  PROVE  show'[p].local = "scanned"
<1> USE DEF coreVars, fetchVars, taskVars, fileVars, histVars
<1>0. show \in [Providers -> Display] /\ p \in Providers
  BY ConstantsOK DEF TypeOK
<1>1. phase \notin {"off", "loading"}
  BY <1>0 DEF NothingBeforeStore
<1>2. CASE Launch \/ Crash \/ \E readable \in BOOLEAN : Create(readable)
  BY <1>1, <1>2 DEF Launch, Crash, Create
<1>3. CASE Start \/ Refresh(Providers) \/ Stop \/ FinalSave \/ Exit
           \/ (\E q \in Providers : Refresh({q})) \/ (\E q \in Scanned : ScanDue(q))
  BY <1>3 DEF Start, Refresh, Stop, FinalSave, Exit, ScanDue
<1>4. ASSUME NEW q \in Providers, FetchTimer(q) PROVE show'[p].local = "scanned"
  BY <1>4 DEF FetchTimer
<1>5. ASSUME NEW q \in Providers, NEW g \in Generation, QuotaFresh(q, g)
      PROVE  show'[p].local = "scanned"
  BY <1>0, <1>5 DEF QuotaFresh, Display
<1>6. ASSUME NEW q \in Providers, NEW g \in Generation, QuotaFailed(q, g)
      PROVE  show'[p].local = "scanned"
  <2>1. show' = [show EXCEPT ![q] = AfterFailure(show[q])]  BY <1>6 DEF QuotaFailed
  <2>2. AfterFailure(show[q]).local = show[q].local  BY <1>0 DEF AfterFailure, Display
  <2> QED
    BY <1>0, <2>1, <2>2
<1>7. ASSUME NEW q \in Scanned, NEW ok \in BOOLEAN, ScanEnds(q, ok)
      PROVE  show'[p].local = "scanned"
  BY <1>0, <1>7 DEF ScanEnds, Display
<1>8. ASSUME NEW q \in Scanned, NEW found \in BOOLEAN, LateSummary(q, found)
      PROVE  show'[p].local = "scanned"
  BY <1>0, <1>8 DEF LateSummary, Summarised, Display
<1>9. ASSUME NEW q \in Checked, CheckTimer(q) PROVE show'[p].local = "scanned"
  BY <1>9 DEF CheckTimer
<1>10. ASSUME NEW q \in Checked, NEW ok \in BOOLEAN, CheckEnds(q, ok)
       PROVE  show'[p].local = "scanned"
  BY <1>0, <1>10 DEF CheckEnds, Display
<1>11. ASSUME NEW ok \in BOOLEAN, WriteNext(ok) PROVE show'[p].local = "scanned"
  BY <1>11 DEF WriteNext
<1>12. CASE UNCHANGED vars
  BY <1>12 DEF vars
<1> QED
  BY <1>2, <1>3, <1>4, <1>5, <1>6, <1>7, <1>8, <1>9, <1>10, <1>11, <1>12
  DEF Next, Environment, Core, Fetches, Background

\* The summary of an earlier run, which is read in the background and may come
\* at any time, never replaces totals that this run has scanned; nor does
\* anything else until the process ends.
THEOREM TotalsSafe == Spec => SummaryYieldsToScan
<1>1. TypeOK /\ NothingBeforeStore /\ [Next]_vars
        => [\A p \in Scanned :
              show[p].local = "scanned" /\ phase' # "off" /\ phase # "exited"
                => show'[p].local = "scanned"]_vars
  BY TotalsStep
<1>2. Init => NothingBeforeStore
  <2> SUFFICES ASSUME Init, NEW p \in Providers PROVE show[p].local = "none"
    BY DEF NothingBeforeStore
  <2>1. show[p] = InitialDisplay  BY DEF Init
  <2> QED
    BY <2>1 DEF InitialDisplay
<1> QED
  BY <1>1, <1>2, StoreStep, TypeInit, TypeStep, PTL DEF Spec, SummaryYieldsToScan
=============================================================================
