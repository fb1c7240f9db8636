--------------------------- MODULE LocalScanProofs ---------------------------
(***************************************************************************)
(* Proofs about LocalScan, for every set of files, any number and length   *)
(* of lines and any number of rewritings.                                  *)
(***************************************************************************)
EXTENDS LocalScan, Integers, FiniteSetTheorems, WellFoundedInduction, TLAPS

Below == {pair \in Nat \X Nat : pair[1] < pair[2]}

\* A set of numbers that is not empty has a least element: inductions below are
\* by a least counterexample.
LEMMA Smallest ==
  ASSUME NEW T \in SUBSET Nat, T # {}
  PROVE  \E m \in T : \A k \in T : m <= k
<1>1. IsWellFoundedOn(Below, Nat)  BY NatLessThanWellFounded DEF OpToRel, Below
<1>2. PICK m \in T : \A k \in T : ~(<<k, m>> \in Below)  BY <1>1, WFMin
<1>3. \A k \in T : ~(k < m)  BY <1>2 DEF Below
<1> QED  BY <1>2, <1>3

-----------------------------------------------------------------------------
(* Parsing: the recursive function of ReadOn.                                *)

\* g is what reading a text line by line comes to, from line `from` to line n.
Reads(g, read, text, from, n) ==
    g = [i \in from .. n |-> IF i = from THEN read ELSE AfterLine(g[i - 1], text[i])]

LEMMA ReadsExists ==
  ASSUME NEW read, NEW text, NEW from \in Nat, NEW n \in Nat, from <= n
  PROVE  \E g : Reads(g, read, text, from, n)
<1> DEFINE T == {k \in Nat : from <= k /\ ~\E g : Reads(g, read, text, from, k)}
<1> SUFFICES ASSUME T # {} PROVE FALSE  OBVIOUS
<1>1. PICK m \in T : \A k \in T : m <= k
  <2> HIDE DEF T
  <2>1. T \in SUBSET Nat  BY DEF T
  <2> QED  BY <2>1, Smallest
<1>2. m \in Nat /\ from <= m /\ ~\E g : Reads(g, read, text, from, m)  OBVIOUS
<1>3. CASE m = from
  <2> DEFINE g == [i \in from .. m |-> read]
  <2>1. Reads(g, read, text, from, m)  BY <1>3 DEF Reads
  <2> QED  BY <1>2, <2>1
<1>4. CASE m > from
  <2>1. m - 1 \in Nat /\ from <= m - 1  BY <1>2, <1>4
  <2>2. PICK h : Reads(h, read, text, from, m - 1)  BY <1>1, <1>2, <2>1
  <2> DEFINE g == [i \in from .. m |-> IF i = m THEN AfterLine(h[m - 1], text[m]) ELSE h[i]]
  <2>3. \A i \in from .. m - 1 : g[i] = h[i]  BY <1>2, <2>1
  <2>4. \A i \in from .. m - 1 :
          h[i] = IF i = from THEN read ELSE AfterLine(h[i - 1], text[i])
    BY <2>2 DEF Reads
  <2>5. ASSUME NEW i \in from .. m
        PROVE  g[i] = IF i = from THEN read ELSE AfterLine(g[i - 1], text[i])
    <3>1. CASE i = m
      <4>1. g[m] = AfterLine(h[m - 1], text[m]) /\ g[m - 1] = h[m - 1]
        BY <1>2, <2>1, <2>3
      <4> QED  BY <1>4, <3>1, <4>1
    <3>2. CASE i = from  BY <1>4, <2>1, <2>3, <2>4, <3>2
    <3>3. CASE i # m /\ i # from
      <4>1. i \in from .. m - 1 /\ i - 1 \in from .. m - 1  BY <1>2, <3>3
      <4> QED  BY <2>3, <2>4, <3>3, <4>1
    <3> QED  BY <3>1, <3>2, <3>3
  <2>6. g = [i \in from .. m |-> g[i]]  OBVIOUS
  <2> HIDE DEF g
  <2>7. Reads(g, read, text, from, m)  BY <2>5, <2>6 DEF Reads
  <2> QED  BY <1>2, <2>7
<1> QED  BY <1>2, <1>3, <1>4

\* ReadOn is the last value of such a function.
LEMMA ReadOnReads ==
  ASSUME NEW read, NEW text, NEW from \in Nat, Len(text) \in Nat, from <= Len(text)
  PROVE  \E g : /\ Reads(g, read, text, from, Len(text))
                /\ ReadOn(read, text, from) = g[Len(text)]
<1> DEFINE g == CHOOSE g : Reads(g, read, text, from, Len(text))
<1>1. Reads(g, read, text, from, Len(text))  BY ReadsExists
<1>2. ReadOn(read, text, from) = g[Len(text)]  BY DEF ReadOn, Reads
<1> QED  BY <1>1, <1>2

SameLines(text, other, start, n) == \A i \in start + 1 .. n : text[i] = other[i]

\* Two readings that agree at a line, and whose texts agree after it, agree on.
LEMMA ReadsAgree ==
  ASSUME NEW g, NEW h, NEW read, NEW first, NEW text, NEW other,
         NEW from \in Nat, NEW start \in Nat, NEW n \in Nat, NEW l \in Nat,
         from <= start, start <= n, n <= l,
         Reads(g, read, text, from, l), Reads(h, first, other, start, n),
         g[start] = first, SameLines(text, other, start, n)
  PROVE  g[n] = h[n]
<1> DEFINE T == {k \in Nat : start <= k /\ k <= n /\ g[k] # h[k]}
<1> SUFFICES ASSUME g[n] # h[n] PROVE FALSE  OBVIOUS
<1>0. n \in T  OBVIOUS
<1>1. PICK m \in T : \A k \in T : m <= k
  <2>1. T \in SUBSET Nat  OBVIOUS
  <2> HIDE DEF T
  <2> QED  BY <1>0, <2>1, Smallest
<1>2. m \in Nat /\ start <= m /\ m <= n /\ g[m] # h[m]  OBVIOUS
<1>3. h[start] = first  BY DEF Reads
<1>4. m # start  BY <1>2, <1>3
<1>5. m - 1 \in Nat /\ start <= m - 1 /\ m - 1 <= n /\ m - 1 \notin T  BY <1>1, <1>2, <1>4
<1>6. g[m - 1] = h[m - 1]  BY <1>5
<1>7. g[m] = AfterLine(g[m - 1], text[m])  BY <1>2, <1>4 DEF Reads
<1>8. h[m] = AfterLine(h[m - 1], other[m])  BY <1>2, <1>4 DEF Reads
<1>9. text[m] = other[m]  BY <1>2, <1>4 DEF SameLines
<1> QED  BY <1>2, <1>6, <1>7, <1>8, <1>9

LEMMA LineTyped ==
  ASSUME NEW read \in Parse, NEW line \in Line
  PROVE  AfterLine(read, line) \in Parse
<1>1. line \in Nat  BY ConstantsOK DEF Line, Bad
<1>2. read.sum \in Nat /\ read.last \in Nat /\ read.errors \in Nat  BY DEF Parse
<1>3. CASE line = Bad
  <2>1. read.errors + 1 \in Nat  BY <1>2
  <2>2. [read EXCEPT !.errors = read.errors + 1] \in Parse  BY <2>1 DEF Parse
  <2> QED  BY <1>3, <2>2 DEF AfterLine
<1>4. CASE line # Bad
  <2> DEFINE gain == IF line > read.last THEN line - read.last ELSE 0
  <2>1. read.sum + gain \in Nat  BY <1>1, <1>2
  <2> HIDE DEF gain
  <2>2. [read EXCEPT !.sum = read.sum + gain, !.last = line] \in Parse
    BY <1>1, <2>1 DEF Parse
  <2> QED  BY <1>4, <2>2 DEF AfterLine, gain
<1> QED  BY <1>3, <1>4

LEMMA ReadsTyped ==
  ASSUME NEW g, NEW read \in Parse, NEW text \in Seq(Line), NEW from \in Nat,
         from <= Len(text), Reads(g, read, text, from, Len(text))
  PROVE  g[Len(text)] \in Parse
<1> DEFINE T == {k \in Nat : from <= k /\ k <= Len(text) /\ g[k] \notin Parse}
<1>1. T \in SUBSET Nat  OBVIOUS
<1>2. CASE T # {}
  <2>1. PICK m \in T : \A k \in T : m <= k
    <3> HIDE DEF T
    <3> QED  BY <1>1, <1>2, Smallest
  <2>2. m \in Nat /\ from <= m /\ m <= Len(text) /\ g[m] \notin Parse  OBVIOUS
  <2>3. m # from  BY <2>2 DEF Reads
  <2>4. m - 1 \in Nat /\ from <= m - 1 /\ m - 1 <= Len(text) /\ m - 1 \notin T
    BY <2>1, <2>2, <2>3
  <2>5. g[m - 1] \in Parse  BY <2>4
  <2>6. g[m] = AfterLine(g[m - 1], text[m])  BY <2>2, <2>3 DEF Reads
  <2>7. text[m] \in Line  BY <2>2, <2>3
  <2> QED  BY <2>2, <2>5, <2>6, <2>7, LineTyped
<1>3. CASE T = {}  BY <1>3
<1> QED  BY <1>2, <1>3

LEMMA ReadOnTyped ==
  ASSUME NEW read \in Parse, NEW text \in Seq(Line), NEW from \in Nat, from <= Len(text)
  PROVE  ReadOn(read, text, from) \in Parse
<1>1. PICK g : /\ Reads(g, read, text, from, Len(text))
               /\ ReadOn(read, text, from) = g[Len(text)]
  BY ReadOnReads
<1> QED  BY <1>1, ReadsTyped

LEMMA NothingTyped == NothingRead \in Parse
BY DEF NothingRead, Parse

\* Nothing has been read of no lines.
LEMMA ScratchOfNothing ==
  ASSUME NEW text \in Seq(Line)
  PROVE  FromScratch(text, 0) = NothingRead
<1>1. SubSeq(text, 1, 0) = <<>>  OBVIOUS
<1>2. PICK g : /\ Reads(g, NothingRead, <<>>, 0, Len(<<>>))
               /\ ReadOn(NothingRead, <<>>, 0) = g[Len(<<>>)]
  BY ReadOnReads
<1>3. g[0] = NothingRead  BY <1>2 DEF Reads
<1> QED  BY <1>1, <1>2, <1>3 DEF FromScratch

\* Resuming from what a scan from scratch has of the first lines gives what one
\* has of all lines: the heart of an incremental scan.
LEMMA ResumeIsExact ==
  ASSUME NEW text \in Seq(Line), NEW from \in Nat, from <= Len(text)
  PROVE  ReadOn(FromScratch(text, from), text, from) = FromScratch(text, Len(text))
<1> DEFINE l == Len(text)
           first == SubSeq(text, 1, from)
           all == SubSeq(text, 1, l)
<1>1. /\ Len(first) = from /\ Len(all) = l /\ l \in Nat
      /\ \A i \in 1 .. from : first[i] = text[i]
      /\ \A i \in 1 .. l : all[i] = text[i]
  OBVIOUS
<1> HIDE DEF l, first, all
<1>2. PICK a : Reads(a, NothingRead, first, 0, from) /\ FromScratch(text, from) = a[from]
  <2>1. PICK a : /\ Reads(a, NothingRead, first, 0, Len(first))
                 /\ ReadOn(NothingRead, first, 0) = a[Len(first)]
    BY <1>1, ReadOnReads
  <2> QED  BY <1>1, <2>1 DEF FromScratch, first
<1>3. PICK b : Reads(b, NothingRead, all, 0, l) /\ FromScratch(text, l) = b[l]
  <2>1. PICK b : /\ Reads(b, NothingRead, all, 0, Len(all))
                 /\ ReadOn(NothingRead, all, 0) = b[Len(all)]
    BY <1>1, ReadOnReads
  <2> QED  BY <1>1, <2>1 DEF FromScratch, all, l
<1>4. PICK c : Reads(c, a[from], text, from, l) /\ ReadOn(a[from], text, from) = c[l]
  BY <1>1, ReadOnReads DEF l
<1>5. from <= l  BY DEF l
<1>6. b[0] = NothingRead  BY <1>1, <1>3 DEF Reads
<1>7. \A i \in 1 .. from : all[i] = first[i]  BY <1>1, <1>5
<1>8. b[from] = a[from]
  <2>1. SameLines(all, first, 0, from)  BY <1>7 DEF SameLines
  <2>2. 0 \in Nat /\ 0 <= 0 /\ 0 <= from /\ from <= l  BY <1>5
  <2> QED  BY <1>1, <1>2, <1>3, <1>6, <2>1, <2>2, ReadsAgree
<1>9. b[l] = c[l]
  <2>1. SameLines(all, text, from, l)  BY <1>1, <1>5 DEF SameLines
  <2>2. 0 \in Nat /\ 0 <= from /\ from <= l /\ l <= l  BY <1>1, <1>5
  <2> QED  BY <1>1, <1>3, <1>4, <1>8, <2>1, <2>2, ReadsAgree
<1> QED  BY <1>2, <1>3, <1>4, <1>9 DEF l

-----------------------------------------------------------------------------
(* The inductive invariant.                                                  *)

\* What the proofs need of the types.
Typed ==
    /\ log \in [Files -> Log]
    /\ index \in Index /\ disk \in Index /\ section \in Index
    /\ todo \subseteq Files
    /\ stat \in [file : SUBSET Files, size : Nat]
    /\ seen \in [Files -> [exists : BOOLEAN, epoch : 0..MaxEpoch, count : Nat]]

\* A checkpoint cp of the log l: not of a later one, its size at most a byte
\* beyond its offset, and exact as long as the log is not rewritten.
Sound(cp, l) ==
    cp # NoCheckpoint =>
      /\ cp.epoch <= l.epoch
      /\ cp.size <= 2 * cp.offset + 1
      /\ cp.offset = 0 => cp.read = NothingRead
      /\ l.exists /\ cp.epoch = l.epoch =>
           /\ cp.offset <= Len(l.text)
           /\ cp.read = FromScratch(l.text, cp.offset)

AllSound ==
    \A f \in Files :
      Sound(index[f], log[f]) /\ Sound(disk[f], log[f]) /\ Sound(section[f], log[f])

\* A size is only held during a scan, of a file that is still to be read, and is
\* not beyond the file.
StatSound ==
    /\ stat # NoFile => phase = "scanning"
    /\ \A f \in Files :
         stat.file = {f} => f \in todo /\ (log[f].exists => stat.size <= Size(log[f]))

Same(f, epoch) == log[f].exists /\ log[f].epoch = epoch

\* What was known of a file stays known during a scan.
KeptSound ==
    phase = "scanning" =>
      \A f \in Files :
        index[f] # NoCheckpoint /\ Same(f, index[f].epoch) =>
          section[f] # NoCheckpoint /\ section[f].offset >= index[f].offset

\* What a scan has done of what it saw when it began.
SeenSound ==
    phase = "scanning" =>
      \A f \in Files :
        /\ seen[f].epoch <= log[f].epoch
        /\ seen[f].exists /\ Same(f, seen[f].epoch) =>
             /\ seen[f].count <= Len(log[f].text)
             /\ stat.file = {f} => 2 * seen[f].count <= stat.size
             /\ listed /\ f \notin todo /\ f \notin failed =>
                  /\ section[f] # NoCheckpoint
                  /\ section[f].epoch = log[f].epoch
                  /\ section[f].offset >= seen[f].count
        /\ listed /\ ~seen[f].exists => section[f] = NoCheckpoint /\ f \notin todo

IInv == Typed /\ AllSound /\ StatSound /\ KeptSound /\ SeenSound

LEMMA SoundMeansExact == IInv => IncrementalIsExact
BY DEF IInv, AllSound, Sound, IncrementalIsExact

LEMMA InitSound == Init => IInv
<1> SUFFICES ASSUME Init PROVE IInv  OBVIOUS
<1>1. [exists |-> FALSE, epoch |-> 0, text |-> <<>>, tail |-> FALSE] \in Log
  BY ConstantsOK DEF Log
<1>2. EmptyIndex \in Index  BY DEF EmptyIndex, Index
<1>3. Nothing \in [Files -> [exists : BOOLEAN, epoch : 0..MaxEpoch, count : Nat]]
  BY ConstantsOK DEF Nothing
<1>4. Typed  BY <1>1, <1>2, <1>3 DEF Init, Typed, NoFile
<1>5. AllSound  BY DEF Init, AllSound, Sound, EmptyIndex
<1>6. StatSound /\ KeptSound /\ SeenSound
  BY DEF Init, StatSound, KeptSound, SeenSound, NoFile
<1> QED  BY <1>4, <1>5, <1>6 DEF IInv

LEMMA SizeOfLog ==
  ASSUME NEW l \in Log
  PROVE  /\ Len(l.text) \in Nat /\ Size(l) \in Nat
         /\ 2 * Len(l.text) <= Size(l) /\ Size(l) <= 2 * Len(l.text) + 1
<1>1. l.text \in Seq(Line)  BY DEF Log
<1>2. PICK n \in Nat : n = Len(l.text)  BY <1>1
<1>3. Size(l) = 2 * n \/ Size(l) = 2 * n + 1
  <2> DEFINE extra == IF l.tail THEN 1 ELSE 0
  <2>1. extra = 0 \/ extra = 1  OBVIOUS
  <2>2. Size(l) = 2 * n + extra  BY <1>2 DEF Size
  <2> HIDE DEF extra
  <2>3. 2 * n + 0 = 2 * n  OBVIOUS
  <2> QED  BY <2>1, <2>2, <2>3
<1> QED  BY <1>2, <1>3

\* What ReadFile makes of a checkpoint is sound, and reaches the end of the log.
LEMMA ReadSound ==
  ASSUME Typed, AllSound, NEW f \in Files, log[f].exists, stat.size <= Size(log[f])
  PROVE  LET cp == section[f]
             new == Read(f, IF Resumable(f, cp) THEN cp ELSE Beginning)
         IN  new \in Checkpoint /\ Sound(new, log[f])
<1> DEFINE cp == section[f]
           start == IF Resumable(f, cp) THEN cp ELSE Beginning
           text == log[f].text
           new == Read(f, start)
<1>1. /\ log[f] \in Log /\ text \in Seq(Line) /\ log[f].epoch \in 0 .. MaxEpoch
      /\ Len(text) \in Nat /\ stat.size \in Nat
  BY DEF Typed, Log
<1>2. /\ start.offset \in Nat /\ start.offset <= Len(text)
      /\ start.read = FromScratch(text, start.offset)
  <2>1. CASE ~Resumable(f, cp)
    BY <1>1, <2>1, ScratchOfNothing DEF Beginning
  <2>2. CASE Resumable(f, cp)
    <3>1. cp \in Checkpoint /\ Sound(cp, log[f]) /\ cp # NoCheckpoint
      BY <2>2 DEF Typed, Index, AllSound, Resumable
    <3>2. CASE cp.epoch = log[f].epoch  BY <2>2, <3>1, <3>2 DEF Sound, Checkpoint
    <3>3. CASE cp.offset = 0  BY <1>1, <2>2, <3>1, <3>3, ScratchOfNothing DEF Sound
    <3> QED  BY <2>2, <3>2, <3>3 DEF Resumable, SameFile
  <2> QED  BY <2>1, <2>2
<1>3. start.read \in Parse
  <2>1. CASE ~Resumable(f, cp)  BY <2>1, NothingTyped DEF Beginning
  <2>2. CASE Resumable(f, cp)
    <3>1. cp \in Checkpoint  BY <2>2 DEF Typed, Index, Resumable
    <3> QED  BY <2>2, <3>1 DEF Checkpoint
  <2> QED  BY <2>1, <2>2
<1> HIDE DEF start
<1> DEFINE read == ReadOn(start.read, text, start.offset)
<1>4. read \in Parse  BY <1>1, <1>2, <1>3, ReadOnTyped
<1>5. read = FromScratch(text, Len(text))  BY <1>1, <1>2, ResumeIsExact
<1>6. new = [epoch |-> log[f].epoch, size |-> stat.size, offset |-> Len(text), read |-> read]
  BY DEF Read
<1> HIDE DEF read, new
<1>7. new \in Checkpoint  BY <1>1, <1>4, <1>6 DEF Checkpoint
<1>8. new.size <= 2 * new.offset + 1
  <2>1. new.size = stat.size /\ new.offset = Len(text)  BY <1>6
  <2>2. Size(log[f]) <= 2 * Len(text) + 1 /\ Size(log[f]) \in Nat  BY <1>1, SizeOfLog
  <2> HIDE DEF text
  <2> QED  BY <1>1, <2>1, <2>2
<1>9. new.offset = 0 => new.read = NothingRead
  BY <1>1, <1>5, <1>6, ScratchOfNothing
<1>10. Sound(new, log[f])  BY <1>1, <1>5, <1>6, <1>8, <1>9 DEF Sound
<1> QED  BY <1>7, <1>10 DEF start, new

-----------------------------------------------------------------------------
(* What the command line tools do to a log.                                  *)

\* The log l becomes k: it is removed, it is rewritten, or lines are appended.
GoesOn(l, k) ==
    /\ k \in Log
    /\ l.epoch <= k.epoch
    /\ k.exists /\ k.epoch = l.epoch =>
         /\ l.exists
         /\ k.text = l.text \/ \E line \in Line : k.text = Append(l.text, line)
         /\ Size(l) <= Size(k)

LEMMA Appended ==
  ASSUME NEW text \in Seq(Line), NEW line \in Line, NEW n \in Nat, n <= Len(text)
  PROVE  /\ Append(text, line) \in Seq(Line)
         /\ Len(Append(text, line)) = Len(text) + 1
         /\ FromScratch(Append(text, line), n) = FromScratch(text, n)
<1>1. SubSeq(Append(text, line), 1, n) = SubSeq(text, 1, n)  OBVIOUS
<1>2. FromScratch(Append(text, line), n) = FromScratch(text, n)  BY <1>1 DEF FromScratch
<1>3. Append(text, line) \in Seq(Line) /\ Len(Append(text, line)) = Len(text) + 1
  OBVIOUS
<1> QED  BY <1>2, <1>3

\* A sound checkpoint stays one.
LEMMA SoundGoesOn ==
  ASSUME NEW cp \in Checkpoint \cup {NoCheckpoint}, NEW l \in Log, NEW k,
         Sound(cp, l), GoesOn(l, k)
  PROVE  Sound(cp, k)
<1> SUFFICES ASSUME cp # NoCheckpoint  PROVE Sound(cp, k)  BY DEF Sound
<1>1. /\ k \in Log /\ k.epoch \in Nat /\ l.epoch \in Nat
      /\ cp.epoch \in Nat /\ cp.offset \in Nat /\ l.text \in Seq(Line)
  BY ConstantsOK DEF GoesOn, Checkpoint, Log
<1>2. cp.epoch <= k.epoch  BY <1>1 DEF Sound, GoesOn
<1>3. ASSUME k.exists, cp.epoch = k.epoch
      PROVE  cp.offset <= Len(k.text) /\ cp.read = FromScratch(k.text, cp.offset)
  <2>1. l.epoch = k.epoch  BY <1>1, <1>3 DEF Sound, GoesOn
  <2>2. l.exists /\ (k.text = l.text \/ \E line \in Line : k.text = Append(l.text, line))
    BY <1>3, <2>1 DEF GoesOn
  <2>3. cp.offset <= Len(l.text) /\ cp.read = FromScratch(l.text, cp.offset)
    BY <1>3, <2>1, <2>2 DEF Sound
  <2>4. CASE k.text = l.text  BY <2>3, <2>4
  <2>5. CASE \E line \in Line : k.text = Append(l.text, line)
    <3>1. PICK line \in Line : k.text = Append(l.text, line)  BY <2>5
    <3>2. /\ Len(k.text) = Len(l.text) + 1
          /\ FromScratch(k.text, cp.offset) = FromScratch(l.text, cp.offset)
      BY <1>1, <2>3, <3>1, Appended
    <3>3. Len(l.text) \in Nat  BY <1>1
    <3> QED  BY <1>1, <2>3, <3>2, <3>3
  <2> QED  BY <2>2, <2>4, <2>5
<1> QED  BY <1>2, <1>3 DEF Sound

LEMMA SameGoesOn ==
  ASSUME NEW l \in Log
  PROVE  GoesOn(l, l)
<1>1. l.epoch \in Nat /\ Size(l) \in Nat  BY ConstantsOK, SizeOfLog DEF Log
<1> QED  BY <1>1 DEF GoesOn

\* A step of the tools changes one log.
LEMMA ToolsGoOn ==
  ASSUME Typed, Tools
  PROVE  /\ log' = [f \in Files |-> log'[f]]
         /\ \A f \in Files : GoesOn(log[f], log'[f])
         /\ \A f \in Files : stat.file = {f} => log'[f].epoch = log[f].epoch
         /\ UNCHANGED <<phase, index, disk, summary, scanVars>>
<1>1. \A f \in Files : log[f] \in Log /\ GoesOn(log[f], log[f])
  BY SameGoesOn DEF Typed
<1>2. log = [f \in Files |-> log[f]]  BY DEF Typed
<1>3. ASSUME NEW f \in Files, NEW line \in Line, WriteLine(f, line)
      PROVE  GoesOn(log[f], log'[f]) /\ log'[f].epoch = log[f].epoch
  <2> DEFINE l == log[f]
             k == IF l.tail THEN [l EXCEPT !.text = Append(l.text, line), !.tail = FALSE]
                            ELSE [l EXCEPT !.tail = TRUE]
  <2>0. log' = [log EXCEPT ![f] = k]  BY <1>3 DEF WriteLine
  <2>1. log'[f] = k
    <3> HIDE DEF k
    <3> QED  BY <1>2, <2>0
  <2>2. /\ l \in Log /\ l.text \in Seq(Line) /\ Append(l.text, line) \in Seq(Line)
        /\ l.epoch \in Nat /\ Len(l.text) \in Nat
        /\ Len(Append(l.text, line)) = Len(l.text) + 1
    BY <1>1, ConstantsOK DEF Log
  <2>3. k \in Log /\ k.exists = l.exists /\ k.epoch = l.epoch
    BY <2>2 DEF Log
  <2>4. CASE l.tail
    <3>1. k.text = Append(l.text, line)  BY <2>2, <2>4 DEF Log
    <3>2. Size(l) <= 2 * Len(l.text) + 1 /\ Size(l) \in Nat  BY <2>2, SizeOfLog
    <3>3. 2 * (Len(l.text) + 1) <= Size(k) /\ Size(k) \in Nat
      BY <2>2, <2>3, <3>1, SizeOfLog
    <3>4. Size(l) <= Size(k)  BY <2>2, <3>2, <3>3
    <3> HIDE DEF k
    <3> QED  BY <2>1, <2>2, <2>3, <3>1, <3>4 DEF GoesOn
  <2>5. CASE ~l.tail
    <3>1. k.text = l.text /\ k.tail  BY <2>2, <2>5 DEF Log
    <3>2. Size(l) = 2 * Len(l.text) + 0 /\ Size(k) = 2 * Len(l.text) + 1
      BY <2>5, <3>1 DEF Size
    <3>3. Size(l) <= Size(k)  BY <2>2, <3>2
    <3> HIDE DEF k
    <3> QED  BY <2>1, <2>2, <2>3, <3>1, <3>3 DEF GoesOn
  <2> QED  BY <2>4, <2>5
<1>4. ASSUME NEW f \in Files, NEW line \in Line, Rewrite(f, line)
      PROVE  GoesOn(log[f], log'[f]) /\ f \notin stat.file
  <2>1. /\ log'[f] = [exists |-> TRUE, epoch |-> log[f].epoch + 1,
                      text |-> <<line>>, tail |-> FALSE]
        /\ f \notin stat.file /\ log[f].epoch < MaxEpoch
    BY <1>2, <1>4 DEF Rewrite
  <2>2. log[f].epoch \in Nat /\ log[f].epoch + 1 \in 0 .. MaxEpoch
    BY <1>1, <2>1, ConstantsOK DEF Log
  <2>3. log'[f] \in Log  BY <2>1, <2>2 DEF Log
  <2> QED  BY <2>1, <2>2, <2>3 DEF GoesOn
<1>5. ASSUME NEW f \in Files, Delete(f)
      PROVE  GoesOn(log[f], log'[f]) /\ log'[f].epoch = log[f].epoch
  <2> DEFINE k == [exists |-> FALSE, epoch |-> log[f].epoch, text |-> <<>>, tail |-> FALSE]
  <2>1. log'[f] = k
    <3>1. log' = [log EXCEPT ![f] = k]  BY <1>5 DEF Delete
    <3> HIDE DEF k
    <3> QED  BY <1>2, <3>1
  <2>2. k \in Log /\ k.epoch = log[f].epoch /\ ~k.exists /\ log[f].epoch \in Nat
    <3>1. log[f].epoch \in 0 .. MaxEpoch /\ log[f].epoch \in Nat
      BY <1>1, ConstantsOK DEF Log
    <3> QED  BY <3>1 DEF Log
  <2> HIDE DEF k
  <2> QED  BY <2>1, <2>2 DEF GoesOn
<1>6. CASE \E f \in Files, line \in Line : WriteLine(f, line)
  <2>1. PICK f \in Files, line \in Line : WriteLine(f, line)  BY <1>6
  <2>2. \A g \in Files \ {f} : log'[g] = log[g]  BY <1>2, <2>1 DEF WriteLine
  <2>3. log' = [g \in Files |-> log'[g]]  BY <1>2, <2>1 DEF WriteLine
  <2>4. UNCHANGED <<phase, index, disk, summary, scanVars>>  BY <2>1 DEF WriteLine
  <2> QED  BY <1>1, <1>3, <2>1, <2>2, <2>3, <2>4
<1>7. CASE \E f \in Files, line \in Line : Rewrite(f, line)
  <2>1. PICK f \in Files, line \in Line : Rewrite(f, line)  BY <1>7
  <2>2. \A g \in Files \ {f} : log'[g] = log[g]  BY <1>2, <2>1 DEF Rewrite
  <2>3. log' = [g \in Files |-> log'[g]]  BY <1>2, <2>1 DEF Rewrite
  <2>4. UNCHANGED <<phase, index, disk, summary, scanVars>>  BY <2>1 DEF Rewrite
  <2> QED  BY <1>1, <1>4, <2>1, <2>2, <2>3, <2>4
<1>8. CASE \E f \in Files : Delete(f)
  <2>1. PICK f \in Files : Delete(f)  BY <1>8
  <2>2. \A g \in Files \ {f} : log'[g] = log[g]  BY <1>2, <2>1 DEF Delete
  <2>3. log' = [g \in Files |-> log'[g]]  BY <1>2, <2>1 DEF Delete
  <2>4. UNCHANGED <<phase, index, disk, summary, scanVars>>  BY <2>1 DEF Delete
  <2> QED  BY <1>1, <1>5, <2>1, <2>2, <2>3, <2>4
<1> QED  BY <1>6, <1>7, <1>8 DEF Tools

LEMMA ToolsSound ==
  ASSUME IInv, Tools
  PROVE  IInv'
<1>1. /\ log' = [f \in Files |-> log'[f]]
      /\ \A f \in Files : GoesOn(log[f], log'[f])
      /\ \A f \in Files : stat.file = {f} => log'[f].epoch = log[f].epoch
      /\ UNCHANGED <<phase, index, disk, summary, section, todo, stat, failed, listed, seen>>
  BY ToolsGoOn DEF IInv, scanVars
<1>2. Typed'  BY <1>1 DEF IInv, Typed, GoesOn
<1>3. AllSound'
  <2>1. \A f \in Files : /\ index[f] \in Checkpoint \cup {NoCheckpoint}
                         /\ disk[f] \in Checkpoint \cup {NoCheckpoint}
                         /\ section[f] \in Checkpoint \cup {NoCheckpoint}
                         /\ log[f] \in Log
    BY DEF IInv, Typed, Index
  <2> QED  BY <1>1, <2>1, SoundGoesOn DEF IInv, AllSound
<1>4. ASSUME NEW f \in Files
      PROVE  /\ log[f] \in Log /\ log'[f] \in Log
             /\ Size(log[f]) \in Nat /\ Size(log'[f]) \in Nat
             /\ Len(log[f].text) \in Nat /\ Len(log'[f].text) \in Nat
             /\ log[f].epoch \in Nat /\ log'[f].epoch \in Nat
             /\ seen[f].epoch \in Nat /\ seen[f].count \in Nat /\ stat.size \in Nat
             /\ log[f].epoch <= log'[f].epoch
             /\ log'[f].exists /\ log'[f].epoch = log[f].epoch =>
                  /\ log[f].exists
                  /\ Size(log[f]) <= Size(log'[f])
                  /\ Len(log[f].text) <= Len(log'[f].text)
  <2>1. log[f] \in Log /\ log'[f] \in Log  BY <1>1 DEF IInv, Typed, GoesOn
  <2>2. /\ log[f].epoch \in Nat /\ log'[f].epoch \in Nat /\ log[f].text \in Seq(Line)
        /\ seen[f].epoch \in Nat /\ seen[f].count \in Nat /\ stat.size \in Nat
    BY <2>1, ConstantsOK DEF Log, IInv, Typed
  <2>3. /\ Size(log[f]) \in Nat /\ Size(log'[f]) \in Nat
        /\ Len(log[f].text) \in Nat /\ Len(log'[f].text) \in Nat
    BY <2>1, SizeOfLog
  <2>4. ASSUME log'[f].exists, log'[f].epoch = log[f].epoch
        PROVE  /\ log[f].exists /\ Size(log[f]) <= Size(log'[f])
               /\ Len(log[f].text) <= Len(log'[f].text)
    <3>1. /\ log[f].exists /\ Size(log[f]) <= Size(log'[f])
          /\ \/ log'[f].text = log[f].text
             \/ \E line \in Line : log'[f].text = Append(log[f].text, line)
      BY <1>1, <2>4 DEF GoesOn
    <3>2. CASE log'[f].text = log[f].text  BY <2>3, <3>1, <3>2
    <3>3. CASE \E line \in Line : log'[f].text = Append(log[f].text, line)
      <4>1. PICK line \in Line : log'[f].text = Append(log[f].text, line)  BY <3>3
      <4>2. Len(log'[f].text) = Len(log[f].text) + 1  BY <2>2, <4>1
      <4> QED  BY <2>3, <3>1, <4>2
    <3> QED  BY <3>1, <3>2, <3>3
  <2> QED  BY <1>1, <2>1, <2>2, <2>3, <2>4 DEF GoesOn
<1>5. StatSound'
  <2> SUFFICES ASSUME NEW f \in Files, stat.file = {f}, log'[f].exists
               PROVE  stat.size <= Size(log'[f])
    BY <1>1 DEF IInv, StatSound
  <2>1. log'[f].epoch = log[f].epoch  BY <1>1
  <2>2. stat.size <= Size(log[f])  BY <1>4, <2>1 DEF IInv, StatSound
  <2> QED  BY <1>4, <2>1, <2>2
<1>6. KeptSound'
  <2> SUFFICES ASSUME NEW f \in Files, phase = "scanning", index[f] # NoCheckpoint,
                      log'[f].exists, log'[f].epoch = index[f].epoch
               PROVE  section[f] # NoCheckpoint /\ section[f].offset >= index[f].offset
    BY <1>1 DEF KeptSound, Same
  <2>1. index[f].epoch <= log[f].epoch /\ index[f].epoch \in Nat
    BY ConstantsOK DEF IInv, AllSound, Sound, Typed, Index, Checkpoint
  <2>2. log[f].exists /\ log[f].epoch = index[f].epoch  BY <1>4, <2>1
  <2> QED  BY <2>2 DEF IInv, KeptSound, Same
<1>7. SeenSound'
  <2> SUFFICES ASSUME NEW f \in Files, phase = "scanning"
               PROVE  /\ seen[f].epoch <= log'[f].epoch
                      /\ seen[f].exists /\ log'[f].exists /\ log'[f].epoch = seen[f].epoch =>
                           /\ log[f].exists /\ log[f].epoch = seen[f].epoch
                           /\ seen[f].count <= Len(log'[f].text)
    BY <1>1 DEF IInv, SeenSound, Same
  <2>1. seen[f].epoch <= log[f].epoch  BY DEF IInv, SeenSound
  <2>2. seen[f].epoch <= log'[f].epoch  BY <1>4, <2>1
  <2>3. ASSUME seen[f].exists, log'[f].exists, log'[f].epoch = seen[f].epoch
        PROVE  /\ log[f].exists /\ log[f].epoch = seen[f].epoch
               /\ seen[f].count <= Len(log'[f].text)
    <3>1. log[f].epoch = seen[f].epoch  BY <1>4, <2>1, <2>3
    <3>2. log[f].exists /\ Len(log[f].text) <= Len(log'[f].text)  BY <1>4, <2>3, <3>1
    <3>3. seen[f].count <= Len(log[f].text)
      BY <2>3, <3>1, <3>2 DEF IInv, SeenSound, Same
    <3> QED  BY <1>4, <3>1, <3>2, <3>3
  <2> QED  BY <2>2, <2>3
<1> QED  BY <1>2, <1>3, <1>5, <1>6, <1>7 DEF IInv

-----------------------------------------------------------------------------
(* The steps of the process.                                                 *)

LEMMA EmptySound == EmptyIndex \in Index /\ \A f \in Files : Sound(EmptyIndex[f], log[f])
BY DEF EmptyIndex, Index, Sound

LEMMA NothingSeen == Nothing \in [Files -> [exists : BOOLEAN, epoch : 0..MaxEpoch, count : Nat]]
BY ConstantsOK DEF Nothing

LEMMA LaunchSound ==
  ASSUME IInv, Launch
  PROVE  IInv'
<1>1. /\ index' = disk \/ index' = EmptyIndex
      /\ phase' = "idle" /\ phase = "off"
      /\ UNCHANGED <<log, disk, section, todo, stat, failed, listed, seen>>
  BY DEF Launch, scanVars
<1>2. Typed'  BY <1>1, EmptySound DEF IInv, Typed
<1>3. AllSound'  BY <1>1, EmptySound DEF IInv, AllSound
<1>4. StatSound' /\ KeptSound' /\ SeenSound'
  BY <1>1 DEF IInv, StatSound, KeptSound, SeenSound
<1> QED  BY <1>2, <1>3, <1>4 DEF IInv

LEMMA TerminateSound ==
  ASSUME IInv, Terminate
  PROVE  IInv'
<1>1. Typed'  BY EmptySound, NothingSeen DEF IInv, Typed, Terminate, NoFile
<1>2. AllSound'  BY EmptySound DEF IInv, AllSound, Terminate
<1>3. StatSound' /\ KeptSound' /\ SeenSound'
  BY DEF Terminate, StatSound, KeptSound, SeenSound, NoFile
<1> QED  BY <1>1, <1>2, <1>3 DEF IInv

LEMMA BeginScanSound ==
  ASSUME IInv, NEW found \in SUBSET Files, NEW ok \in BOOLEAN, BeginScan(found, ok)
  PROVE  IInv'
<1>1. /\ section' = [f \in Files |-> IF ok /\ f \notin found THEN NoCheckpoint ELSE index[f]]
      /\ phase = "idle" /\ phase' = "scanning"
      /\ todo' = found /\ failed' = {} /\ listed' = ok
      /\ UNCHANGED <<log, index, disk, stat>>
  BY DEF BeginScan, Kept
<1>2. /\ seen' = [f \in Files |-> [exists |-> log[f].exists, epoch |-> log[f].epoch,
                                   count |-> Len(log[f].text)]]
      /\ \A f \in Files : f \in found => log[f].exists
      /\ ok => \A f \in Files : f \in found <=> log[f].exists
  BY DEF BeginScan
<1>3. \A f \in Files : /\ log[f].exists \in BOOLEAN /\ log[f].epoch \in 0 .. MaxEpoch
                       /\ log[f].epoch \in Nat /\ Len(log[f].text) \in Nat
  BY ConstantsOK, SizeOfLog DEF IInv, Typed, Log
<1>4. stat = NoFile  BY <1>1 DEF IInv, StatSound
<1>5. Typed'
  <2>1. seen' \in [Files -> [exists : BOOLEAN, epoch : 0..MaxEpoch, count : Nat]]
    BY <1>2, <1>3
  <2>2. section' \in Index  BY <1>1 DEF IInv, Typed, Index
  <2> QED  BY <1>1, <2>1, <2>2 DEF IInv, Typed
<1>6. AllSound'
  <2>1. \A f \in Files : section'[f] = index[f] \/ section'[f] = NoCheckpoint  BY <1>1
  <2> QED  BY <1>1, <2>1 DEF IInv, AllSound, Sound
<1>7. StatSound'  BY <1>1, <1>4 DEF StatSound, NoFile
<1>8. KeptSound'
  <2> SUFFICES ASSUME NEW f \in Files, index[f] # NoCheckpoint, log[f].exists
               PROVE  section'[f] = index[f] /\ index[f].offset \in Nat
    BY <1>1 DEF KeptSound, Same
  <2>1. section'[f] = index[f]  BY <1>1, <1>2
  <2> QED  BY <2>1 DEF IInv, Typed, Index, Checkpoint
<1>9. SeenSound'
  <2> SUFFICES ASSUME NEW f \in Files
               PROVE  /\ seen'[f].epoch <= log[f].epoch
                      /\ seen'[f].exists => seen'[f].count <= Len(log[f].text)
                      /\ stat.file # {f}
                      /\ seen'[f].exists /\ ok => f \in found
                      /\ ok /\ ~seen'[f].exists => section'[f] = NoCheckpoint /\ f \notin found
    BY <1>1 DEF SeenSound, Same
  <2>1. seen'[f] = [exists |-> log[f].exists, epoch |-> log[f].epoch,
                    count |-> Len(log[f].text)]
    BY <1>2
  <2>2. seen'[f].epoch <= log[f].epoch /\ seen'[f].count <= Len(log[f].text)
    BY <1>3, <2>1
  <2>3. seen'[f].exists = log[f].exists  BY <2>1
  <2>4. stat.file # {f}  BY <1>4 DEF NoFile
  <2>5. ok /\ ~log[f].exists => section'[f] = NoCheckpoint /\ f \notin found
    BY <1>1, <1>2
  <2> QED  BY <1>2, <2>2, <2>3, <2>4, <2>5
<1> QED  BY <1>5, <1>6, <1>7, <1>8, <1>9 DEF IInv

LEMMA StatStepSound ==
  ASSUME IInv, NEW f \in Files, Stat(f)
  PROVE  IInv'
<1>1. /\ stat' = [file |-> {f}, size |-> Size(log[f])]
      /\ phase = "scanning" /\ f \in todo /\ log[f].exists
      /\ UNCHANGED <<log, phase, index, disk, section, todo, failed, listed, seen>>
  BY DEF Stat
<1>2. /\ Size(log[f]) \in Nat /\ 2 * Len(log[f].text) <= Size(log[f])
      /\ Len(log[f].text) \in Nat
  BY SizeOfLog DEF IInv, Typed
<1>3. Typed'  BY <1>1, <1>2 DEF IInv, Typed
<1>4. AllSound' /\ KeptSound'  BY <1>1 DEF IInv, AllSound, KeptSound, Same
<1>5. StatSound'
  <2>1. \A g \in Files : stat'.file = {g} => g = f  BY <1>1
  <2>2. Size(log[f]) <= Size(log[f])  BY <1>2
  <2>3. stat'.size = Size(log[f])  BY <1>1
  <2> QED  BY <1>1, <2>1, <2>2, <2>3 DEF StatSound
<1>6. SeenSound'
  <2> SUFFICES ASSUME NEW g \in Files, stat'.file = {g}, seen[g].exists,
                      Same(g, seen[g].epoch)
               PROVE  2 * seen[g].count <= stat'.size
    BY <1>1 DEF IInv, SeenSound, Same
  <2>1. g = f  BY <1>1
  <2>2. seen[g].count <= Len(log[g].text) /\ seen[g].count \in Nat
    BY <1>1 DEF IInv, SeenSound, Typed
  <2>3. stat'.size = Size(log[g])  BY <1>1, <2>1
  <2> QED  BY <1>2, <2>1, <2>2, <2>3
<1> QED  BY <1>3, <1>4, <1>5, <1>6 DEF IInv

LEMMA UnreadableSound ==
  ASSUME IInv, NEW f \in Files, Unreadable(f)
  PROVE  IInv'
<1>1. /\ stat' = NoFile /\ todo' = todo \ {f} /\ failed' = failed \cup {f}
      /\ phase = "scanning"
      /\ UNCHANGED <<log, phase, index, disk, section, listed, seen>>
  BY DEF Unreadable
<1>2. Typed'  BY <1>1 DEF IInv, Typed, NoFile
<1>3. AllSound' /\ KeptSound'  BY <1>1 DEF IInv, AllSound, KeptSound, Same
<1>4. StatSound'  BY <1>1 DEF StatSound, NoFile
<1>5. SeenSound'
  <2>1. \A g \in Files : stat'.file # {g}  BY <1>1 DEF NoFile
  <2>2. \A g \in Files : g \notin todo' /\ g \notin failed' => g \notin todo /\ g \notin failed
    BY <1>1
  <2>3. \A g \in Files : g \notin todo => g \notin todo'  BY <1>1
  <2> QED  BY <1>1, <2>1, <2>2, <2>3 DEF IInv, SeenSound, Same
<1> QED  BY <1>2, <1>3, <1>4, <1>5 DEF IInv

LEMMA ReadFileSound ==
  ASSUME IInv, NEW f \in Files, NEW touched \in BOOLEAN, ReadFile(f, touched)
  PROVE  IInv'
<1> DEFINE cp == section[f]
           new == Read(f, IF Resumable(f, cp) THEN cp ELSE Beginning)
           kept == Unchanged(f, cp) /\ ~touched
           text == log[f].text
<1>1. /\ section' = [section EXCEPT ![f] = IF kept THEN cp ELSE new]
      /\ phase = "scanning" /\ stat.file = {f} /\ log[f].exists
      /\ stat' = NoFile /\ todo' = todo \ {f}
      /\ failed \subseteq failed'
      /\ UNCHANGED <<log, phase, index, disk, listed, seen>>
  BY DEF ReadFile
<1>2. stat.size <= Size(log[f]) /\ f \in todo  BY <1>1 DEF IInv, StatSound
<1>3. new \in Checkpoint /\ Sound(new, log[f])
  BY <1>1, <1>2, ReadSound DEF IInv
<1>4. new # NoCheckpoint  BY <1>3, NotScannedOK
<1>5. /\ new.epoch = log[f].epoch /\ new.offset = Len(text)
      /\ text \in Seq(Line) /\ Len(text) \in Nat
  BY DEF Read, IInv, Typed, Log
<1>6. kept => /\ cp \in Checkpoint /\ cp # NoCheckpoint /\ Sound(cp, log[f])
              /\ cp.epoch = log[f].epoch /\ cp.size = stat.size
              /\ cp.offset \in Nat
  BY DEF Unchanged, IInv, Typed, Index, AllSound, Checkpoint
<1>7. section'[f] = (IF kept THEN cp ELSE new) /\ \A g \in Files \ {f} : section'[g] = section[g]
  BY <1>1 DEF IInv, Typed, Index
<1>8. /\ section'[f] \in Checkpoint /\ section'[f] # NoCheckpoint
      /\ Sound(section'[f], log[f]) /\ section'[f].epoch = log[f].epoch
  <2>1. CASE kept  BY <1>6, <1>7, <2>1
  <2>2. CASE ~kept  BY <1>3, <1>4, <1>5, <1>7, <2>2
  <2> QED  BY <2>1, <2>2
<1> HIDE DEF kept, new, cp
<1>9. Typed'  BY <1>1, <1>8 DEF IInv, Typed, Index, NoFile
<1>10. AllSound'  BY <1>1, <1>7, <1>8 DEF IInv, AllSound
<1>11. StatSound'  BY <1>1 DEF StatSound, NoFile
<1>12. KeptSound'
  <2> SUFFICES ASSUME index[f] # NoCheckpoint, log[f].epoch = index[f].epoch
               PROVE  section'[f].offset >= index[f].offset
    BY <1>1, <1>7, <1>8 DEF IInv, KeptSound, Same
  <2>1. index[f].offset <= Len(text) /\ index[f].offset \in Nat
    BY <1>1 DEF IInv, AllSound, Sound, Typed, Index, Checkpoint
  <2>2. CASE kept
    <3>1. cp.offset >= index[f].offset
      BY <1>1 DEF IInv, KeptSound, Same, cp
    <3> QED  BY <1>7, <2>2, <3>1
  <2>3. CASE ~kept  BY <1>5, <1>7, <2>1, <2>3
  <2> QED  BY <2>2, <2>3
<1>13. SeenSound'
  <2>1. ASSUME seen[f].exists, Same(f, seen[f].epoch)
        PROVE  section'[f].offset >= seen[f].count
    <3>1. /\ seen[f].count <= Len(text) /\ 2 * seen[f].count <= stat.size
          /\ seen[f].count \in Nat
      BY <1>1, <2>1 DEF IInv, SeenSound, Typed
    <3>2. CASE kept
      <4>1. stat.size <= 2 * cp.offset + 1  BY <1>6, <3>2 DEF Sound
      <4>2. cp.offset \in Nat /\ stat.size \in Nat  BY <1>6, <3>2 DEF IInv, Typed
      <4>3. cp.offset >= seen[f].count  BY <3>1, <4>1, <4>2
      <4> QED  BY <1>7, <3>2, <4>3
    <3>3. CASE ~kept  BY <1>5, <1>7, <3>1, <3>3
    <3> QED  BY <3>2, <3>3
  <2>2. \A g \in Files : stat'.file # {g}  BY <1>1 DEF NoFile
  <2>3. ASSUME NEW g \in Files, g # f
        PROVE  /\ section'[g] = section[g]
               /\ g \notin todo' /\ g \notin failed' => g \notin todo /\ g \notin failed
               /\ g \notin todo => g \notin todo'
    BY <1>1, <1>7, <2>3
  <2>4. listed => seen[f].exists  BY <1>1, <1>2 DEF IInv, SeenSound
  <2> QED  BY <1>1, <1>8, <2>1, <2>2, <2>3, <2>4 DEF IInv, SeenSound, Same
<1> QED  BY <1>9, <1>10, <1>11, <1>12, <1>13 DEF IInv

LEMMA EndScanSound ==
  ASSUME IInv, NEW saved \in BOOLEAN, EndScan(saved)
  PROVE  IInv'
<1>1. /\ phase' = "idle" /\ index' = section /\ disk' \in {section, disk}
      /\ section' = EmptyIndex /\ seen' = Nothing /\ stat = NoFile
      /\ UNCHANGED <<log, todo, stat>>
  BY DEF EndScan
<1>2. Typed'  BY <1>1, EmptySound, NothingSeen DEF IInv, Typed
<1>3. AllSound'  BY <1>1, EmptySound DEF IInv, AllSound
<1>4. StatSound' /\ KeptSound' /\ SeenSound'
  BY <1>1 DEF StatSound, KeptSound, SeenSound, NoFile
<1> QED  BY <1>2, <1>3, <1>4 DEF IInv

LEMMA StepSound == IInv /\ [Next]_vars => IInv'
<1> SUFFICES ASSUME IInv, [Next]_vars PROVE IInv'  OBVIOUS
<1>1. CASE Tools  BY <1>1, ToolsSound
<1>2. CASE Launch  BY <1>2, LaunchSound
<1>3. CASE Terminate  BY <1>3, TerminateSound
<1>4. CASE Scan
  BY <1>4, BeginScanSound, StatStepSound, UnreadableSound, ReadFileSound, EndScanSound
     DEF Scan
<1>5. CASE UNCHANGED vars
  BY <1>5 DEF vars, IInv, Typed, AllSound, StatSound, KeptSound, SeenSound, Same
<1> QED  BY <1>1, <1>2, <1>3, <1>4, <1>5 DEF Next

LEMMA Invariant == Spec => []IInv
<1> QED  BY InitSound, StepSound, PTL DEF Spec

-----------------------------------------------------------------------------
(* The total: the recursive function of Total is a number for every set.     *)

UpTo(K, n) == {S \in SUBSET K : Cardinality(S) <= n}

\* g adds what the checkpoints say, for the sets of at most n of the files K.
Sums(g, checkpoints, K, n) ==
    g = [S \in UpTo(K, n) |->
           IF S = {} THEN 0
           ELSE LET f == CHOOSE x \in S : TRUE
                IN  checkpoints[f].read.sum + g[S \ {f}]]

LEMMA Removed ==
  ASSUME NEW K, IsFiniteSet(K), NEW S \in SUBSET K, S # {}
  PROVE  /\ (CHOOSE x \in S : TRUE) \in S
         /\ S \ {CHOOSE x \in S : TRUE} \in SUBSET K
         /\ Cardinality(S \ {CHOOSE x \in S : TRUE}) = Cardinality(S) - 1
         /\ Cardinality(S) \in Nat /\ Cardinality(S) # 0
<1>1. IsFiniteSet(S)  BY FS_Subset
<1>2. (CHOOSE x \in S : TRUE) \in S  OBVIOUS
<1>3. Cardinality(S) \in Nat /\ Cardinality(S) # 0
  BY <1>1, FS_CardinalityType, FS_EmptySet
<1> QED  BY <1>1, <1>2, <1>3, FS_RemoveElement

LEMMA SumsExist ==
  ASSUME NEW K, IsFiniteSet(K), NEW checkpoints, NEW n \in Nat
  PROVE  \E g : Sums(g, checkpoints, K, n)
<1> DEFINE T == {k \in Nat : ~\E g : Sums(g, checkpoints, K, k)}
<1> SUFFICES ASSUME T # {} PROVE FALSE  OBVIOUS
<1>1. PICK m \in T : \A k \in T : m <= k
  <2>1. T \in SUBSET Nat  OBVIOUS
  <2> HIDE DEF T
  <2> QED  BY <2>1, Smallest
<1>2. m \in Nat /\ ~\E g : Sums(g, checkpoints, K, m)  OBVIOUS
<1> DEFINE pick(S) == CHOOSE x \in S : TRUE
<1>3. CASE m = 0
  <2> DEFINE g == [S \in UpTo(K, 0) |-> 0]
  <2>1. \A S \in UpTo(K, 0) : S = {}
    <3> SUFFICES ASSUME NEW S \in UpTo(K, 0), S # {} PROVE FALSE  OBVIOUS
    <3>1. S \in SUBSET K /\ Cardinality(S) <= 0  BY DEF UpTo
    <3>2. Cardinality(S) \in Nat /\ Cardinality(S) # 0  BY <3>1, Removed
    <3> QED  BY <3>1, <3>2
  <2>2. Sums(g, checkpoints, K, 0)  BY <2>1 DEF Sums
  <2> QED  BY <1>2, <1>3, <2>2
<1>4. CASE m # 0
  <2>1. m - 1 \in Nat /\ m - 1 \notin T  BY <1>1, <1>2, <1>4
  <2>2. PICK h : Sums(h, checkpoints, K, m - 1)  BY <2>1
  <2> DEFINE g == [S \in UpTo(K, m) |->
                     IF S = {} THEN 0 ELSE checkpoints[pick(S)].read.sum + h[S \ {pick(S)}]]
  <2>3. \A S \in UpTo(K, m - 1) :
          h[S] = IF S = {} THEN 0 ELSE checkpoints[pick(S)].read.sum + h[S \ {pick(S)}]
    BY <2>2 DEF Sums
  <2>4. \A S \in UpTo(K, m - 1) : S \in UpTo(K, m) /\ g[S] = h[S]
    <3> SUFFICES ASSUME NEW S \in UpTo(K, m - 1) PROVE S \in UpTo(K, m) /\ g[S] = h[S]
      OBVIOUS
    <3>1. S \in SUBSET K /\ Cardinality(S) <= m - 1  BY DEF UpTo
    <3>2. Cardinality(S) \in Nat  BY <3>1, FS_Subset, FS_CardinalityType
    <3>3. Cardinality(S) <= m  BY <1>2, <2>1, <3>1, <3>2
    <3>4. S \in UpTo(K, m)  BY <3>1, <3>3 DEF UpTo
    <3> QED  BY <2>3, <3>4
  <2>5. \A S \in UpTo(K, m) : S # {} => S \ {pick(S)} \in UpTo(K, m - 1)
    <3> SUFFICES ASSUME NEW S \in UpTo(K, m), S # {}
                 PROVE  S \ {pick(S)} \in UpTo(K, m - 1)
      OBVIOUS
    <3>1. S \in SUBSET K /\ Cardinality(S) <= m  BY DEF UpTo
    <3>2. /\ S \ {pick(S)} \in SUBSET K
          /\ Cardinality(S \ {pick(S)}) = Cardinality(S) - 1 /\ Cardinality(S) \in Nat
      BY <3>1, Removed
    <3>3. Cardinality(S \ {pick(S)}) <= m - 1  BY <1>2, <3>1, <3>2
    <3> QED  BY <3>2, <3>3 DEF UpTo
  <2>6. g = [S \in UpTo(K, m) |->
              IF S = {} THEN 0 ELSE checkpoints[pick(S)].read.sum + g[S \ {pick(S)}]]
    <3>1. ASSUME NEW S \in UpTo(K, m), S # {}
          PROVE  g[S] = checkpoints[pick(S)].read.sum + g[S \ {pick(S)}]
      <4>1. g[S] = checkpoints[pick(S)].read.sum + h[S \ {pick(S)}]  BY <3>1
      <4>2. S \ {pick(S)} \in UpTo(K, m - 1)  BY <2>5, <3>1
      <4>3. g[S \ {pick(S)}] = h[S \ {pick(S)}]
        <5> HIDE DEF g
        <5> QED  BY <2>4, <4>2
      <4> HIDE DEF g, pick
      <4> QED  BY <4>1, <4>3
    <3>2. \A S \in UpTo(K, m) : S = {} => g[S] = 0  OBVIOUS
    <3>3. g = [S \in UpTo(K, m) |-> g[S]]  OBVIOUS
    <3> HIDE DEF g, pick
    <3> QED  BY <3>1, <3>2, <3>3
  <2> HIDE DEF g
  <2>7. Sums(g, checkpoints, K, m)  BY <2>6 DEF Sums
  <2> QED  BY <1>2, <2>7
<1> QED  BY <1>3, <1>4

LEMMA SumsAreNumbers ==
  ASSUME NEW K, IsFiniteSet(K), NEW checkpoints, NEW n \in Nat, NEW g,
         Sums(g, checkpoints, K, n), \A f \in K : checkpoints[f].read.sum \in Nat
  PROVE  \A S \in UpTo(K, n) : g[S] \in Nat
<1> DEFINE T == {k \in Nat : \E S \in UpTo(K, n) : Cardinality(S) = k /\ g[S] \notin Nat}
<1>1. T = {}
  <2> SUFFICES ASSUME T # {} PROVE FALSE  OBVIOUS
  <2>1. PICK m \in T : \A k \in T : m <= k
    <3>1. T \in SUBSET Nat  OBVIOUS
    <3> HIDE DEF T
    <3> QED  BY <3>1, Smallest
  <2>2. PICK S \in UpTo(K, n) : Cardinality(S) = m /\ g[S] \notin Nat  OBVIOUS
  <2> DEFINE f == CHOOSE x \in S : TRUE
             R == S \ {f}
  <2>3. g[S] = IF S = {} THEN 0 ELSE checkpoints[f].read.sum + g[R]  BY DEF Sums
  <2>4. S # {}  BY <2>2, <2>3
  <2>5. S \in SUBSET K /\ Cardinality(S) <= n  BY DEF UpTo
  <2>6. /\ f \in S /\ R \in SUBSET K /\ Cardinality(R) = Cardinality(S) - 1
        /\ Cardinality(S) \in Nat /\ Cardinality(S) # 0
    BY <2>4, <2>5, Removed
  <2>7. checkpoints[f].read.sum \in Nat  BY <2>5, <2>6
  <2> HIDE DEF f, R
  <2>8. R \in UpTo(K, n)  BY <2>5, <2>6 DEF UpTo
  <2>9. Cardinality(R) \in Nat /\ Cardinality(R) < m  BY <2>2, <2>6
  <2>10. Cardinality(R) \notin T  BY <2>1, <2>9
  <2>11. g[R] \in Nat  BY <2>8, <2>9, <2>10
  <2> QED  BY <2>2, <2>3, <2>4, <2>7, <2>11
<1> HIDE DEF T
<1>2. ASSUME NEW S \in UpTo(K, n) PROVE g[S] \in Nat
  <2>1. Cardinality(S) \in Nat  BY FS_Subset, FS_CardinalityType DEF UpTo
  <2> QED  BY <1>1, <2>1 DEF T
<1> QED  BY <1>2

LEMMA TotalIsNumber ==
  ASSUME NEW checkpoints \in Index
  PROVE  Total(checkpoints) \in Nat
<1> DEFINE Known == {f \in Files : checkpoints[f] # NoCheckpoint}
           n == Cardinality(Known)
           g == CHOOSE g : Sums(g, checkpoints, Known, n)
<1>1. IsFiniteSet(Known) /\ n \in Nat
  <2>1. Known \in SUBSET Files  OBVIOUS
  <2> HIDE DEF Known
  <2> QED  BY <2>1, ConstantsOK, FS_Subset, FS_CardinalityType
<1>2. \A f \in Known : checkpoints[f].read.sum \in Nat
  BY DEF Index, Checkpoint, Parse
<1>3. UpTo(Known, n) = SUBSET Known
  <2> HIDE DEF Known
  <2>1. \A S \in SUBSET Known : Cardinality(S) <= n  BY <1>1, FS_Subset
  <2> QED  BY <2>1 DEF UpTo
<1>4. Total(checkpoints) = g[Known]
  <2>1. g = CHOOSE sums : sums = [S \in SUBSET Known |->
                IF S = {} THEN 0
                ELSE LET f == CHOOSE x \in S : TRUE
                     IN  checkpoints[f].read.sum + sums[S \ {f}]]
    <3> HIDE DEF Known
    <3> QED  BY <1>3 DEF Sums
  <2> QED  BY <2>1 DEF Total
<1> HIDE DEF Known, n, g
<1>5. Sums(g, checkpoints, Known, n)  BY <1>1, SumsExist DEF g
<1>6. Known \in UpTo(Known, n)  BY <1>3
<1>7. g[Known] \in Nat  BY <1>1, <1>2, <1>5, <1>6, SumsAreNumbers
<1> QED  BY <1>4, <1>7

-----------------------------------------------------------------------------
(* The theorems.                                                             *)

\* What the types say beyond Typed.
Shown ==
    /\ phase \in {"off", "idle", "scanning"}
    /\ failed \subseteq Files
    /\ listed \in BOOLEAN
    /\ summary \in [total : Nat, partial : BOOLEAN]

LEMMA ShownStep == Typed /\ Shown /\ [Next]_vars => Shown'
<1> SUFFICES ASSUME Typed, Shown, [Next]_vars PROVE Shown'  OBVIOUS
<1> USE DEF Shown
<1>1. CASE Tools  BY <1>1 DEF Tools, WriteLine, Rewrite, Delete, scanVars
<1>2. CASE Launch  BY <1>2 DEF Launch, scanVars
<1>3. CASE Terminate  BY <1>3 DEF Terminate, NoSummary
<1>4. ASSUME NEW found \in SUBSET Files, NEW ok \in BOOLEAN, BeginScan(found, ok)
      PROVE  Shown'
  BY <1>4 DEF BeginScan
<1>5. ASSUME NEW f \in Files, Stat(f) PROVE Shown'  BY <1>5 DEF Stat
<1>6. ASSUME NEW f \in Files, Unreadable(f) PROVE Shown'  BY <1>6 DEF Unreadable
<1>7. ASSUME NEW f \in Files, NEW touched \in BOOLEAN, ReadFile(f, touched)
      PROVE  Shown'
  <2>1. failed' \subseteq failed \cup {f} /\ UNCHANGED <<phase, listed, summary>>
    BY <1>7 DEF ReadFile
  <2> QED  BY <2>1
<1>8. ASSUME NEW saved \in BOOLEAN, EndScan(saved) PROVE Shown'
  <2>1. Total(section) \in Nat  BY TotalIsNumber DEF Typed
  <2>2. summary' = [total |-> Total(section), partial |-> ~listed \/ failed # {}]
    BY <1>8, Zenon DEF EndScan
  <2>3. (~listed \/ failed # {}) \in BOOLEAN  OBVIOUS
  <2>4. summary' \in [total : Nat, partial : BOOLEAN]  BY <2>1, <2>2, <2>3
  <2>5. phase' = "idle" /\ failed' = {} /\ listed' = TRUE  BY <1>8 DEF EndScan
  <2> QED  BY <2>4, <2>5
<1>9. CASE UNCHANGED vars  BY <1>9 DEF vars
<1> QED  BY <1>1, <1>2, <1>3, <1>4, <1>5, <1>6, <1>7, <1>8, <1>9 DEF Next, Scan

\* Every state of the scanner is well typed, for all logs and bounds.
THEOREM TypeCorrect == Spec => []TypeOK
<1>1. Init => Shown  BY DEF Init, Shown, NoSummary
<1>2. IInv /\ Shown => TypeOK  BY DEF IInv, Typed, Shown, TypeOK
<1>3. IInv => Typed  BY DEF IInv
<1> QED  BY <1>1, <1>2, <1>3, InitSound, StepSound, ShownStep, PTL DEF Spec

\* A checkpoint always says what reading the log from scratch up to its offset
\* says, as long as the log is not rewritten, whatever resumes, failures, crashes
\* and restarts of the scanner led to it.
THEOREM ExactSafe == Spec => []IncrementalIsExact
<1> QED  BY Invariant, SoundMeansExact, PTL

\* A scan never loses what an earlier one has read of a log that is still there.
THEOREM NothingForgotten == Spec => NothingIsForgotten
<1>1. ASSUME IInv, [Next]_vars, phase = "scanning", phase' = "idle", NEW f \in Files,
             index[f] # NoCheckpoint, log[f].exists, index[f].epoch = log[f].epoch
      PROVE  index'[f] # NoCheckpoint /\ index'[f].offset >= index[f].offset
  <2>1. index' = section
    BY <1>1 DEF Next, Tools, Scan, WriteLine, Rewrite, Delete, Launch, Terminate,
                BeginScan, Stat, Unreadable, ReadFile, EndScan, vars
  <2> QED  BY <1>1, <2>1 DEF IInv, KeptSound, Same
<1>2. IInv /\ [Next]_vars =>
        [phase = "scanning" /\ phase' = "idle" =>
           \A f \in Files :
             LET old == index[f]
                 new == index'[f] IN
             old # NoCheckpoint /\ log[f].exists /\ old.epoch = log[f].epoch =>
               new # NoCheckpoint /\ new.offset >= old.offset]_vars
  BY <1>1
<1> QED  BY <1>2, InitSound, StepSound, PTL DEF Spec, NothingIsForgotten

\* A scan that is not reported as partial has read all that the logs held when it
\* began, and shows nothing of logs that were gone by then.
THEOREM CompleteScanSafe == Spec => CompleteScanMissesNothing
<1>1. ASSUME IInv, [Next]_vars, phase = "scanning", phase' = "idle", ~summary'.partial,
             NEW f \in Files
      PROVE  /\ seen[f].exists /\ log[f].exists /\ seen[f].epoch = log[f].epoch =>
                  /\ index'[f] # NoCheckpoint
                  /\ index'[f].epoch = log[f].epoch
                  /\ index'[f].offset >= seen[f].count
             /\ ~seen[f].exists => index'[f] = NoCheckpoint
  <2>1. \E saved \in BOOLEAN : EndScan(saved)
    BY <1>1 DEF Next, Tools, Scan, WriteLine, Rewrite, Delete, Launch, Terminate,
                BeginScan, Stat, Unreadable, ReadFile, vars
  <2>2. PICK saved \in BOOLEAN : EndScan(saved)  BY <2>1
  <2>3. index' = section /\ todo = {}  BY <2>2 DEF EndScan
  <2>4. summary'.partial = (~listed \/ failed # {})
    <3> HIDE <1>1
    <3> QED  BY <2>2, Zenon DEF EndScan
  <2>5. listed /\ failed = {}  BY <1>1, <2>4, Zenon
  <2> QED  BY <1>1, <2>3, <2>5 DEF IInv, SeenSound, Same
<1>2. IInv /\ [Next]_vars =>
        [phase = "scanning" /\ phase' = "idle" /\ ~summary'.partial =>
           \A f \in Files :
             /\ seen[f].exists /\ log[f].exists /\ seen[f].epoch = log[f].epoch =>
                  /\ index'[f] # NoCheckpoint
                  /\ index'[f].epoch = log[f].epoch
                  /\ index'[f].offset >= seen[f].count
             /\ ~seen[f].exists => index'[f] = NoCheckpoint]_vars
  BY <1>1
<1> QED  BY <1>2, InitSound, StepSound, PTL DEF Spec, CompleteScanMissesNothing
=============================================================================
