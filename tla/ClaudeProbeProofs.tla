-------------------------- MODULE ClaudeProbeProofs --------------------------
(***************************************************************************)
(* Proofs about ClaudeProbe, for any number of printed chunks, any size of *)
(* the capture and any phrases.                                            *)
(***************************************************************************)
EXTENDS ClaudeProbe, TLAPS

(* What the probe owns at each of its stages.  A stage that fails has closed *)
(* what was opened before it, and the stages after the loop close the rest,  *)
(* whichever of them the loop, a failed write or the exit leads to.          *)
Opening == {"resolve", "pipes", "pty", "console", "attributes", "create"}
Talking == {"loop", "decide", "clear", "send", "escape", "exit", "leaving", "stop"}

OwnsInv ==
    /\ stage \in Stages
    /\ stage \in Opening => reader = "none" /\ cli = "none"
    /\ stage \in {"resolve", "pipes", "pty"} => handles = {}
    /\ stage = "console" => handles \subseteq {"in_read", "in_write", "out_read", "out_write"}
    /\ stage = "attributes" => handles \subseteq {"in_write", "out_read", "console", "job"}
    /\ stage = "create" =>
         handles \subseteq {"in_write", "out_read", "console", "job", "attributes"}
    /\ stage \in Talking \cup {"close"} =>
         handles \subseteq {"in_write", "out_read", "console", "job", "process"}
    /\ stage \in Talking \cup {"close", "join"} => reader \in {"reading", "ended"}
    /\ stage = "join" => handles \subseteq {"out_read"}
    /\ stage \in {"close", "join", "answer", "account", "returned"} => cli # "running"
    /\ stage \in {"answer", "account", "returned"} => reader \in {"none", "ended"}
    /\ reader = "ended" => "out_read" \notin handles
    /\ stage \in {"answer", "returned"} => handles = {}
    /\ stage = "account" => handles = {"auth_status"}

\* Nothing is left when the probe has returned.
ReturnedClean ==
    stage = "returned" => handles = {} /\ cli # "running" /\ reader \in {"none", "ended"}

LEMMA ProbeOwns == OwnsInv /\ Probe => OwnsInv'
<1> SUFFICES ASSUME OwnsInv, Probe PROVE OwnsInv'  OBVIOUS
<1> USE DEF OwnsInv, Opening, Talking, Stages, Goto, Fail, screen, child, Closes
<1>1. CASE Resolve         BY <1>1 DEF Resolve
<1>2. CASE OpenPipes       BY <1>2 DEF OpenPipes
<1>3. CASE OpenConsole     BY <1>3 DEF OpenConsole
<1>4. CASE MakeAttributes  BY <1>4 DEF MakeAttributes
<1>5. CASE CreateProcess   BY <1>5 DEF CreateProcess, Launched
<1>6. CASE SpawnUnix       BY <1>6 DEF SpawnUnix, Launched
<1>7. CASE Look            BY <1>7 DEF Look
<1>8. CASE Decide
  <2>1. stage = "decide" /\ stage' \in {"stop", "clear", "loop", "escape"}
    BY <1>8 DEF Decide, DecideFailed, DecideStartup, DecideUsage, Break, Continue
  <2> QED  BY <1>8, <2>1 DEF Decide
<1>9. CASE Clear           BY <1>9 DEF Clear
<1>10. CASE SendUsage      BY <1>10 DEF SendUsage
<1>11. CASE Escape         BY <1>11 DEF Escape, NotLeft
<1>12. CASE TypeExit       BY <1>12 DEF TypeExit, NotLeft
<1>13. CASE AwaitExit      BY <1>13 DEF AwaitExit, NotLeft
<1>14. CASE Stop           BY <1>14 DEF Stop
<1>15. CASE Close          BY <1>15 DEF Close
<1>16. CASE Join           BY <1>16 DEF Join
<1>17. CASE Answer         BY <1>17 DEF Answer
<1>18. CASE Account        BY <1>18 DEF Account
<1> QED
  BY <1>1, <1>2, <1>3, <1>4, <1>5, <1>6, <1>7, <1>8, <1>9, <1>10, <1>11, <1>12, <1>13, <1>14,
     <1>15, <1>16, <1>17, <1>18 DEF Probe

\* The reader's end of the pipe is closed with the thread that reads from it.
LEMMA NextOwns == OwnsInv /\ [Next]_vars => OwnsInv'
<1> SUFFICES ASSUME OwnsInv, [Next]_vars PROVE OwnsInv'  OBVIOUS
<1>1. CASE Probe  BY <1>1, ProbeOwns
<1>2. CASE Reader
  <2>1. UNCHANGED <<stage, cli>> /\ reader = "reading"
    BY <1>2 DEF Reader, ReaderReads, ReaderEnds
  <2>2. UNCHANGED <<reader, handles>> \/ (reader' = "ended" /\ handles' = handles \ {"out_read"})
    BY <1>2 DEF Reader, ReaderReads, ReaderEnds, EndReader, Closes
  <2> QED  BY <2>1, <2>2 DEF OwnsInv, Opening, Talking
<1>3. CASE CliPrints \/ Quiet \/ Deadline \/ Returned \/ UNCHANGED vars
  BY <1>3 DEF CliPrints, Quiet, Deadline, Returned, vars, screen, child, OwnsInv
<1>4. CASE CliExits
  <2>1. cli = "running" /\ cli' \in {"ok", "failed"} /\ UNCHANGED <<stage, handles, reader>>
    BY <1>4 DEF CliExits, screen
  <2> QED  BY <2>1 DEF OwnsInv
<1> QED  BY <1>1, <1>2, <1>3, <1>4 DEF Next

\* A probe that has returned has left no process, no thread and no handle,
\* whichever step of the opening, the talk or the exit failed.
THEOREM CleanSafe == Spec => []ReturnedClean
<1>1. Init => OwnsInv  BY DEF Init, OwnsInv, Opening, Talking, Stages
<1>2. OwnsInv => ReturnedClean  BY DEF OwnsInv, ReturnedClean
<1> QED  BY <1>1, <1>2, NextOwns, PTL DEF Spec

-----------------------------------------------------------------------------
(* Fresh means that the CLI left.  Once it has, it stays so; the stages up   *)
(* to the panel have no result that says "supported".                        *)
Closing == {"stop", "close", "join", "answer", "account", "returned"}

FreshInv ==
    /\ stage \in Opening \cup {"loop", "decide", "clear", "send"} => result # "supported"
    /\ stage \in Closing /\ result = "supported" => LeftCleanly
    /\ stage = "account" => result = "supported"
    /\ stage # "returned" => answer = "none"
    /\ result # "fresh"
    /\ FreshMeansItLeft

\* None of the failures is a success.
LEMMA ReasonsFail == \A i \in DOMAIN Reasons : Reasons[i] \notin {"supported", "fresh"}
  BY DEF Reasons

LEMMA DecideResult ==
  ASSUME Decide
  PROVE  /\ stage = "decide"
         /\ \/ stage' \in {"loop", "clear"} /\ UNCHANGED result
            \/ stage' = "stop" /\ result' \notin {"supported", "fresh"}
            \/ /\ stage' = "escape" /\ result' = "supported" /\ UNCHANGED seen
               /\ sent /\ UsageComplete(seen) /\ Failures(seen) = {}
<1>1. CASE DecideFailed
  <2>1. ASSUME NEW i \in Failures(seen), Break(Reasons[i])
        PROVE  stage = "decide" /\ stage' = "stop" /\ result' \notin {"supported", "fresh"}
    BY <2>1, ReasonsFail DEF Break, Goto, Failures
  <2>2. CASE Break("process_failed")  BY <2>2 DEF Break, Goto
  <2> QED  BY <1>1, <2>1, <2>2 DEF DecideFailed
<1>2. CASE DecideStartup  BY <1>2 DEF DecideStartup, Break, Continue, Goto
<1>3. CASE DecideUsage    BY <1>3 DEF DecideUsage, Break, Continue, Goto
<1> QED  BY <1>1, <1>2, <1>3 DEF Decide

LEMMA NextFresh == OwnsInv /\ FreshInv /\ [Next]_vars => FreshInv'
<1> SUFFICES ASSUME OwnsInv, FreshInv, [Next]_vars PROVE FreshInv'  OBVIOUS
<1> USE DEF FreshInv, FreshMeansItLeft, LeftCleanly, Opening, Closing, Goto, Fail, screen, child
<1>1. CASE Resolve \/ OpenPipes \/ OpenConsole \/ MakeAttributes
  BY <1>1 DEF Resolve, OpenPipes, OpenConsole, MakeAttributes
<1>2. CASE CreateProcess \/ SpawnUnix
  BY <1>2 DEF CreateProcess, SpawnUnix, Launched
<1>3. CASE Look            BY <1>3 DEF Look
<1>4. CASE Decide
  <2>1. UNCHANGED <<answer, cli, unix>>  BY <1>4 DEF Decide
  <2> QED  BY <1>4, <2>1, DecideResult
<1>5. CASE Clear           BY <1>5 DEF Clear
<1>6. CASE SendUsage       BY <1>6 DEF SendUsage
<1>7. CASE Escape \/ TypeExit  BY <1>7 DEF Escape, TypeExit, NotLeft
<1>8. CASE AwaitExit       BY <1>8 DEF AwaitExit, NotLeft
<1>9. CASE Stop            BY <1>9 DEF Stop
<1>10. CASE Close \/ Join  BY <1>10 DEF Close, Join
<1>11. CASE Answer
  <2>1. CASE result # "supported" /\ stage = "answer" /\ stage' = "returned" /\ UNCHANGED result
    <3>1. answer' # "fresh"  BY <1>11, <2>1 DEF Answer, OwnsInv
    <3> QED  BY <1>11, <2>1, <3>1
  <2>2. CASE result = "supported"  BY <1>11, <2>2 DEF Answer
  <2> QED  BY <1>11, <2>1, <2>2 DEF Answer
<1>12. CASE Account        BY <1>12 DEF Account
<1>13. CASE Reader         BY <1>13 DEF Reader, ReaderReads, ReaderEnds
<1>14. CASE CliPrints \/ Quiet \/ Deadline \/ Returned \/ UNCHANGED vars
  BY <1>14 DEF CliPrints, Quiet, Deadline, Returned, vars
<1>15. CASE CliExits       BY <1>15 DEF CliExits
<1> QED
  BY <1>1, <1>2, <1>3, <1>4, <1>5, <1>6, <1>7, <1>8, <1>9, <1>10, <1>11, <1>12, <1>13, <1>14,
     <1>15 DEF Next, Probe

\* A quota is fresh only if the panel was read and the CLI left by itself.
THEOREM FreshSafe == Spec => []FreshMeansItLeft
<1>1. Init => OwnsInv  BY DEF Init, OwnsInv, Opening, Talking, Stages
<1>2. Init => FreshInv
  BY DEF Init, FreshInv, FreshMeansItLeft, Opening, Closing
<1>3. FreshInv => FreshMeansItLeft  BY DEF FreshInv
<1> QED  BY <1>1, <1>2, <1>3, NextOwns, NextFresh, PTL DEF Spec

-----------------------------------------------------------------------------
(* What the sequences hold.                                                  *)

ScreenType ==
    /\ raw \in Seq(Chunk) /\ seen \in Seq(Chunk) /\ pipe \in Seq(Chunk)
    /\ prints \in Nat /\ asked \in Nat

LEMMA CapturedType ==
  ASSUME NEW text \in Seq(Chunk), NEW chunk \in Chunk
  PROVE  Captured(text, chunk) \in Seq(Chunk)
<1>1. text \o <<chunk>> \in Seq(Chunk) /\ Len(text \o <<chunk>>) = Len(text) + 1
      /\ Len(text) \in Nat
  OBVIOUS
<1>2. Tail(text \o <<chunk>>) \in Seq(Chunk)  BY <1>1
<1> QED  BY <1>1, <1>2 DEF Captured

LEMMA ChunkType == ASSUME NEW kind \in Kinds, NEW n \in Nat
                   PROVE  [kind |-> kind, n |-> n] \in Chunk
  BY DEF Chunk

\* The newest chunk of a screen.
LEMMA LastType ==
  ASSUME NEW text \in Seq(Chunk), text # <<>>
  PROVE  Len(text) \in DOMAIN text /\ Last(text) = text[Len(text)] /\ Last(text).n \in Nat
<1>1. Len(text) \in DOMAIN text /\ text[Len(text)] \in Chunk  OBVIOUS
<1>2. \A chunk \in Chunk : chunk.n \in Nat  BY DEF Chunk
<1> QED  BY <1>1, <1>2 DEF Last

LEMMA NextScreenType == ScreenType /\ [Next]_vars => ScreenType'
<1> SUFFICES ASSUME ScreenType, [Next]_vars PROVE ScreenType'  OBVIOUS
<1>u. ASSUME UNCHANGED <<pipe, prints, asked>>, raw' \in {raw, <<>>}, seen' \in {seen, raw, <<>>}
      PROVE  ScreenType'
  <2>1. <<>> \in Seq(Chunk)  OBVIOUS
  <2> QED  BY <1>u, <2>1 DEF ScreenType
<1> USE DEF probe, screen, child
<1>1. CASE Resolve \/ OpenPipes \/ OpenConsole \/ MakeAttributes
  BY <1>1, <1>u DEF Resolve, OpenPipes, OpenConsole, MakeAttributes
<1>2. CASE CreateProcess \/ SpawnUnix
  BY <1>2, <1>u DEF CreateProcess, SpawnUnix, Launched
<1>3. CASE Look            BY <1>3, <1>u DEF Look
<1>4. CASE Decide
  <2>1. CASE UNCHANGED asked
    BY <1>4, <2>1, <1>u DEF Decide, DecideFailed, DecideStartup, DecideUsage, Break, Continue
  <2>2. CASE StartupReady(seen) /\ asked' = Last(seen).n /\ seen' = <<>>
    <3>1. asked' \in Nat  BY <2>2, LastType DEF StartupReady, ScreenType
    <3> QED  BY <1>4, <2>2, <3>1 DEF Decide, ScreenType
  <2> QED  BY <1>4, <2>1, <2>2 DEF Decide, DecideStartup
<1>5. CASE Clear           BY <1>5, <1>u DEF Clear
<1>6. CASE SendUsage       BY <1>6, <1>u DEF SendUsage
<1>7. CASE Escape \/ TypeExit \/ AwaitExit  BY <1>7, <1>u DEF Escape, TypeExit, AwaitExit
<1>8. CASE Stop            BY <1>8, <1>u DEF Stop
<1>9. CASE Close \/ Join \/ Answer \/ Account  BY <1>9, <1>u DEF Close, Join, Answer, Account
<1>10. CASE ReaderReads
  <2>1. pipe \in Seq(Chunk) /\ pipe # <<>> /\ UNCHANGED <<seen, prints, asked>>
    BY <1>10 DEF ReaderReads, ScreenType
  <2>2. Head(pipe) \in Chunk  BY <2>1
  <2>3. raw' = raw \/ raw' = Captured(raw, Head(pipe))  BY <1>10 DEF ReaderReads
  <2>4. pipe' = <<>> /\ pipe' \in Seq(Chunk)  BY <1>10 DEF ReaderReads
  <2> QED  BY <2>1, <2>2, <2>3, <2>4, CapturedType DEF ScreenType
<1>11. CASE ReaderEnds     BY <1>11, <1>u DEF ReaderEnds
<1>12. CASE CliPrints
  <2>1. prints' = prints + 1 /\ prints' \in Nat  BY <1>12 DEF CliPrints, ScreenType
  <2>2. PICK kind \in Kinds : pipe' = <<[kind |-> kind, n |-> prints']>>  BY <1>12 DEF CliPrints
  <2>3. pipe' \in Seq(Chunk)  BY <2>1, <2>2, ChunkType
  <2> QED  BY <1>12, <2>1, <2>3 DEF CliPrints, ScreenType
<1>13. CASE CliExits \/ Quiet \/ Deadline \/ Returned \/ UNCHANGED vars
  BY <1>13, <1>u DEF CliExits, Quiet, Deadline, Returned, vars
<1> QED
  BY <1>1, <1>2, <1>3, <1>4, <1>5, <1>6, <1>7, <1>8, <1>9, <1>10, <1>11, <1>12, <1>13
  DEF Next, Probe, Reader

-----------------------------------------------------------------------------
(* Where the windows come from.  Chunks are captured in the order of their   *)
(* numbers: what waits in the pipe is newer than the capture and than any    *)
(* screen taken from it.  So what the capture holds once it has been cleared *)
(* is newer than the screen for which the question was typed.                *)
NewerThan(text, n) == \A i \in DOMAIN text : text[i].n > n

UpTo(text, n) == \A i \in DOMAIN text : text[i].n <= n

Newer(text, old) == \A i \in DOMAIN text : UpTo(old, text[i].n - 1)

Clearing == stage \in {"clear", "send"} \/ sent

OrderInv ==
    /\ UpTo(raw, prints) /\ UpTo(pipe, prints) /\ Newer(pipe, raw)
    /\ stage = "decide" => UpTo(seen, prints) /\ Newer(pipe, seen)
    /\ asked <= prints
    /\ Clearing => NewerThan(pipe, asked)
    /\ stage = "send" \/ sent => NewerThan(raw, asked)
    /\ stage = "decide" /\ sent => NewerThan(seen, asked)

AnswerInv == OrderInv /\ UsageComesFromAnswer

\* What is captured was captured before or is the new chunk.
LEMMA CapturedFrom ==
  ASSUME NEW text \in Seq(Chunk), NEW chunk \in Chunk, NEW i \in DOMAIN Captured(text, chunk)
  PROVE  \/ Captured(text, chunk)[i] = chunk
         \/ \E j \in DOMAIN text : Captured(text, chunk)[i] = text[j]
<1> DEFINE all == text \o <<chunk>>
<1>1. Len(text) \in Nat /\ all \in Seq(Chunk) /\ Len(all) = Len(text) + 1
      /\ DOMAIN text = 1 .. Len(text) /\ DOMAIN all = 1 .. Len(text) + 1
      /\ \A k \in 1 .. Len(text) : all[k] = text[k]
      /\ all[Len(text) + 1] = chunk
  OBVIOUS
<1>2. \A k \in DOMAIN all : all[k] = chunk \/ \E j \in DOMAIN text : all[k] = text[j]
  BY <1>1
<1>3. DOMAIN Tail(all) = 1 .. Len(text) /\ \A k \in DOMAIN Tail(all) : Tail(all)[k] = all[k + 1]
  <2> HIDE DEF all
  <2> QED  BY <1>1
<1>4. \A k \in DOMAIN Tail(all) : k + 1 \in DOMAIN all  BY <1>1, <1>3
<1> HIDE DEF all
<1>5. Captured(text, chunk) = all \/ Captured(text, chunk) = Tail(all)  BY DEF Captured, all
<1> QED  BY <1>2, <1>3, <1>4, <1>5

\* A chunk on the screen has a number.
LEMMA NumberType == ASSUME NEW text \in Seq(Chunk), NEW i \in DOMAIN text PROVE text[i].n \in Nat
<1>1. text[i] \in Chunk  OBVIOUS
<1> QED  BY <1>1 DEF Chunk

LEMMA ReadOrder ==
  ASSUME ScreenType, OrderInv, ReaderReads
  PROVE  OrderInv'
<1>1. UNCHANGED <<stage, sent, seen, asked, prints>> /\ pipe' = <<>> /\ pipe # <<>>
  BY DEF ReaderReads
<1>2. UpTo(pipe', prints) /\ NewerThan(pipe', asked) /\ Newer(pipe', raw') /\ Newer(pipe', seen)
  BY <1>1 DEF UpTo, NewerThan, Newer
<1>3. CASE UNCHANGED raw  BY <1>1, <1>2, <1>3 DEF OrderInv, Clearing
<1>4. CASE raw' = Captured(raw, Head(pipe))
  <2>1. 1 \in DOMAIN pipe /\ Head(pipe) = pipe[1] /\ Head(pipe) \in Chunk /\ raw \in Seq(Chunk)
    BY <1>1 DEF ScreenType
  <2>2. \A i \in DOMAIN raw' : raw'[i] = pipe[1] \/ \E j \in DOMAIN raw : raw'[i] = raw[j]
    BY <1>4, <2>1, CapturedFrom
  <2>3. UpTo(raw', prints)  BY <2>1, <2>2 DEF UpTo, OrderInv
  <2>4. stage = "send" \/ sent => NewerThan(raw', asked)
    BY <2>1, <2>2 DEF NewerThan, OrderInv, Clearing
  <2> QED  BY <1>1, <1>2, <2>3, <2>4 DEF OrderInv, Clearing
<1> QED  BY <1>3, <1>4 DEF ReaderReads

LEMMA PrintOrder ==
  ASSUME ScreenType, OrderInv, CliPrints
  PROVE  OrderInv'
<1>1. UNCHANGED <<stage, sent, seen, asked, raw>> /\ prints' = prints + 1
  BY DEF CliPrints, probe, screen
<1>2. PICK kind \in Kinds : pipe' = <<[kind |-> kind, n |-> prints']>>  BY DEF CliPrints
<1>3. DOMAIN pipe' = {1} /\ pipe'[1].n = prints + 1  BY <1>1, <1>2
<1>4. prints \in Nat /\ asked \in Nat /\ raw \in Seq(Chunk) /\ seen \in Seq(Chunk)
  BY DEF ScreenType
<1>5. UpTo(pipe', prints') /\ NewerThan(pipe', asked)
  BY <1>1, <1>3, <1>4 DEF UpTo, NewerThan, OrderInv
<1>6. ASSUME NEW text \in Seq(Chunk), UpTo(text, prints)
      PROVE  UpTo(text, prints') /\ Newer(pipe', text)
  <2>1. \A i \in DOMAIN text : text[i].n \in Nat /\ text[i].n <= prints
    BY <1>6, NumberType DEF UpTo
  <2> QED  BY <1>1, <1>3, <1>4, <2>1 DEF UpTo, Newer
<1>7. asked <= prints'  BY <1>1, <1>4 DEF OrderInv
<1> QED  BY <1>1, <1>4, <1>5, <1>6, <1>7 DEF OrderInv, Clearing

\* The question is typed for the screen the loop has just looked at.
LEMMA AskOrder ==
  ASSUME ScreenType, OrderInv, stage = "decide", ~sent, StartupReady(seen), asked' = Last(seen).n,
         stage' = "clear", seen' = <<>>, UNCHANGED <<sent, raw, pipe, prints>>
  PROVE  OrderInv'
<1> DEFINE last == Len(seen)
<1>1. last \in DOMAIN seen /\ asked' = seen[last].n /\ asked' \in Nat
  BY LastType DEF StartupReady, ScreenType
<1>2. asked' <= prints  BY <1>1 DEF OrderInv, UpTo
<1>3. \A i \in DOMAIN pipe : pipe[i].n \in Nat /\ asked' <= pipe[i].n - 1
  BY <1>1, NumberType DEF OrderInv, Newer, UpTo, ScreenType
<1>4. NewerThan(pipe', asked')  BY <1>1, <1>3 DEF NewerThan
<1> QED  BY <1>2, <1>4 DEF OrderInv, Clearing

LEMMA NextAnswer == OwnsInv /\ FreshInv /\ ScreenType /\ AnswerInv /\ [Next]_vars => AnswerInv'
<1> SUFFICES ASSUME OwnsInv, FreshInv, ScreenType, AnswerInv, [Next]_vars PROVE AnswerInv'
  OBVIOUS
\* A step that neither speaks nor listens.
<1>u. ASSUME UNCHANGED <<sent, seen, raw, pipe, prints, asked>>,
             stage' \notin {"clear", "send", "decide"} \/ UNCHANGED stage,
             result' = "supported" => UNCHANGED result
      PROVE  AnswerInv'
  BY <1>u DEF AnswerInv, OrderInv, Clearing, UsageComesFromAnswer
<1>e. \A n, text : NewerThan(<<>>, n) /\ UpTo(<<>>, n) /\ Newer(text, <<>>)
  BY DEF NewerThan, UpTo, Newer
<1> USE DEF Goto, Fail, probe, screen, child
<1>1. CASE Resolve \/ OpenPipes \/ OpenConsole \/ MakeAttributes
  BY <1>1, <1>u DEF Resolve, OpenPipes, OpenConsole, MakeAttributes
<1>2. CASE CreateProcess \/ SpawnUnix
  BY <1>2, <1>u DEF CreateProcess, SpawnUnix, Launched
<1>3. CASE Look
  BY <1>3 DEF Look, AnswerInv, OrderInv, Clearing, FreshInv, UsageComesFromAnswer, Opening
<1>4. CASE Decide
  <2>1. UNCHANGED <<sent, raw, pipe, prints>> /\ stage = "decide" /\ result # "supported"
    BY <1>4, DecideResult DEF Decide, FreshInv, Opening
  <2>2. CASE stage' = "clear"
    <3>1. /\ ~sent /\ StartupReady(seen) /\ asked' = Last(seen).n /\ seen' = <<>>
          /\ UNCHANGED result
      BY <1>4, <2>2 DEF Decide, DecideFailed, DecideStartup, DecideUsage, Break, Continue
    <3>2. OrderInv'  BY <2>1, <2>2, <3>1, AskOrder DEF AnswerInv
    <3> QED  BY <2>1, <3>1, <3>2 DEF AnswerInv, UsageComesFromAnswer
  <2>3. CASE stage' # "clear"
    <3>1. UNCHANGED asked /\ stage' \notin {"clear", "send", "decide"}
      BY <1>4, <2>3, DecideResult DEF Decide, DecideStartup
    <3>2. OrderInv'  BY <2>1, <3>1 DEF AnswerInv, OrderInv, Clearing
    <3>3. UsageComesFromAnswer'
      <4>1. SUFFICES ASSUME result' = "supported" PROVE UsageComesFromAnswer'
        BY DEF UsageComesFromAnswer
      <4>2. UNCHANGED seen /\ sent /\ UsageComplete(seen) /\ Failures(seen) = {}
        BY <1>4, <2>1, <4>1, DecideResult
      <4>3. NewerThan(seen, asked)  BY <2>1, <4>2 DEF AnswerInv, OrderInv
      <4> QED
        BY <2>1, <3>1, <4>2, <4>3 DEF UsageComesFromAnswer, NewerThan, UsageComplete,
                                      Shows, Failures
    <3> QED  BY <3>2, <3>3 DEF AnswerInv
  <2> QED  BY <2>2, <2>3
<1>5. CASE Clear
  BY <1>5, <1>e DEF Clear, AnswerInv, OrderInv, Clearing, UsageComesFromAnswer
<1>6. CASE SendUsage
  BY <1>6 DEF SendUsage, AnswerInv, OrderInv, Clearing, FreshInv, UsageComesFromAnswer, Opening
<1>7. CASE Escape \/ TypeExit \/ AwaitExit
  BY <1>7, <1>u DEF Escape, TypeExit, AwaitExit, NotLeft
<1>8. CASE Stop
  BY <1>8, <1>e DEF Stop, AnswerInv, OrderInv, Clearing, UsageComesFromAnswer
<1>9. CASE Close \/ Join \/ Answer \/ Account  BY <1>9, <1>u DEF Close, Join, Answer, Account
<1>10. CASE ReaderReads
  <2>1. UNCHANGED <<sent, seen, asked, result>>  BY <1>10 DEF ReaderReads
  <2> QED  BY <1>10, <2>1, ReadOrder DEF AnswerInv, UsageComesFromAnswer
<1>11. CASE ReaderEnds     BY <1>11, <1>u DEF ReaderEnds
<1>12. CASE CliPrints
  <2>1. UNCHANGED <<sent, seen, asked, result>>  BY <1>12 DEF CliPrints
  <2> QED  BY <1>12, <2>1, PrintOrder DEF AnswerInv, UsageComesFromAnswer
<1>13. CASE CliExits \/ Quiet \/ Deadline \/ Returned \/ UNCHANGED vars
  BY <1>13, <1>u DEF CliExits, Quiet, Deadline, Returned, vars
<1> QED
  BY <1>1, <1>2, <1>3, <1>4, <1>5, <1>6, <1>7, <1>8, <1>9, <1>10, <1>11, <1>12, <1>13
  DEF Next, Probe, Reader

\* The windows that are reported come from a complete screen without a failure,
\* all of it printed after the screen for which the question was typed.
THEOREM UsageSafe == Spec => []UsageComesFromAnswer
<1>1. Init => OwnsInv  BY DEF Init, OwnsInv, Opening, Talking, Stages
<1>2. Init => FreshInv
  BY DEF Init, FreshInv, FreshMeansItLeft, Opening, Closing
<1>3. Init => ScreenType /\ AnswerInv
  <2> SUFFICES ASSUME Init PROVE ScreenType /\ AnswerInv  OBVIOUS
  <2>1. ScreenType  BY DEF Init, ScreenType
  <2>2. OrderInv
    BY DEF Init, OrderInv, Clearing, UpTo, Newer, NewerThan
  <2> QED  BY <2>1, <2>2 DEF Init, AnswerInv, UsageComesFromAnswer
<1>4. AnswerInv => UsageComesFromAnswer  BY DEF AnswerInv
<1> QED
  BY <1>1, <1>2, <1>3, <1>4, NextOwns, NextFresh, NextScreenType, NextAnswer, PTL DEF Spec
=============================================================================
