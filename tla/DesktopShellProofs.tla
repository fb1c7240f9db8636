------------------------- MODULE DesktopShellProofs -------------------------
(***************************************************************************)
(* Proofs about DesktopShell, for every set of windows and inputs and for  *)
(* any number of clicks that wait in the menu.                             *)
(***************************************************************************)
EXTENDS DesktopShell, FiniteSetTheorems, TLAPS

(* Type correctness, one part of the state at a time.                        *)

PopoverType ==
    /\ handle \in Window \cup {NoWindow} /\ windows \subseteq Window
    /\ opened \in {"never", "grace", "before"}
    /\ hidden \in {"never", "cooling", "before", "long"}
    /\ {pinned, dragging, compact, measured} \subseteq BOOLEAN

Item == {"open", "reset", "refresh", "launch", "quit"}

RestType ==
    /\ mix \subseteq Kinds
    /\ pass \in {"wait", "request", "timers", "resize", "tray", "login", "menu",
                 "snapshot", "collect", "ended"}
    /\ click \in {"none", "down", "up"}
    /\ menu \in Seq(Item)
    /\ helper \in {"none", "query", "on", "off"}
    /\ {slot, wasOpen, lapsed, mark, pending, setting, failed, requested, refreshing,
        command, busy} \subseteq BOOLEAN
    /\ result \in [sent : BOOLEAN, value : BOOLEAN]
    /\ inbox \in {"none", "busy", "idle"}

LEMMA InitType == Init => PopoverType /\ RestType
<1> SUFFICES ASSUME Init PROVE PopoverType /\ RestType  OBVIOUS
<1>1. PopoverType  BY DEF Init, PopoverType
<1>2. menu \in Seq(Item)  BY DEF Init
<1>3. mix \subseteq Kinds  BY ConstantsOK DEF Init
<1> QED  BY <1>1, <1>2, <1>3 DEF Init, RestType, NoResult

LEMMA OpenType == ASSUME PopoverType, OpenPopover PROVE PopoverType'
  BY DEF PopoverType, OpenPopover

LEMMA HideType == ASSUME PopoverType, NEW w, Hide(w) PROVE PopoverType'
  BY DEF PopoverType, Hide

LEMMA NextPopoverType == PopoverType /\ [Next]_vars => PopoverType'
<1> SUFFICES ASSUME PopoverType, [Next]_vars PROVE PopoverType'  OBVIOUS
<1>u. ASSUME UNCHANGED popover PROVE PopoverType'  BY <1>u DEF popover, PopoverType
<1>1. CASE Wake \/ LoginAnswer \/ MenuEmpty \/ Snapshot \/ Collect \/ Ended
  BY <1>1, <1>u DEF Wake, LoginAnswer, MenuEmpty, Snapshot, Collect, Ended, vars
<1>2. CASE Request      BY <1>2, <1>u, OpenType DEF Request
<1>3. CASE Timers       BY <1>3, <1>u, HideType DEF Timers
<1>4. CASE Resize       BY <1>4 DEF Resize, PopoverType
<1>5. CASE Tray         BY <1>5, <1>u, OpenType, HideType DEF Tray, Toggle
<1>6. CASE MenuEvent
  <2>1. CASE Reopen     BY <2>1 DEF Reopen, PopoverType
  <2> QED  BY <1>6, <2>1, <1>u, OpenType DEF MenuEvent
<1>7. ASSUME NEW w \in Window, KeyDown(w) \/ Blur(w) PROVE PopoverType'
  <2>1. CASE Settings   BY <2>1 DEF Settings, PopoverType
  <2> QED  BY <1>7, <2>1, HideType DEF KeyDown, Blur
<1>8. ASSUME NEW w \in Window, WindowLost(w) PROVE PopoverType'
  BY <1>8 DEF WindowLost, PopoverType
<1>9. CASE HeaderAction \/ Drag \/ Measure \/ TimePasses
  BY <1>9 DEF HeaderAction, Settings, Drag, Measure, TimePasses, CooldownEnds, PopoverType
<1>10. CASE RefreshClick \/ TrayDown \/ TrayUp
  BY <1>10, <1>u DEF RefreshClick, TrayDown, TrayUp
<1>11. ASSUME NEW e, MenuClick(e) PROVE PopoverType'  BY <1>11, <1>u DEF MenuClick
<1>12. CASE SecondStart \/ HelperEnds \/ CollectorSteps
  BY <1>12, <1>u DEF SecondStart, HelperEnds, CollectorSteps
<1>13. CASE UNCHANGED vars  BY <1>13, <1>u DEF vars
<1> QED
  BY <1>1, <1>2, <1>3, <1>4, <1>5, <1>6, <1>7, <1>8, <1>9, <1>10, <1>11, <1>12, <1>13
  DEF Next, Pass

LEMMA NextRestType == RestType /\ [Next]_vars => RestType'
<1> SUFFICES ASSUME RestType, [Next]_vars PROVE RestType'  OBVIOUS
<1> USE DEF Goto, Between, inputs, login, refresh
<1>1. CASE Wake \/ MenuEmpty \/ Ended
  BY <1>1 DEF Wake, MenuEmpty, Ended, vars, RestType
<1>2. CASE Request      BY <1>2 DEF Request, RestType
<1>3. CASE Timers       BY <1>3 DEF Timers, RestType
<1>4. CASE Resize       BY <1>4 DEF Resize, RestType
<1>5. CASE Tray         BY <1>5 DEF Tray, RestType
<1>6. CASE LoginAnswer
  <2>1. mark \in BOOLEAN /\ pending \in BOOLEAN /\ result.value \in BOOLEAN
        /\ result \in [sent : BOOLEAN, value : BOOLEAN] /\ NoResult \in [sent : BOOLEAN, value : BOOLEAN]
    BY DEF RestType, NoResult
  <2>2. mark' \in BOOLEAN /\ pending' \in BOOLEAN
    BY <1>6, <2>1 DEF LoginAnswer
  <2>3. result' \in [sent : BOOLEAN, value : BOOLEAN]
    BY <1>6, <2>1 DEF LoginAnswer
  <2> QED  BY <1>6, <2>2, <2>3 DEF LoginAnswer, RestType
<1>7. CASE MenuEvent
  <2>1. Tail(menu) \in Seq(Item)  BY <1>7 DEF MenuEvent, RestType
  <2>2. CASE ChangeSetting /\ UNCHANGED refresh
    BY <1>7, <2>1, <2>2 DEF MenuEvent, ChangeSetting, RestType
  <2>3. CASE UNCHANGED login
    BY <1>7, <2>1, <2>3 DEF MenuEvent, RestType
  <2> QED  BY <1>7, <2>2, <2>3 DEF MenuEvent
<1>8. CASE Snapshot \/ Collect  BY <1>8 DEF Snapshot, Collect, RestType
<1>9. ASSUME NEW w \in Window, KeyDown(w) \/ Blur(w) \/ WindowLost(w) PROVE RestType'
  BY <1>9 DEF KeyDown, Blur, WindowLost, RestType
<1>10. CASE HeaderAction \/ Drag \/ Measure \/ RefreshClick \/ TrayDown \/ TrayUp \/ TimePasses
  BY <1>10 DEF HeaderAction, Drag, Measure, RefreshClick, TrayDown, TrayUp, TimePasses,
                CooldownEnds, RestType
<1>11. ASSUME NEW e \in Item, MenuClick(e) PROVE RestType'
  <2>1. Append(menu, e) \in Seq(Item)  BY DEF RestType
  <2> QED  BY <1>11, <2>1 DEF MenuClick, RestType
<1>12. CASE HelperEnds
  <2>1. setting \in BOOLEAN  BY DEF RestType
  <2>2. setting' \in BOOLEAN /\ failed' \in BOOLEAN /\ helper' = "none"
    BY <1>12, <2>1 DEF HelperEnds
  <2>3. result' \in [sent : BOOLEAN, value : BOOLEAN]
    <3> DEFINE was == helper = "off"
    <3>1. was \in BOOLEAN  OBVIOUS
    <3>2. result' = [sent |-> TRUE, value |-> setting'] \/ result' = [sent |-> TRUE, value |-> was]
      BY <1>12 DEF HelperEnds
    <3>3. \A value \in BOOLEAN :
            [sent |-> TRUE, value |-> value] \in [sent : BOOLEAN, value : BOOLEAN]
      OBVIOUS
    <3> HIDE DEF was
    <3> QED  BY <2>2, <3>1, <3>2, <3>3
  <2> QED  BY <1>12, <2>2, <2>3 DEF HelperEnds, RestType
<1>13. CASE SecondStart \/ CollectorSteps  BY <1>13 DEF SecondStart, CollectorSteps, RestType
<1>14. CASE UNCHANGED vars  BY <1>14 DEF vars, RestType
<1> QED
  BY <1>1, <1>2, <1>3, <1>4, <1>5, <1>6, <1>7, <1>8, <1>9, <1>10, <1>11, <1>12, <1>13, <1>14
  DEF Next, Pass, Item

\* Every state of the shell is well typed.
THEOREM TypeCorrect == Spec => []TypeOK
<1>1. PopoverType /\ RestType => TypeOK  BY DEF PopoverType, RestType, TypeOK, Item
<1> QED  BY <1>1, InitType, NextPopoverType, NextRestType, PTL DEF Spec

-----------------------------------------------------------------------------
(* One popover.  That the program knows every window there is (KnownWindow)  *)
(* is inductive by itself: a window is only made where the handle has none.  *)
KnownWindow == windows \subseteq {handle} /\ NoWindow \notin windows

LEMMA OpenKnown == ASSUME KnownWindow, OpenPopover PROVE KnownWindow'
<1> USE ConstantsOK
<1>1. CASE handle \in windows     BY <1>1 DEF OpenPopover, KnownWindow
<1>2. CASE handle \notin windows  BY <1>2 DEF OpenPopover, KnownWindow
<1> QED  BY <1>1, <1>2

LEMMA HideKnown == ASSUME KnownWindow, NEW w, w = handle \/ w \in windows, Hide(w) PROVE windows' = {}
  BY DEF Hide, KnownWindow

LEMMA NextKnown == KnownWindow /\ [Next]_vars => KnownWindow'
<1> USE ConstantsOK
<1> SUFFICES ASSUME KnownWindow, [Next]_vars PROVE KnownWindow'  OBVIOUS
<1>h. ASSUME NEW w, w = handle \/ w \in windows, Hide(w) PROVE KnownWindow'
  BY <1>h, HideKnown DEF KnownWindow
<1>u. ASSUME UNCHANGED <<handle, windows>> PROVE KnownWindow'  BY <1>u DEF KnownWindow
<1>1. CASE Wake         BY <1>1, <1>u DEF Wake, popover
<1>2. CASE Request      BY <1>2, <1>u, OpenKnown DEF Request, popover
<1>3. CASE Timers       BY <1>3, <1>u, <1>h DEF Timers, popover
<1>4. CASE Resize       BY <1>4, <1>u DEF Resize
<1>5. CASE Tray
  <2>1. CASE Toggle             BY <2>1, <1>u, <1>h, OpenKnown DEF Toggle, popover
  <2>2. CASE UNCHANGED popover  BY <2>2, <1>u DEF popover
  <2> QED  BY <1>5, <2>1, <2>2 DEF Tray
<1>6. CASE LoginAnswer  BY <1>6, <1>u DEF LoginAnswer, popover
<1>7. CASE MenuEvent
  <2>1. CASE Reopen             BY <2>1 DEF Reopen, KnownWindow
  <2>2. CASE UNCHANGED popover  BY <2>2, <1>u DEF popover
  <2> QED  BY <1>7, <2>1, <2>2, OpenKnown DEF MenuEvent
<1>8. CASE MenuEmpty    BY <1>8, <1>u DEF MenuEmpty, popover
<1>9. CASE Snapshot     BY <1>9, <1>u DEF Snapshot, popover
<1>10. CASE Collect     BY <1>10, <1>u DEF Collect, popover
<1>11. CASE Ended       BY <1>11, <1>u DEF Ended, vars, popover
<1>12. ASSUME NEW w \in Window, KeyDown(w) \/ Blur(w) PROVE KnownWindow'
  BY <1>12, <1>u, <1>h DEF KeyDown, Blur, Settings
<1>13. ASSUME NEW w \in Window, WindowLost(w) PROVE KnownWindow'
  BY <1>13 DEF WindowLost, KnownWindow
<1>14. CASE HeaderAction \/ Drag \/ Measure \/ RefreshClick \/ TrayDown \/ TrayUp \/ TimePasses
  BY <1>14, <1>u DEF HeaderAction, Settings, Drag, Measure, RefreshClick, TrayDown, TrayUp,
                     TimePasses, popover
<1>15. ASSUME NEW e, MenuClick(e) PROVE KnownWindow'  BY <1>15, <1>u DEF MenuClick, popover
<1>16. CASE SecondStart \/ HelperEnds \/ CollectorSteps
  BY <1>16, <1>u DEF SecondStart, HelperEnds, CollectorSteps, popover
<1>17. CASE UNCHANGED vars  BY <1>17, <1>u DEF vars, popover
<1> QED
  BY <1>1, <1>2, <1>3, <1>4, <1>5, <1>6, <1>7, <1>8, <1>9, <1>10, <1>11, <1>12, <1>13, <1>14,
     <1>15, <1>16, <1>17 DEF Next, Pass

\* There is at most one popover, and it is the one the program has a handle of.
THEOREM PopoverSafe == Spec => []OnePopover
<1>1. Init => KnownWindow  BY ConstantsOK DEF Init, KnownWindow
<1>2. KnownWindow => OnePopover
  <2> SUFFICES ASSUME KnownWindow PROVE Cardinality(windows) <= 1
    BY DEF KnownWindow, OnePopover
  <2>1. windows = {} \/ windows = {handle}  BY DEF KnownWindow
  <2>2. Cardinality({}) = 0 /\ Cardinality({handle}) = 1  BY FS_EmptySet, FS_Singleton
  <2> QED  BY <2>1, <2>2
<1> QED  BY <1>1, <1>2, NextKnown, PTL DEF Spec

-----------------------------------------------------------------------------
(* The tray.                                                                 *)

\* While a click on an open popover is under way, the program has a handle, or
\* what took it away has started the cooldown and that has not ended.
ClickInv == click # "none" /\ wasOpen /\ ~lapsed => handle # NoWindow \/ hidden = "cooling"

LEMMA NextClick == KnownWindow /\ ClickInv /\ [Next]_vars => ClickInv'
<1> SUFFICES ASSUME KnownWindow, ClickInv, [Next]_vars PROVE ClickInv'  OBVIOUS
<1>h. ASSUME NEW w, Hide(w) PROVE ClickInv'  BY <1>h DEF Hide, ClickInv
<1>u. ASSUME UNCHANGED <<handle, hidden>>, UNCHANGED <<click, wasOpen, lapsed>> \/ wasOpen' = FALSE
      PROVE  ClickInv'
  BY <1>u DEF ClickInv
<1>1. CASE Wake         BY <1>1, <1>u DEF Wake, popover, inputs
<1>2. CASE Request      BY <1>2, <1>u DEF Request, popover, ClickInv
<1>3. CASE Timers       BY <1>3, <1>u, <1>h DEF Timers, popover, inputs
<1>4. CASE Resize       BY <1>4, <1>u DEF Resize, inputs
<1>5. CASE Tray         BY <1>5, <1>u DEF Tray, popover, ClickInv
<1>6. CASE LoginAnswer  BY <1>6, <1>u DEF LoginAnswer, popover, inputs
<1>7. CASE MenuEvent
  <2>1. CASE Head(menu) \in {"open", "reset"}
    BY <1>7, <2>1 DEF MenuEvent, ClickInv
  <2>2. CASE Head(menu) \notin {"open", "reset"}
    <3>1. UNCHANGED <<handle, hidden, click, lapsed>> /\ (wasOpen' => wasOpen)
      BY <1>7, <2>2 DEF MenuEvent, popover
    <3> QED  BY <3>1 DEF ClickInv
  <2> QED  BY <2>1, <2>2
<1>8. CASE MenuEmpty    BY <1>8, <1>u DEF MenuEmpty, popover, inputs
<1>9. CASE Snapshot     BY <1>9, <1>u DEF Snapshot, popover, inputs
<1>10. CASE Collect     BY <1>10, <1>u DEF Collect, popover, inputs
<1>11. CASE Ended       BY <1>11, <1>u DEF Ended, vars, popover, inputs
<1>12. ASSUME NEW w \in Window, KeyDown(w) \/ Blur(w) \/ WindowLost(w) PROVE ClickInv'
  BY <1>12, <1>u, <1>h DEF KeyDown, Blur, WindowLost, Settings, inputs
<1>13. CASE HeaderAction \/ Drag \/ Measure \/ RefreshClick
  BY <1>13, <1>u DEF HeaderAction, Settings, Drag, Measure, RefreshClick, popover, inputs
<1>14. CASE TrayDown    BY <1>14 DEF TrayDown, popover, KnownWindow, ClickInv
<1>15. CASE TrayUp      BY <1>15 DEF TrayUp, popover, ClickInv
<1>16. CASE TimePasses
  <2>1. UNCHANGED <<handle, click, wasOpen>>  BY <1>16 DEF TimePasses
  <2>2. CASE CooldownEnds
    <3>1. CASE click = "none"  BY <2>1, <3>1 DEF ClickInv
    <3>2. CASE click # "none"  BY <2>2, <3>2 DEF CooldownEnds, ClickInv
    <3> QED  BY <3>1, <3>2
  <2>3. CASE UNCHANGED lapsed /\ (hidden = "cooling" => UNCHANGED hidden)
    BY <2>1, <2>3 DEF ClickInv
  <2> QED  BY <1>16, <2>2, <2>3 DEF TimePasses
<1>17. ASSUME NEW e, MenuClick(e) PROVE ClickInv'  BY <1>17, <1>u DEF MenuClick, popover
<1>18. CASE SecondStart \/ HelperEnds \/ CollectorSteps
  BY <1>18, <1>u DEF SecondStart, HelperEnds, CollectorSteps, popover, inputs
<1>19. CASE UNCHANGED vars  BY <1>19, <1>u DEF vars, popover, inputs
<1> QED
  BY <1>1, <1>2, <1>3, <1>4, <1>5, <1>6, <1>7, <1>8, <1>9, <1>10, <1>11, <1>12, <1>13, <1>14,
     <1>15, <1>16, <1>17, <1>18, <1>19 DEF Next, Pass

\* The only step that consumes a click is the one of the pass that looks at it.
LEMMA ClickIsTaken == [Next]_vars /\ click = "up" /\ click' = "none" => Toggle
<1> SUFFICES ASSUME [Next]_vars, click = "up", click' = "none" PROVE Tray \/ Toggle
  BY DEF Tray
<1>1. CASE Wake \/ Request \/ Timers \/ Resize \/ LoginAnswer \/ MenuEvent \/ MenuEmpty
           \/ Snapshot \/ Collect \/ Ended
  BY <1>1 DEF Wake, Request, Timers, Resize, LoginAnswer, MenuEvent, MenuEmpty, Snapshot,
              Collect, Ended, vars, inputs
<1>2. ASSUME NEW w \in Window, KeyDown(w) \/ Blur(w) \/ WindowLost(w) PROVE FALSE
  BY <1>2 DEF KeyDown, Blur, WindowLost, inputs
<1>3. CASE HeaderAction \/ Drag \/ Measure \/ RefreshClick \/ TrayDown \/ TrayUp \/ TimePasses
  BY <1>3 DEF HeaderAction, Drag, Measure, RefreshClick, TrayDown, TrayUp, TimePasses, inputs
<1>4. ASSUME NEW e, MenuClick(e) PROVE FALSE  BY <1>4 DEF MenuClick
<1>5. CASE SecondStart \/ HelperEnds \/ CollectorSteps
  BY <1>5 DEF SecondStart, HelperEnds, CollectorSteps, inputs
<1>6. CASE UNCHANGED vars  BY <1>6 DEF vars, inputs
<1> QED  BY <1>1, <1>2, <1>3, <1>4, <1>5, <1>6 DEF Next, Pass

\* A click on the tray while the popover is open closes it, whatever takes the
\* window away between the button and the pass that looks at the click, if the
\* pass comes before the end of the cooldown.
THEOREM ClickSafe == Spec => ClickOnOpenCloses
<1>1. Init => KnownWindow /\ ClickInv  BY ConstantsOK DEF Init, KnownWindow, ClickInv
<1>2. ASSUME KnownWindow, ClickInv, [Next]_vars, click = "up", click' = "none", wasOpen, ~lapsed
      PROVE  windows' = {}
  <2>1. Toggle  BY <1>2, ClickIsTaken
  <2>2. CASE handle # NoWindow  BY <1>2, <2>1, <2>2, HideKnown DEF Toggle
  <2>3. CASE handle = NoWindow
    <3>1. windows = {} /\ hidden = "cooling"  BY <1>2, <2>3 DEF KnownWindow, ClickInv
    <3> QED  BY <2>1, <2>3, <3>1 DEF Toggle, popover
  <2> QED  BY <2>2, <2>3
<1>3. KnownWindow /\ ClickInv /\ [Next]_vars
        => [click = "up" /\ click' = "none" /\ wasOpen /\ ~lapsed => windows' = {}]_vars
  BY <1>2
<1> QED  BY <1>1, <1>3, NextKnown, NextClick, PTL DEF Spec, ClickOnOpenCloses

-----------------------------------------------------------------------------
(* The login setting.  The check mark waits for an answer exactly while a    *)
(* helper works or its answer waits, never both, and an answer that is no    *)
(* failure is the setting: only the helper changes it.                       *)
Clicked == \E i \in DOMAIN menu : menu[i] = "launch"

LoginInv ==
    /\ menu \in Seq(Item)
    /\ pending \in BOOLEAN
    /\ pending = (helper # "none" \/ result.sent)
    /\ helper # "none" => ~result.sent
    /\ result.sent /\ ~failed => result.value = setting
    /\ MarkTellsSetting

\* What is left in the menu after its first event.
LEMMA MenuTail ==
  ASSUME menu \in Seq(Item), menu # <<>>
  PROVE  /\ Tail(menu) \in Seq(Item)
         /\ Clicked => Head(menu) = "launch" \/ \E i \in DOMAIN Tail(menu) : Tail(menu)[i] = "launch"
<1>1. Tail(menu) \in Seq(Item) /\ Len(menu) \in Nat \ {0} /\ Len(Tail(menu)) = Len(menu) - 1
      /\ DOMAIN Tail(menu) = 1 .. Len(menu) - 1 /\ DOMAIN menu = 1 .. Len(menu)
      /\ \A i \in 1 .. Len(menu) - 1 : Tail(menu)[i] = menu[i + 1]
  OBVIOUS
<1>2. ASSUME NEW i \in DOMAIN menu, menu[i] = "launch", i # 1
      PROVE  \E k \in DOMAIN Tail(menu) : Tail(menu)[k] = "launch"
  <2>1. i - 1 \in 1 .. Len(menu) - 1 /\ (i - 1) + 1 = i  BY <1>1, <1>2
  <2> QED  BY <1>1, <1>2, <2>1
<1> QED  BY <1>1, <1>2 DEF Clicked

\* A step that leaves the login setting alone, and adds nothing to the menu.
LEMMA StepLogin ==
  ASSUME LoginInv, UNCHANGED login, UNCHANGED menu
  PROVE  LoginInv'
  BY DEF LoginInv, MarkTellsSetting, login

LEMMA MenuLogin == ASSUME LoginInv, MenuEvent PROVE LoginInv'
<1>1. /\ menu' = Tail(menu) /\ menu' \in Seq(Item)
      /\ Clicked => Head(menu) = "launch" \/ Clicked'
  BY MenuTail DEF MenuEvent, LoginInv, Clicked
<1>2. CASE UNCHANGED login /\ (Head(menu) # "launch" \/ pending)
  BY <1>1, <1>2 DEF LoginInv, MarkTellsSetting, login, Clicked
<1>3. CASE ~pending /\ Head(menu) = "launch"
  <2>1. /\ pending' = TRUE /\ helper' \in {"on", "off"}
        /\ UNCHANGED <<mark, setting, result, failed>>
    BY <1>3 DEF MenuEvent, ChangeSetting
  <2> QED  BY <1>1, <1>3, <2>1 DEF LoginInv, MarkTellsSetting
<1> QED  BY <1>2, <1>3 DEF MenuEvent, ChangeSetting, LoginInv

LEMMA HelperLogin == ASSUME LoginInv, HelperEnds PROVE LoginInv'
<1>1. /\ UNCHANGED menu /\ helper' = "none" /\ helper # "none"
      /\ result'.sent = TRUE /\ (~failed' => result'.value = setting')
      /\ UNCHANGED pending
  BY DEF HelperEnds, inputs
<1> QED  BY <1>1 DEF LoginInv, MarkTellsSetting

LEMMA NextLogin == LoginInv /\ [Next]_vars => LoginInv'
<1> SUFFICES ASSUME LoginInv, [Next]_vars PROVE LoginInv'  OBVIOUS
<1>1. CASE Wake \/ Request \/ Timers \/ Resize \/ Tray \/ MenuEmpty \/ Snapshot \/ Collect \/ Ended
  BY <1>1, StepLogin DEF Wake, Request, Timers, Resize, Tray, MenuEmpty, Snapshot, Collect,
                         Ended, vars, inputs
<1>2. CASE LoginAnswer
  <2>1. CASE result.sent
    <3>1. mark' = result.value /\ pending' = FALSE /\ result'.sent = FALSE
          /\ UNCHANGED <<menu, setting, helper, failed>>
      BY <1>2, <2>1 DEF LoginAnswer, NoResult, inputs
    <3> QED  BY <2>1, <3>1 DEF LoginInv, MarkTellsSetting
  <2>2. CASE ~result.sent  BY <1>2, <2>2, StepLogin DEF LoginAnswer, inputs, login
  <2> QED  BY <2>1, <2>2
<1>3. CASE MenuEvent  BY <1>3, MenuLogin
<1>4. ASSUME NEW w \in Window, KeyDown(w) \/ Blur(w) \/ WindowLost(w) PROVE LoginInv'
  BY <1>4, StepLogin DEF KeyDown, Blur, WindowLost, Between, inputs
<1>5. CASE HeaderAction \/ Drag \/ Measure \/ RefreshClick \/ TrayDown \/ TrayUp \/ TimePasses
  BY <1>5, StepLogin DEF HeaderAction, Drag, Measure, RefreshClick, TrayDown, TrayUp,
                         TimePasses, Between, inputs
<1>6. ASSUME NEW e \in Item, MenuClick(e) PROVE LoginInv'
  <2>1. /\ menu' = Append(menu, e) /\ menu' \in Seq(Item) /\ Len(menu) \in Nat
        /\ UNCHANGED <<pending, setting, helper, result, failed>>
        /\ e # "launch" => UNCHANGED mark
    BY <1>6 DEF MenuClick, LoginInv
  <2>2. DOMAIN menu' = 1 .. Len(menu) + 1 /\ DOMAIN menu = 1 .. Len(menu)
        /\ menu'[Len(menu) + 1] = e /\ \A i \in 1 .. Len(menu) : menu'[i] = menu[i]
    BY <2>1 DEF LoginInv
  <2>3. (Clicked => Clicked') /\ (e = "launch" => Clicked')  BY <2>1, <2>2 DEF Clicked
  <2> QED  BY <2>1, <2>3 DEF LoginInv, MarkTellsSetting, Clicked
<1>7. CASE HelperEnds  BY <1>7, HelperLogin
<1>8. CASE SecondStart \/ CollectorSteps
  BY <1>8, StepLogin DEF SecondStart, CollectorSteps, inputs
<1>9. CASE UNCHANGED vars  BY <1>9, StepLogin DEF vars, inputs
<1> QED  BY <1>1, <1>2, <1>3, <1>4, <1>5, <1>6, <1>7, <1>8, <1>9 DEF Next, Pass, Item

\* When nothing is under way the check mark shows the login setting, unless the
\* last helper failed.
THEOREM MarkSafe == Spec => []MarkTellsSetting
<1>1. Init => LoginInv
  <2> SUFFICES ASSUME Init PROVE LoginInv  OBVIOUS
  <2>1. menu \in Seq(Item)  BY DEF Init
  <2>2. pending = TRUE /\ helper # "none" /\ ~result.sent  BY DEF Init, NoResult
  <2> QED  BY <2>1, <2>2 DEF LoginInv, MarkTellsSetting
<1>2. LoginInv => MarkTellsSetting  BY DEF LoginInv
<1> QED  BY <1>1, <1>2, NextLogin, PTL DEF Spec

-----------------------------------------------------------------------------
(* Refreshes.  The newest snapshot that waits says "busy" only while the     *)
(* collectors work, so that taking it leaves another one to come.            *)
RefreshInv == ShimmerIsBacked /\ (inbox = "busy" => busy)

LEMMA NextRefresh == RefreshInv /\ [Next]_vars => RefreshInv'
<1> SUFFICES ASSUME RefreshInv, [Next]_vars PROVE RefreshInv'  OBVIOUS
<1>u. ASSUME UNCHANGED <<refreshing, inbox, command, busy>> PROVE RefreshInv'
  BY <1>u DEF RefreshInv, ShimmerIsBacked
<1>1. CASE Wake \/ Request \/ Timers \/ Resize \/ Tray \/ LoginAnswer \/ MenuEmpty \/ Ended
  BY <1>1, <1>u DEF Wake, Request, Timers, Resize, Tray, LoginAnswer, MenuEmpty, Ended, vars,
                    refresh
<1>2. CASE MenuEvent   BY <1>2, <1>u DEF MenuEvent, refresh
<1>3. CASE Snapshot    BY <1>3 DEF Snapshot, RefreshInv, ShimmerIsBacked
<1>4. CASE Collect     BY <1>4 DEF Collect, RefreshInv, ShimmerIsBacked
<1>5. ASSUME NEW w \in Window, KeyDown(w) \/ Blur(w) \/ WindowLost(w) PROVE RefreshInv'
  BY <1>5, <1>u DEF KeyDown, Blur, WindowLost, refresh
<1>6. CASE HeaderAction \/ Drag \/ Measure \/ RefreshClick \/ TrayDown \/ TrayUp \/ TimePasses
  BY <1>6, <1>u DEF HeaderAction, Drag, Measure, RefreshClick, TrayDown, TrayUp, TimePasses,
                    refresh
<1>7. ASSUME NEW e, MenuClick(e) PROVE RefreshInv'  BY <1>7, <1>u DEF MenuClick, refresh
<1>8. CASE SecondStart \/ HelperEnds
  BY <1>8, <1>u DEF SecondStart, HelperEnds, refresh
<1>9. CASE CollectorSteps
  BY <1>9 DEF CollectorSteps, RefreshInv, ShimmerIsBacked
<1>10. CASE UNCHANGED vars  BY <1>10, <1>u DEF vars, refresh
<1> QED  BY <1>1, <1>2, <1>3, <1>4, <1>5, <1>6, <1>7, <1>8, <1>9, <1>10 DEF Next, Pass

\* The mark of a refresh is never left on with nothing under way that would end it.
THEOREM ShimmerSafe == Spec => []ShimmerIsBacked
<1>1. Init => RefreshInv  BY DEF Init, RefreshInv, ShimmerIsBacked
<1>2. RefreshInv => ShimmerIsBacked  BY DEF RefreshInv
<1> QED  BY <1>1, <1>2, NextRefresh, PTL DEF Spec
=============================================================================
