----------------------------- MODULE DesktopShell -----------------------------
(***************************************************************************)
(* The native window of the Rust program (src/apps/rust/src/bin/main.rs):  *)
(* a popover that the tray, a menu, a second start and the keyboard open   *)
(* and close, the login setting behind a check mark, and refreshes.        *)
(*                                                                         *)
(* All of it runs in one thread.  Every 100 ms a task makes a pass over    *)
(* what has come in through channels, in a fixed order and without a pause *)
(* (pass); the window's own events come between two passes, when the task  *)
(* waits.  The collector, the helper that reads and changes the setting    *)
(* and other programs act at any time.                                     *)
(***************************************************************************)
EXTENDS Naturals, Sequences, FiniteSets

CONSTANTS
    Window,         \* identities of native windows, used again and again
    NoWindow,       \* none of them
    Mixes,          \* which kinds of input come together in a behaviour
    MaxEvents       \* bound: clicks in the menu that wait for a pass

Kinds == {"window", "tray", "menu", "login", "refresh", "hide", "quit"}

ASSUME ConstantsOK ==
    /\ NoWindow \notin Window
    /\ Mixes \subseteq SUBSET Kinds
    /\ MaxEvents \in Nat

VARIABLES
    mix,            \* the kinds of input of this behaviour
    pass,           \* what the pass looks at next, "wait" between two passes
    handle,         \* window_handle: the popover as far as the program knows
    windows,        \* the popovers that exist
    pinned, dragging,
    opened,         \* opened_at: never, within the grace period, before it
    hidden,         \* hidden_since: never, within the cooldown, before it, long ago
    compact,        \* the user changed the session (compact, expanded, theme)
    measured,       \* desired_height is set
    slot,           \* a request of a second start
    click,          \* the tray's button: none, down, up (its event is queued)
    wasOpen,        \* history: a popover existed when the button went down, and
                    \* nothing but the click has asked for one since
    lapsed,         \* history: a cooldown has ended during that click
    menu,           \* the queue of menu events
    mark, pending,  \* the check mark; startup_pending, and the item is disabled
    setting,        \* the login setting itself
    helper, result, \* the thread that reads or changes it, and what it sent
    failed,         \* history: the last helper failed
    requested, refreshing,
    inbox,          \* the newest snapshot in the channel: none, busy, idle
    command, busy   \* a command waits for the monitor; its collectors work

popover == <<handle, windows, pinned, dragging, opened, hidden, compact, measured>>
inputs == <<slot, click, wasOpen, lapsed, menu>>
login == <<mark, pending, setting, helper, result, failed>>
refresh == <<requested, refreshing, inbox, command, busy>>
vars == <<mix, pass, popover, inputs, login, refresh>>

NoResult == [sent |-> FALSE, value |-> FALSE]

TypeOK ==
    /\ mix \subseteq Kinds
    /\ pass \in {"wait", "request", "timers", "resize", "tray", "login", "menu",
                 "snapshot", "collect", "ended"}
    /\ handle \in Window \cup {NoWindow} /\ windows \subseteq Window
    /\ opened \in {"never", "grace", "before"}
    /\ hidden \in {"never", "cooling", "before", "long"}
    /\ click \in {"none", "down", "up"}
    /\ menu \in Seq({"open", "reset", "refresh", "launch", "quit"})
    /\ helper \in {"none", "query", "on", "off"}
    /\ {pinned, dragging, compact, measured, slot, wasOpen, lapsed, mark, pending,
        setting, failed, requested, refreshing, command, busy} \subseteq BOOLEAN
    /\ result \in [sent : BOOLEAN, value : BOOLEAN]
    /\ inbox \in {"none", "busy", "idle"}

\* main: the state before the first pass, after a popover was opened for --show.
Init ==
    /\ mix \in Mixes
    /\ pass = "request"
    /\ \/ handle = NoWindow /\ windows = {} /\ opened = "never"
       \/ \E w \in Window : handle = w /\ windows = {w} /\ opened = "grace"
    /\ pinned \in BOOLEAN
    /\ dragging = FALSE /\ hidden = "never" /\ compact = FALSE /\ measured = FALSE
    /\ slot = FALSE /\ click = "none" /\ wasOpen = FALSE /\ lapsed = FALSE /\ menu = <<>>
    /\ mark = FALSE /\ pending = TRUE
    /\ setting \in BOOLEAN /\ helper = "query" /\ result = NoResult /\ failed = FALSE
    /\ requested = FALSE /\ refreshing = FALSE /\ inbox = "none"
    /\ command = FALSE /\ busy = FALSE

-----------------------------------------------------------------------------
(* The popover.                                                              *)

\* Mutant: a popover that exists is not looked for.
OpenAnother ==
    /\ \E w \in Window \ windows : handle' = w /\ windows' = windows \cup {w}
    /\ opened' = "grace"
    /\ hidden' = "never"
    /\ dragging' = FALSE
    /\ compact' = (compact /\ hidden # "long")
    /\ UNCHANGED <<pinned, measured>>

\* open_popover: the window there is comes to the front; a handle whose window is
\* gone is forgotten; a new window may fail.  A long rest resets the session.
OpenPopover ==
    /\ opened' = "grace"
    /\ UNCHANGED <<pinned, measured>>
    /\ \/ /\ handle \in windows
          /\ UNCHANGED <<handle, windows, hidden, dragging, compact>>
       \/ /\ handle \notin windows
          /\ \/ \E w \in Window \ windows : handle' = w /\ windows' = windows \cup {w}
             \/ handle' = NoWindow /\ UNCHANGED windows
          /\ hidden' = "never"
          /\ dragging' = FALSE
          /\ compact' = (compact /\ hidden # "long")

\* The window w is removed and the handle cleared: close_popover (with the window
\* of the handle), the Escape key and the loss of focus (with their own window).
Hide(w) ==
    /\ handle' = NoWindow
    /\ windows' = windows \ {w}
    /\ opened' = "never"
    /\ hidden' = "cooling"
    /\ UNCHANGED <<pinned, dragging, compact, measured>>

-----------------------------------------------------------------------------
(* The passes.                                                               *)

Goto(p) == pass' = p /\ UNCHANGED mix

Wake == pass = "wait" /\ Goto("request") /\ UNCHANGED <<popover, inputs, login, refresh>>

Request ==
    /\ pass = "request"
    /\ Goto("timers")
    /\ IF slot THEN slot' = FALSE /\ wasOpen' = FALSE /\ OpenPopover
               ELSE UNCHANGED <<slot, wasOpen, popover>>
    /\ UNCHANGED <<click, lapsed, menu, login, refresh>>

\* --hide-after, once, and --quit-after.
Timers ==
    /\ pass = "timers"
    /\ \/ Goto("resize") /\ UNCHANGED popover
       \/ "hide" \in mix /\ mix' = mix \ {"hide"} /\ pass' = "resize" /\ Hide(handle)
       \/ "quit" \in mix /\ Goto("ended") /\ UNCHANGED popover
    /\ UNCHANGED <<inputs, login, refresh>>

\* The popover takes the height of its content; a drag ends when its size changes.
Resize ==
    /\ pass = "resize"
    /\ Goto("tray")
    /\ measured' = FALSE
    /\ dragging' \in IF measured /\ handle \in windows THEN {dragging, FALSE} ELSE {dragging}
    /\ UNCHANGED <<handle, windows, pinned, opened, hidden, compact, inputs, login, refresh>>

\* Mutant: a click may reopen what the same click has just hidden.
ToggleAlways == IF handle # NoWindow THEN Hide(handle) ELSE OpenPopover

\* A left click on the tray.
Toggle ==
    IF handle # NoWindow THEN Hide(handle)
    ELSE IF hidden # "cooling" THEN OpenPopover
    ELSE UNCHANGED popover

Tray ==
    /\ pass = "tray"
    /\ \/ /\ click = "up"
          /\ Toggle
          /\ click' = "none"
          /\ wasOpen' = FALSE
          /\ lapsed' = FALSE
          /\ Goto("tray")
       \/ /\ click # "up"
          /\ Goto("login")
          /\ UNCHANGED <<popover, click, wasOpen, lapsed>>
    /\ UNCHANGED <<slot, menu, login, refresh>>

\* Mutant: the answer enables the item and leaves its mark alone.
AnswerEnables ==
    /\ pass = "login"
    /\ Goto("menu")
    /\ IF result.sent THEN pending' = FALSE /\ result' = NoResult
                      ELSE UNCHANGED <<pending, result>>
    /\ UNCHANGED <<popover, inputs, mark, setting, helper, failed, refresh>>

\* The helper's answer: the item is enabled and shows the setting; after a
\* failure, the opposite of what was asked for.
LoginAnswer ==
    /\ pass = "login"
    /\ Goto("menu")
    /\ IF result.sent THEN mark' = result.value /\ pending' = FALSE /\ result' = NoResult
                      ELSE UNCHANGED <<mark, pending, result>>
    /\ UNCHANGED <<popover, inputs, setting, helper, failed, refresh>>

\* A click on the check mark starts the helper with the mark as it is now; no
\* second one while it works.
ChangeSetting ==
    IF pending THEN UNCHANGED login
    ELSE /\ pending' = TRUE
         /\ helper' = (IF mark THEN "on" ELSE "off")
         /\ UNCHANGED <<mark, setting, result, failed>>

\* "Reset Position" closes the popover and opens it again at its place.
Reopen ==
    LET rest == windows \ {handle} IN
    /\ \/ \E w \in Window \ rest : handle' = w /\ windows' = rest \cup {w}
       \/ handle' = NoWindow /\ windows' = rest
    /\ opened' = "grace" /\ hidden' = "never" /\ dragging' = FALSE
    /\ UNCHANGED <<pinned, compact, measured>>

MenuEvent ==
    /\ pass = "menu"
    /\ menu # <<>>
    /\ menu' = Tail(menu)
    /\ Goto(IF Head(menu) = "quit" THEN "ended" ELSE "menu")
    /\ CASE Head(menu) = "launch" -> ChangeSetting /\ UNCHANGED <<popover, refresh>>
         [] Head(menu) = "refresh" -> /\ requested' = TRUE
                                      /\ UNCHANGED <<refreshing, inbox, command, busy, popover, login>>
         [] Head(menu) = "open" -> OpenPopover /\ UNCHANGED <<login, refresh>>
         [] Head(menu) = "reset" -> Reopen /\ UNCHANGED <<login, refresh>>
         [] OTHER -> UNCHANGED <<popover, login, refresh>>
    /\ wasOpen' = (wasOpen /\ Head(menu) \notin {"open", "reset"})
    /\ UNCHANGED <<slot, click, lapsed>>

MenuEmpty ==
    /\ pass = "menu"
    /\ menu = <<>>
    /\ Goto("snapshot")
    /\ UNCHANGED <<popover, inputs, login, refresh>>

\* The newest of the snapshots that have arrived.
Snapshot ==
    /\ pass = "snapshot"
    /\ Goto("collect")
    /\ refreshing' = (IF inbox = "none" THEN refreshing ELSE inbox = "busy")
    /\ inbox' = "none"
    /\ UNCHANGED <<popover, inputs, login, requested, command, busy>>

\* Mutant: the refresh is shown and not sent.
CollectUnsent ==
    /\ pass = "collect"
    /\ Goto("wait")
    /\ IF requested THEN requested' = FALSE /\ refreshing' = TRUE
                    ELSE UNCHANGED <<requested, refreshing>>
    /\ UNCHANGED <<popover, inputs, login, inbox, command, busy>>

\* A refresh is shown at once and sent to the monitor.
Collect ==
    /\ pass = "collect"
    /\ Goto("wait")
    /\ IF requested THEN requested' = FALSE /\ refreshing' = TRUE /\ command' = TRUE
                    ELSE UNCHANGED <<requested, refreshing, command>>
    /\ UNCHANGED <<popover, inputs, login, inbox, busy>>

-----------------------------------------------------------------------------
(* Between two passes: events of the window, while its task waits.           *)

Between(kind) == pass = "wait" /\ kind \in mix /\ UNCHANGED <<mix, pass, login>>

\* Pin and compact mode.
Settings ==
    /\ \/ pinned' = ~pinned /\ UNCHANGED compact
       \/ compact' = TRUE /\ UNCHANGED pinned
    /\ UNCHANGED <<handle, windows, dragging, opened, hidden, measured>>

\* Escape hides a popover that is not pinned; the shortcuts change settings.
KeyDown(w) ==
    /\ Between("window") /\ w \in windows
    /\ \/ ~pinned /\ Hide(w)
       \/ Settings
    /\ UNCHANGED <<inputs, refresh>>

HeaderAction == Between("window") /\ windows # {} /\ Settings /\ UNCHANGED <<inputs, refresh>>

\* observe_window_activation: the focus goes elsewhere.
Blur(w) ==
    /\ Between("window") /\ w \in windows
    /\ ~pinned /\ ~dragging /\ opened # "grace"
    /\ Hide(w)
    /\ UNCHANGED <<inputs, refresh>>

\* The platform takes the window away; the handle stays.
WindowLost(w) ==
    /\ Between("window") /\ w \in windows
    /\ windows' = windows \ {w}
    /\ UNCHANGED <<handle, pinned, dragging, opened, hidden, compact, measured, inputs, refresh>>

\* The mouse goes down or up on the header.
Drag ==
    /\ Between("window") /\ windows # {}
    /\ dragging' = ~dragging
    /\ UNCHANGED <<handle, windows, pinned, opened, hidden, compact, measured, inputs, refresh>>

\* The content is drawn.
Measure ==
    /\ Between("window") /\ windows # {}
    /\ measured' = TRUE
    /\ UNCHANGED <<handle, windows, pinned, dragging, opened, hidden, compact, inputs, refresh>>

RefreshClick ==
    /\ Between("refresh")
    /\ requested' = TRUE
    /\ UNCHANGED <<popover, inputs, refreshing, inbox, command, busy>>

TrayDown ==
    /\ Between("tray") /\ click = "none"
    /\ click' = "down"
    /\ wasOpen' = (windows # {})
    /\ UNCHANGED <<popover, slot, lapsed, menu, refresh>>

TrayUp ==
    /\ Between("tray") /\ click = "down"
    /\ click' = "up"
    /\ UNCHANGED <<popover, slot, wasOpen, lapsed, menu, refresh>>

MenuClick(e) ==
    /\ pass = "wait" /\ Len(menu) < MaxEvents
    /\ IF e = "launch" THEN "login" \in mix /\ ~pending /\ mark' = ~mark
                       ELSE "menu" \in mix /\ UNCHANGED mark
    /\ menu' = Append(menu, e)
    /\ UNCHANGED <<mix, pass, popover, slot, click, wasOpen, lapsed, pending, setting,
                   helper, result, failed, refresh>>

\* The cooldown ends, if need be while a click is under way.
CooldownEnds ==
    /\ hidden = "cooling" /\ hidden' = "before"
    /\ lapsed' = (click # "none")
    /\ UNCHANGED opened

\* Time: the grace period, the cooldown and the rest pass, whatever the loop does.
TimePasses ==
    /\ pass # "ended"
    /\ \/ opened = "grace" /\ opened' = "before" /\ UNCHANGED <<hidden, lapsed>>
       \/ CooldownEnds
       \/ hidden = "before" /\ hidden' = "long" /\ UNCHANGED <<opened, lapsed>>
    /\ UNCHANGED <<mix, pass, handle, windows, pinned, dragging, compact, measured,
                   slot, click, wasOpen, menu, login, refresh>>

-----------------------------------------------------------------------------
(* Other threads and programs, at any time.                                  *)

SecondStart ==
    /\ "tray" \in mix /\ ~slot
    /\ slot' = TRUE
    /\ UNCHANGED <<mix, pass, popover, click, wasOpen, lapsed, menu, login, refresh>>

\* The helper, run_startup_helper: it reads the setting, or changes it and reads
\* it again.  A failure may come before or after the change.
HelperEnds ==
    /\ "login" \in mix /\ helper # "none"
    /\ helper' = "none"
    /\ \/ /\ setting' = (IF helper = "query" THEN setting ELSE helper = "on")
          /\ result' = [sent |-> TRUE, value |-> setting']
          /\ failed' = FALSE
       \/ /\ setting' \in IF helper = "query" THEN {setting} ELSE {setting, helper = "on"}
          /\ result' = [sent |-> TRUE, value |-> helper = "off"]
          /\ failed' = TRUE
    /\ UNCHANGED <<mix, pass, popover, inputs, mark, pending, refresh>>

\* The monitor (EngineMonitor) takes the command, works and is done, or works of
\* its own accord; each time it sends a snapshot.
CollectorSteps ==
    /\ "refresh" \in mix
    /\ \/ busy' = TRUE /\ inbox' = "busy" /\ command' = FALSE
       \/ busy /\ busy' = FALSE /\ inbox' = "idle" /\ UNCHANGED command
    /\ UNCHANGED <<mix, pass, popover, inputs, login, requested, refreshing>>

-----------------------------------------------------------------------------
Pass == Wake \/ Request \/ Timers \/ Resize \/ Tray \/ LoginAnswer \/ MenuEvent
        \/ MenuEmpty \/ Snapshot \/ Collect

Ended == pass = "ended" /\ UNCHANGED vars

Next ==
    \/ Pass \/ Ended
    \/ \E w \in Window : KeyDown(w) \/ Blur(w) \/ WindowLost(w)
    \/ HeaderAction \/ Drag \/ Measure \/ RefreshClick \/ TrayDown \/ TrayUp \/ TimePasses
    \/ \E e \in {"open", "reset", "refresh", "launch", "quit"} : MenuClick(e)
    \/ SecondStart \/ HelperEnds \/ CollectorSteps

Spec == Init /\ [][Next]_vars

-----------------------------------------------------------------------------
(* There is at most one popover, and the program knows it: none is left on   *)
(* the screen that no click, key or loss of focus would close, whatever      *)
(* order the tray, the menu, a second start, timers, the keyboard and the    *)
(* platform act in.                                                          *)
OnePopover == windows \subseteq {handle} /\ Cardinality(windows) <= 1

(* A click on the tray while the popover is open closes it: the loss of      *)
(* focus that the same click causes, before or after the grace period,       *)
(* pinned or not, Escape, or a window that is lost meanwhile do not turn it  *)
(* into a click that opens.  This holds of a click that a pass looks at      *)
(* within the cooldown (250 ms, main.rs:84) of what has hidden the popover.  *)
(* The code bounds neither the time the button is held nor that of a pass:   *)
(* when the button is held longer, the popover that was hidden at the press  *)
(* is opened again at the release, and lapsed is what tells this case apart. *)
ClickOnOpenCloses ==
    [][click = "up" /\ click' = "none" /\ wasOpen /\ ~lapsed => windows' = {}]_vars

(* When nothing is under way, the check mark shows the login setting: clicks *)
(* made before the first answer or on a mark that is about to change never   *)
(* leave it wrong.  A helper that failed may have changed the setting all    *)
(* the same, and the mark is then unknown until the next change.             *)
MarkTellsSetting ==
    ~pending /\ ~failed /\ ~(\E i \in DOMAIN menu : menu[i] = "launch") => mark = setting

(* The mark of a refresh is never left on: something is under way that will  *)
(* send another snapshot.                                                    *)
ShimmerIsBacked == refreshing => command \/ busy \/ inbox # "none"
=============================================================================
