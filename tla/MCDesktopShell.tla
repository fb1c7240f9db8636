---------------------------- MODULE MCDesktopShell ----------------------------
(* Instances of DesktopShell for TLC.                                        *)
EXTENDS DesktopShell

CONSTANTS w1, w2

\* The popover with everything that opens and closes it; the login setting, and
\* refreshes, which touch none of it, in behaviours of their own.
MCMixes == {{"window", "tray", "menu", "hide"}, {"login", "quit"}, {"refresh", "menu"}}
=============================================================================
