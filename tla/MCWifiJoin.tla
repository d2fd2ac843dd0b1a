---------------------------- MODULE MCWifiJoin ----------------------------
(* Instances of WifiJoin for TLC: one task, or the shell and the reconnect task. *)
EXTENDS WifiJoin

CONSTANTS shell, reconnect

OneApp == {shell}
TwoApps == {shell, reconnect}
Waits == {FALSE}
Either == {FALSE, TRUE}
Never == {FALSE}
Always == {TRUE}
AnyNetwork == {"open", "wpa"}
WpaNetwork == {"wpa"}
=============================================================================
