------------------------------- MODULE MCPmu -------------------------------
(* An instance of Pmu for TLC: two tasks and a handler. *)
EXTENDS Pmu, TLC

CONSTANTS os, user, stimer, wlan, uart, adc, h1, h2

ThreeContexts == 1..3
TopHandler == {3}
LocksAndTimer ==
  <<{<<"acquire", os>>, <<"release", os>>, <<"del", wlan>>, <<"del", stimer>>},
    {<<"release", user>>, <<"add", wlan>>},
    {<<"acquire", user>>}>>
=============================================================================
