---------------------------- MODULE MCTempsCache ----------------------------
(* Values of the constants of TempsCache for TLC.                          *)
EXTENDS TempsCache, TLC

CONSTANTS h1, t0, t1, main

OneHandler == {h1}
OneTimer   == {t0}
TwoTimers  == {t0, t1}

\* One minute and two minutes.
ShortLives == {60, 120}
OneMinute  == {60}

\* The timers are interchangeable.
TimerSymmetry == Permutations(TwoTimers)
=============================================================================
