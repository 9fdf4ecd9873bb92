----------------------------- MODULE MCTimedSwitch -----------------------------
(* Values for model checking TimedSwitch. *)
EXTENDS TimedSwitch

CONSTANTS h, t, o \* the farm's pool, the target, another pool

(* The timer alone; blocks are seen, and the next one is easy or hard. *)
TimerMarks == {t, NoPool}
TimerChains == {<<"low", TRUE>>, <<"high", TRUE>>}

(* Both on the same pool, or the timer on another one. *)
BothModes == {<<TRUE, TRUE>>, <<FALSE, TRUE>>}

(* Everything on, or everything off. *)
AllModes == {<<TRUE, TRUE>>, <<FALSE, FALSE>>}
AllMarks == {t}
AllChains == {<<"low", TRUE>>, <<"high", TRUE>>}
===============================================================================
