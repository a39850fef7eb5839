---------------------------- MODULE MCAlarmTimer ----------------------------
(* Command lines, clocks and settings for the TLC runs of AlarmTimer. *)
EXTENDS AlarmTimer

Run(p, s, i, m) ==
  [prog |-> p, start |-> s, iv |-> i, mode |-> m]

\* Two units make a second: intervals of one second, of a second and a half
\* ("-i 5.3"), none and negative; starts ahead, at once and in the past.
AllCommands ==
  { Run("main_user_timer", 1, 2, 1), Run("main_user_timer", 2, 3, 1),
    Run("main_user_timer", NoStart, 2, 2), Run("main_user_timer", 0, 2, 0),
    Run("main_user_timer", 2, -2, 2), Run("main_user_timer", 2, 2, 3),
    Run("posix_timer", 1, -2, 1), Run("posix_timer", NoStart, 2, 1),
    Run("rdtime_cost", 1, 4, 3) }

SomeShifts == {-1, 2}

\* No -t: the start is the next multiple of the alignment.
DefaultCommands == {Run("main_user_timer", NoStart, 2, 0)}
=============================================================================
