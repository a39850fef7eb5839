----------------------------- MODULE SingleWriter -----------------------------
(***************************************************************************)
(* What the lock file is for: of all the processes, one at a time may      *)
(* adjust the system clock, and it may do so from the moment it has taken  *)
(* the right until it gives it up or dies, be it in the middle of an       *)
(* adjustment.  SyncDaemon is shown to implement this.                     *)
(***************************************************************************)
CONSTANTS Procs, NoProc

VARIABLES
  writer,       \* the process that may adjust the clock, or NoProc
  adjusting     \* the processes that are adjusting it

Init == writer = NoProc /\ adjusting = {}

Take(p) ==
  /\ writer = NoProc
  /\ writer' = p
  /\ UNCHANGED adjusting

Begin(p) ==
  /\ writer = p
  /\ adjusting = {}
  /\ adjusting' = {p}
  /\ UNCHANGED writer

End(p) ==
  /\ adjusting = {p}
  /\ adjusting' = {}
  /\ UNCHANGED writer

Drop(p) ==
  /\ writer = p
  /\ writer' = NoProc
  /\ adjusting' = {}

Next == \E p \in Procs : Take(p) \/ Begin(p) \/ End(p) \/ Drop(p)

Spec == Init /\ [][Next]_<<writer, adjusting>>
=============================================================================
