---------------------------- MODULE MCSyncDaemon ----------------------------
(* Command lines and symmetry for the TLC runs of SyncDaemon. *)
EXTENDS SyncDaemon, TLC

D      == [opt |-> "d", arg |-> 0]
T      == [opt |-> "t", arg |-> 0]
V      == [opt |-> "v", arg |-> 0]
H      == [opt |-> "h", arg |-> 0]
S(n)   == [opt |-> "s", arg |-> n]

\* The command lines of the install scripts, the displays, and one of every
\* option, with orders that matter: -s before and after -d, a period that is
\* too short, help after the fork.
AllArgs == {<<D>>, <<D, S(20)>>, <<T>>, <<V>>, <<D, S(9)>>, <<S(20), D>>,
            <<D, T>>, <<D, H>>}

\* Daemons, a foreground process and a display that may hold the lock.
SyncArgs   == {<<D>>, <<V>>, <<D, S(20)>>, <<T>>}
DaemonArgs == {<<D>>}

Symmetry == Permutations(Procs)
=============================================================================
