---------------------------- MODULE MCTimedSending ----------------------------
(* Clients and their ticks for the TLC runs of TimedSending. *)
EXTENDS TimedSending, TLC

CONSTANTS c1, c2

Both(m, n) == c1 :> m @@ c2 :> n

\* One client alone, with the card or the timer's reference, so that its
\* messages meet in the stream and the stream is drained again; the other's
\* -m is refused.  And both together, so that the parent accepts again.
Ticks == Both(1, 4) :> Both(1, 0) @@ Both(3, 4) :> Both(3, 0)
           @@ Both(0, 2) :> Both(1, 0)
AllModes == DOMAIN Ticks
=============================================================================
