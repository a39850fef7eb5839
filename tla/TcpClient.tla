------------------------------ MODULE TcpClient ------------------------------
(***************************************************************************)
(* tcp_client: main() arms a periodic timer and only then opens the card   *)
(* and connects; the signal handler print_msg() makes a message at each    *)
(* tick and writes it to s, whatever s is by then.  How main() aims the    *)
(* timer is the subject of AlarmTimer; here the first expiry may come at   *)
(* any moment after the timer is armed.                                    *)
(*                                                                         *)
(* Times are counted in intervals from the appointment, so that timep is 0 *)
(* when the timer is armed, and iv_s is 1.                                 *)
(***************************************************************************)
EXTENDS TcpStream

CONSTANTS
  Modes,        \* the numbers given with -m, to all clients together
  MaxTicks      \* bound, for each of these: how often each timer expires

ASSUME ClientConstantsOK ==
  /\ Modes \subseteq [Clients -> Int]
  /\ MaxTicks \in [Modes -> [Clients -> Nat]]

VARIABLES
  pc,           \* where main() is
  mode,         \* -m
  timep,        \* the reference time
  register,     \* main()'s copy of it in "timep -= iv_s"
  fd,           \* the card is open
  s,            \* the descriptor written to: 0 until socket()
  hpc,          \* where the handler is
  buf,          \* its message
  rd_num,       \* messages made
  ticks,        \* expiries of the timer
  pending       \* a signal waits

clientVars == <<pc, mode, timep, register, fd, s, hpc, buf, rd_num, ticks,
                pending>>

MainLabels == {"options", "arm", "load", "store", "log", "card", "socket",
               "connect", "connecting", "pause", "ended"}
Armed      == MainLabels \ {"options", "arm", "ended"}

NoMessage == [n |-> 0, ref |-> 0, true |-> TRUE, tick |-> 0]

ClientTypeOK ==
  /\ pc \in [Clients -> MainLabels]
  /\ mode \in Modes
  /\ timep \in [Clients -> Int] /\ register \in [Clients -> Int]
  /\ fd \in [Clients -> BOOLEAN]
  /\ s \in [Clients -> {"stdin", "socket"}]
  /\ hpc \in [Clients -> {"idle", "write", "hung"}]
  /\ buf \in [Clients -> Message]
  /\ rd_num \in [Clients -> Nat] /\ ticks \in [Clients -> Nat]
  /\ \A c \in Clients : ticks[c] <= MaxTicks[mode][c]
  /\ pending \in [Clients -> BOOLEAN]

ClientInit ==
  /\ pc = [c \in Clients |-> "options"]
  /\ mode \in Modes
  /\ timep = [c \in Clients |-> 0] /\ register = [c \in Clients |-> 0]
  /\ fd = [c \in Clients |-> FALSE]
  /\ s = [c \in Clients |-> "stdin"]
  /\ hpc = [c \in Clients |-> "idle"]
  /\ buf = [c \in Clients |-> NoMessage]
  /\ rd_num = [c \in Clients |-> 0] /\ ticks = [c \in Clients |-> 0]
  /\ pending = [c \in Clients |-> FALSE]

-----------------------------------------------------------------------------
(* main(), which runs while its handler does not.                          *)

Go(c, from, to) ==
  /\ pc[c] = from /\ hpc[c] = "idle"
  /\ pc' = [pc EXCEPT ![c] = to]

\* The process ends, and the kernel closes its end of the connection.
End(c) ==
  /\ pc' = [pc EXCEPT ![c] = "ended"]
  /\ hpc' = [hpc EXCEPT ![c] = "idle"]
  /\ pending' = [pending EXCEPT ![c] = FALSE]
  /\ link' = [link EXCEPT ![c] = IF @ = "syn" THEN "broken" ELSE @]
  /\ ending' = [ending EXCEPT ![c] =
                  IF @ = "no" /\ link[c] \in {"queued", "up"} THEN "eof" ELSE @]
  /\ UNCHANGED <<mode, timep, register, fd, s, buf, rd_num, ticks,
                 listening, sent, arrived, taken, calm, since>>

\* getopt(): -m takes 0 to 3; an illegal one ends the program.
Options(c) ==
  \/ /\ mode[c] \in 0..3
     /\ Go(c, "options", "arm")
     /\ UNCHANGED <<mode, timep, register, fd, s, hpc, buf, rd_num, ticks,
                    pending, streamVars>>
  \/ /\ pc[c] = "options" /\ mode[c] \notin 0..3
     /\ End(c)

\* timep = mktime(tmp), and setitimer(): from here on the handler may come.
SetTimer(c) ==
  /\ Go(c, "arm", "load")
  /\ timep' = [timep EXCEPT ![c] = 0]
  /\ UNCHANGED <<mode, register, fd, s, hpc, buf, rd_num, ticks, pending,
                 streamVars>>

\* "timep -= iv_s" reads timep ...
LoadTimep(c) ==
  /\ Go(c, "load", "store")
  /\ register' = [register EXCEPT ![c] = timep[c]]
  /\ UNCHANGED <<mode, timep, fd, s, hpc, buf, rd_num, ticks, pending,
                 streamVars>>

\* Bug: the start point is not put one interval back.
StoreSame(c) ==
  /\ Go(c, "store", "log")
  /\ timep' = [timep EXCEPT ![c] = register[c]]
  /\ UNCHANGED <<mode, register, fd, s, hpc, buf, rd_num, ticks, pending,
                 streamVars>>

\* ... and writes it: what a handler in between has added is lost.
StoreTimep(c) ==
  /\ Go(c, "store", "log")
  /\ timep' = [timep EXCEPT ![c] = register[c] - 1]
  /\ UNCHANGED <<mode, register, fd, s, hpc, buf, rd_num, ticks, pending,
                 streamVars>>

\* The lines about the timer are printed, and appended to the log file.
LogTimer(c) ==
  /\ Go(c, "log", "card")
  /\ UNCHANGED <<mode, timep, register, fd, s, hpc, buf, rd_num, ticks,
                 pending, streamVars>>

\* Bug: a card that does not open is no reason to end.
OpenCardOrNot(c) ==
  /\ Go(c, "card", "socket")
  /\ \E opened \in {mode[c] = 1, FALSE} : fd' = [fd EXCEPT ![c] = opened]
  /\ UNCHANGED <<mode, timep, register, s, hpc, buf, rd_num, ticks, pending,
                 streamVars>>

\* Mode 1 opens the card, and ends without it.
OpenCard(c) ==
  \/ /\ Go(c, "card", "socket")
     /\ fd' = [fd EXCEPT ![c] = (mode[c] = 1)]
     /\ UNCHANGED <<mode, timep, register, s, hpc, buf, rd_num, ticks,
                    pending, streamVars>>
  \/ /\ pc[c] = "card" /\ hpc[c] = "idle"
     /\ mode[c] = 1 /\ "open" \in Faults
     /\ End(c)

\* socket(), whose descriptor the handler sees at once.
OpenSocket(c) ==
  \/ /\ Go(c, "socket", "connect")
     /\ s' = [s EXCEPT ![c] = "socket"]
     /\ UNCHANGED <<mode, timep, register, fd, hpc, buf, rd_num, ticks,
                    pending, streamVars>>
  \/ /\ pc[c] = "socket" /\ hpc[c] = "idle"
     /\ "socket" \in Faults
     /\ End(c)

\* inet_pton(), which without -a reads an uninitialised pointer, and
\* connect(), which waits for the network.
Connect(c) ==
  \/ /\ Go(c, "connect", "connecting")
     /\ link' = [link EXCEPT ![c] = "syn"]
     /\ UNCHANGED <<mode, timep, register, fd, s, hpc, buf, rd_num, ticks,
                    pending, listening, sent, arrived, taken, ending, calm,
                    since>>
  \/ /\ pc[c] = "connect" /\ hpc[c] = "idle"
     /\ "address" \in Faults
     /\ End(c)

\* connect() returns, and nobody looks at its result.  A connection that is
\* down by then may have been reported by it.
Connected(c) ==
  /\ Go(c, "connecting", "pause")
  /\ link[c] # "syn"
  /\ \/ UNCHANGED link
     \/ link[c] = "down" /\ link' = [link EXCEPT ![c] = "broken"]
  /\ UNCHANGED <<mode, timep, register, fd, s, hpc, buf, rd_num, ticks,
                 pending, listening, sent, arrived, taken, ending, calm,
                 since>>

Main(c) == Options(c) \/ SetTimer(c) \/ LoadTimep(c) \/ StoreTimep(c)
             \/ LogTimer(c) \/ OpenCard(c) \/ OpenSocket(c) \/ Connect(c)
             \/ Connected(c)

-----------------------------------------------------------------------------
(* The timer, and what else happens to the process.                        *)

\* The timer expires; a signal that is pending already swallows the new one.
Expire(c) ==
  /\ pc[c] \in Armed /\ ticks[c] < MaxTicks[mode][c]
  /\ ticks' = [ticks EXCEPT ![c] = @ + 1]
  /\ pending' = [pending EXCEPT ![c] = TRUE]
  /\ UNCHANGED <<pc, mode, timep, register, fd, s, hpc, buf, rd_num,
                 streamVars>>

\* Control-C.
Interrupt(c) ==
  /\ "client" \in Faults /\ pc[c] # "ended"
  /\ End(c)

-----------------------------------------------------------------------------
(* print_msg().                                                            *)

\* Modes 0 and 3 both end in the else branch, and add iv_s.
NextTimep(c) == IF mode[c] \in {1, 2} THEN timep[c] ELSE timep[c] + 1

\* Readings, printing, logging and the message.  When main() was interrupted
\* in its own printf() or fopen(), the handler's may never return.
PrintMsg(c) ==
  /\ pc[c] # "ended" /\ hpc[c] = "idle" /\ pending[c]
  /\ pending' = [pending EXCEPT ![c] = FALSE]
  /\ timep' = [timep EXCEPT ![c] = NextTimep(c)]
  /\ rd_num' = [rd_num EXCEPT ![c] = @ + 1]
  /\ buf' = [buf EXCEPT ![c] =
               [n    |-> rd_num[c] + 1,
                ref  |-> NextTimep(c),
                true |-> (mode[c] # 1 \/ fd[c]),
                tick |-> ticks[c]]]
  /\ \/ hpc' = [hpc EXCEPT ![c] = "write"]
     \/ pc[c] = "log" /\ hpc' = [hpc EXCEPT ![c] = "hung"]
  /\ UNCHANGED <<pc, mode, register, fd, s, ticks, streamVars>>

Returns(c) ==
  /\ hpc' = [hpc EXCEPT ![c] = "idle"]
  /\ UNCHANGED <<pc, mode, timep, register, fd, s, buf, rd_num, ticks,
                 pending>>

\* Bug: a write that would have to wait behind another is given up.
WriteOrDrop(c) ==
  /\ s[c] = "socket" /\ link[c] \in {"queued", "up"}
  /\ sent' = [sent EXCEPT ![c] =
               IF taken[c] = Written(c) THEN Append(@, buf[c]) ELSE @]
  /\ Returns(c)
  /\ UNCHANGED <<listening, link, arrived, taken, ending, calm, since>>

\* The message joins the stream, and its history.
WriteStream(c) ==
  /\ s[c] = "socket" /\ link[c] \in {"queued", "up"}
  /\ sent' = [sent EXCEPT ![c] = Append(@, buf[c])]
  /\ calm' = [calm EXCEPT ![c] = (taken[c] = Written(c))]
  /\ since' = [since EXCEPT ![c] = IF calm[c] THEN @ ELSE Len(sent[c])]
  /\ Returns(c)
  /\ UNCHANGED <<listening, link, arrived, taken, ending>>

\* Until socket() the message goes to standard input; to a connection that
\* is gone the first one is lost.
WriteLost(c) ==
  /\ \/ s[c] = "stdin" /\ UNCHANGED link
     \/ /\ s[c] = "socket" /\ link[c] = "down"
        /\ link' = [link EXCEPT ![c] = "broken"]
  /\ Returns(c)
  /\ UNCHANGED <<listening, sent, arrived, taken, ending, calm, since>>

\* SIGPIPE: not connected yet, or the error has been reported.
WriteKills(c) ==
  /\ s[c] = "socket" /\ link[c] \in {"none", "broken"}
  /\ End(c)

\* write(), which waits while the connection is being established.
Write(c) ==
  /\ hpc[c] = "write"
  /\ WriteStream(c) \/ WriteLost(c) \/ WriteKills(c)

Handler(c) == PrintMsg(c) \/ Write(c)
=============================================================================
