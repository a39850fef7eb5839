------------------------------ MODULE TcpStream ------------------------------
(***************************************************************************)
(* The TCP connections from tcp_client processes to the server, one for    *)
(* each client, as the two programs see them: a stream of bytes without    *)
(* boundaries.  A message is MsgLen units of the stream, of which the      *)
(* network may deliver any number at a time.  Only where the stream is is  *)
(* kept, and which messages were written to it: unit u (from 0) belongs to *)
(* message u \div MsgLen + 1.                                              *)
(***************************************************************************)
EXTENDS Integers, Sequences

CONSTANTS
  Clients,      \* the processes of tcp_client
  MsgLen,       \* 50 bytes: sizeof(buf) in print_msg()
  Faults        \* what may go wrong, see TimedSending

ASSUME StreamConstantsOK == MsgLen \in Nat \ {0}

VARIABLES
  listening,    \* the server's port is open
  link,         \* the connection
  sent,         \* the messages written to the stream
  arrived,      \* units delivered to the server's host
  taken,        \* units read by the server
  ending,       \* what read() meets after the last of them
  calm,         \* history: no message was written behind another one, and
                \* none was read in parts ...
  since         \* history: ... after this many messages

streamVars == <<listening, link, sent, arrived, taken, ending, calm, since>>

\* queued: connected and not accepted yet; down: closed by the server's side,
\* which the client has not noticed; broken: the client has had an error.
Links == {"none", "syn", "queued", "up", "down", "broken"}

\* A message: its number, the reference time in it, counted in intervals from
\* the appointment, whether its reading of the card is one; and, as history,
\* the expiries of the timer until then.
Message == [n : Nat, ref : Int, true : BOOLEAN, tick : Nat]

Written(c) == MsgLen * Len(sent[c])

StreamTypeOK ==
  /\ listening \in BOOLEAN
  /\ link \in [Clients -> Links]
  /\ sent \in [Clients -> Seq(Message)]
  /\ arrived \in [Clients -> Nat] /\ taken \in [Clients -> Nat]
  /\ \A c \in Clients : taken[c] <= arrived[c] /\ arrived[c] <= Written(c)
  /\ ending \in [Clients -> {"no", "eof", "error", "over"}]
  /\ calm \in [Clients -> BOOLEAN] /\ since \in [Clients -> Nat]

StreamInit ==
  /\ listening = FALSE
  /\ link = [c \in Clients |-> "none"]
  /\ sent = [c \in Clients |-> <<>>]
  /\ arrived = [c \in Clients |-> 0] /\ taken = [c \in Clients |-> 0]
  /\ ending = [c \in Clients |-> "no"]
  /\ calm = [c \in Clients |-> TRUE] /\ since = [c \in Clients |-> 0]

-----------------------------------------------------------------------------
(* The network.                                                            *)

\* The three-way handshake: the kernel answers for a process that listens.
Establish(c) ==
  /\ link[c] = "syn" /\ listening
  /\ link' = [link EXCEPT ![c] = "queued"]
  /\ UNCHANGED <<listening, sent, arrived, taken, ending, calm, since>>

\* Nobody listens, or the host is not reached.
Refuse(c) ==
  /\ link[c] = "syn"
  /\ ~listening \/ "network" \in Faults
  /\ link' = [link EXCEPT ![c] = "down"]
  /\ UNCHANGED <<listening, sent, arrived, taken, ending, calm, since>>

\* Any number of bytes arrives; the end of the stream comes after all.
Arrive(c) ==
  /\ link[c] \in {"queued", "up"} /\ ending[c] # "error"
  /\ \E u \in arrived[c] + 1..Written(c) : arrived' = [arrived EXCEPT ![c] = u]
  /\ UNCHANGED <<listening, link, sent, taken, ending, calm, since>>

\* The connection is lost, and what is on its way with it.
Lose(c) ==
  /\ "network" \in Faults
  /\ link[c] \in {"queued", "up"} /\ ending[c] \in {"no", "eof"}
  /\ link' = [link EXCEPT ![c] = "down"]
  /\ ending' = [ending EXCEPT ![c] = "error"]
  /\ UNCHANGED <<listening, sent, arrived, taken, calm, since>>

Network(c) == Establish(c) \/ Refuse(c) \/ Arrive(c) \/ Lose(c)
=============================================================================
