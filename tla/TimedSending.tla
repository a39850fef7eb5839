----------------------------- MODULE TimedSending -----------------------------
(***************************************************************************)
(* tcp_client processes, the server and the connections between them: the  *)
(* loop of "sends its time at the appointed time" that the two programs    *)
(* make together.                                                          *)
(***************************************************************************)
EXTENDS TcpClient, TcpServer

\* network: connections are refused or lost; open, socket, fork, bind: the
\* call fails; address: no -a; client, server: killed.
ASSUME FaultsOK ==
  Faults \subseteq {"network", "open", "socket", "fork", "bind", "address",
                    "client", "server"}

vars == <<clientVars, serverVars, streamVars>>

TypeOK == ClientTypeOK /\ ServerTypeOK /\ StreamTypeOK

Init == ClientInit /\ ServerInit /\ StreamInit

ClientStep(c) == (Main(c) \/ Handler(c) \/ Expire(c) \/ Interrupt(c))
                   /\ UNCHANGED serverVars

ServerStep == (Parent \/ (\E c \in Clients : Child(c)) \/ Stop)
                /\ UNCHANGED clientVars

NetworkStep(c) == Network(c) /\ UNCHANGED <<clientVars, serverVars>>

Next == \/ \E c \in Clients : ClientStep(c) \/ NetworkStep(c)
        \/ ServerStep

Spec == Init /\ [][Next]_vars

\* Every process is scheduled and the network delivers; nobody has to make
\* the timer expire, kill anybody or lose a connection.
FairSpec ==
  /\ Spec
  /\ WF_vars(Parent /\ UNCHANGED clientVars)
  /\ \A c \in Clients :
       /\ WF_vars((Main(c) \/ Handler(c)) /\ UNCHANGED serverVars)
       /\ WF_vars(Child(c) /\ UNCHANGED clientVars)
       /\ WF_vars((Establish(c) \/ Refuse(c) \/ Arrive(c))
                    /\ UNCHANGED <<clientVars, serverVars>>)
-----------------------------------------------------------------------------
(* Safety.                                                                 *)

OnWire(c) == 1..Len(sent[c])

\* print_msg() and main() share s, fd and timep without any order but that
\* of main()'s statements, and the timer runs before any of them is ready.
\* Still, no message is missing between two that reach the stream, and with
\* a reference time of the timer they are one interval apart: messages are
\* lost at the two ends of a run only.
WireConsecutive ==
  \A c \in Clients : \A i \in OnWire(c) \ {1} :
    LET last == sent[c][i - 1]
        this == sent[c][i]
    IN  /\ this.n = last.n + 1
        /\ this.ref = IF mode[c] \in {1, 2} THEN last.ref ELSE last.ref + 1

\* "-m 3 means reference time from timer": whatever ticks were merged, and
\* though timep is changed by main() and its handler at once, the reference
\* time of a message on the wire is never later than the appointment of the
\* tick that made it.
ReferenceNotAhead ==
  \A c \in Clients : \A i \in OnWire(c) :
    mode[c] \in {0, 3} => sent[c][i].ref < sent[c][i].tick

\* The handler of mode 1 reads a card that main() opens after it has armed
\* the timer; a time that was not read from the card never reaches the wire.
ReadingsOnWire == \A c \in Clients : \A i \in OnWire(c) : sent[c][i].true

\* Nothing marks the end of a message, and read() asks for more than one.
\* But once the server has drained the stream, it hears every message that
\* is read whole before the next one is written, whatever happened before.
HeardSinceDrained ==
  \A c \in Clients : calm[c] =>
    /\ taken[c] % MsgLen = 0
    /\ \A m \in since[c] + 1..taken[c] \div MsgLen :
         \E i \in 1..Len(heard[c]) : heard[c][i] = m

\* A connection that is up has a process to read it, or gets one in the
\* parent's next two steps: when fork() fails it is closed, so that the
\* client notices.
Attended ==
  \A c \in Clients : link[c] = "up" =>
    child[c] \in Holding \/ (sc = c /\ ppc \in {"fork", "close"})

\* The two programs implement a stream that keeps the order of messages.
Abstract ==
  INSTANCE MessageStream WITH told  <- [c \in Clients |-> Len(sent[c])],
                              heard <- heard

ImplementsStream == Abstract!Spec
-----------------------------------------------------------------------------
(* Liveness.                                                               *)

\* The connection has come to an end that is not the client's.
Cut(c) == link[c] \in {"down", "broken"} \/ child[c] \in {"astray", "gone"}

\* Every message on the wire is read to its last byte, unless the connection
\* is cut or the server has damaged itself: again and again nothing is left.
StreamsDrained ==
  []<>(\A c \in Clients : taken[c] = Written(c) \/ Cut(c))

\* A client that ends, or is lost, is noticed by the server's child, which
\* stops reading.
EndsNoticed ==
  []<>(\A c \in Clients :
         child[c] = "read" => ending[c] = "no")
=============================================================================
