------------------------------ MODULE TcpServer ------------------------------
(***************************************************************************)
(* tcp_server: main() accepts connections and forks a child for each, in   *)
(* which process_conn_server() reads up to ReadLen bytes at a time into a  *)
(* buffer of BufLen and prints whatever they are as one message.  A child  *)
(* that has come to the end of its stream closes the listening socket and  *)
(* goes on with the loop of its parent, where accept() fails for ever; it  *)
(* never closes its connection.                                            *)
(***************************************************************************)
EXTENDS TcpStream

CONSTANTS
  BufLen,       \* 50 bytes: buffer in process_conn_server()
  ReadLen,      \* 60 bytes: what read() is allowed to return
  Used,         \* 24 bytes: the part of a message that is looked at
  NoClient

ASSUME ServerConstantsOK ==
  /\ BufLen \in Nat /\ ReadLen \in Nat \ {0} /\ Used \in Nat
  /\ NoClient \notin Clients

VARIABLES
  ppc,          \* where the parent is
  sc,           \* the connection it accepted last
  held,         \* the connections it has a descriptor of
  child,        \* the child for each connection
  smashed,      \* bytes were read past the end of its buffer
  heard         \* history: the messages it has printed as they were sent

serverVars == <<ppc, sc, held, child, smashed, heard>>

\* astray: its descriptor was overwritten, and read() fails for ever.
Children == {"none", "read", "returned", "spin", "astray", "gone"}
Holding  == {"read", "returned", "spin", "astray"}

ServerTypeOK ==
  /\ ppc \in {"start", "accept", "fork", "close", "ended"}
  /\ sc \in Clients \union {NoClient}
  /\ held \subseteq Clients
  /\ child \in [Clients -> Children]
  /\ smashed \in [Clients -> BOOLEAN]
  /\ heard \in [Clients -> Seq(Nat)]

ServerInit ==
  /\ ppc = "start" /\ sc = NoClient /\ held = {}
  /\ child = [c \in Clients |-> "none"]
  /\ smashed = [c \in Clients |-> FALSE]
  /\ heard = [c \in Clients |-> <<>>]

-----------------------------------------------------------------------------
(* main().                                                                 *)

\* socket(), bind() and listen().
Listen ==
  /\ ppc = "start"
  /\ \/ ppc' = "accept" /\ listening' = TRUE
     \/ /\ "bind" \in Faults
        /\ ppc' = "ended" /\ UNCHANGED listening
  /\ UNCHANGED <<sc, held, child, smashed, heard, link, sent, arrived,
                 taken, ending, calm, since>>

Accept(c) ==
  /\ ppc = "accept" /\ link[c] = "queued"
  /\ sc' = c /\ held' = held \union {c}
  /\ link' = [link EXCEPT ![c] = "up"]
  /\ ppc' = "fork"
  /\ UNCHANGED <<child, smashed, heard, listening, sent, arrived,
                 taken, ending, calm, since>>

\* fork(): the child inherits the connection; a failure looks like a parent.
Fork ==
  /\ ppc = "fork"
  /\ \/ child' = [child EXCEPT ![sc] = "read"]
     \/ "fork" \in Faults /\ UNCHANGED child
  /\ ppc' = "close"
  /\ UNCHANGED <<sc, held, smashed, heard, streamVars>>

\* Bug: the parent keeps its descriptor.
ParentKeeps ==
  /\ ppc = "close"
  /\ ppc' = "accept"
  /\ UNCHANGED <<sc, held, child, smashed, heard, streamVars>>

\* close(sc) in the parent.
ParentCloses ==
  /\ ppc = "close"
  /\ held' = held \ {sc}
  /\ link' = IF child[sc] \in Holding \/ link[sc] # "up" THEN link
                ELSE [link EXCEPT ![sc] = "down"]
  /\ ppc' = "accept"
  /\ UNCHANGED <<sc, child, smashed, heard, listening, sent, arrived,
                 taken, ending, calm, since>>

Parent == Listen \/ (\E c \in Clients : Accept(c)) \/ Fork \/ ParentCloses

-----------------------------------------------------------------------------
(* process_conn_server(), in the child.                                    *)

\* What a read of size units at pos shows: the message that begins there,
\* when one does and all that is looked at of it was read.
Shown(pos, size) ==
  IF pos % MsgLen = 0 /\ size >= Used THEN <<pos \div MsgLen + 1>> ELSE <<>>

Smaller(m, n) == IF m < n THEN m ELSE n

\* Bug: read() is taken to return all that was asked for.
ReadFull(c) ==
  /\ child[c] = "read" /\ taken[c] < arrived[c]
  /\ taken' = [taken EXCEPT ![c] = @ + ReadLen]
  /\ heard' = [heard EXCEPT ![c] = @ \o Shown(taken[c], ReadLen)]
  /\ calm' = [calm EXCEPT ![c] = @ /\ arrived[c] = Written(c)]
  /\ UNCHANGED <<ppc, sc, held, child, smashed, listening, link, sent, arrived,
                 ending, since>>

\* Bug: the header only is asked for.
ReadUsed(c) ==
  /\ child[c] = "read" /\ taken[c] < arrived[c]
  /\ LET size == Smaller(Used, arrived[c] - taken[c])
     IN  /\ taken' = [taken EXCEPT ![c] = @ + size]
         /\ heard' = [heard EXCEPT ![c] = @ \o Shown(taken[c], size)]
  /\ calm' = [calm EXCEPT ![c] = @ /\ arrived[c] = Written(c)]
  /\ UNCHANGED <<ppc, sc, held, child, smashed, listening, link, sent, arrived,
                 ending, since>>

\* Bug: what was looked at is not taken away (MSG_PEEK).
ReadPeeks(c) ==
  /\ child[c] = "read" /\ taken[c] < arrived[c]
  /\ heard' = [heard EXCEPT ![c] =
                 @ \o Shown(taken[c], Smaller(ReadLen, arrived[c] - taken[c]))]
  /\ calm' = [calm EXCEPT ![c] = @ /\ arrived[c] = Written(c)]
  /\ UNCHANGED <<ppc, sc, held, child, smashed, listening, link, sent, arrived,
                 taken, ending, since>>

\* Bug: an incomplete message is taken for the end of the stream.
ReadShort(c) ==
  /\ child[c] = "read" /\ taken[c] < arrived[c]
  /\ LET size == Smaller(ReadLen, arrived[c] - taken[c])
     IN  /\ taken' = [taken EXCEPT ![c] = @ + size]
         /\ heard' = [heard EXCEPT ![c] = @ \o Shown(taken[c], size)]
         /\ child' = [child EXCEPT ![c] = IF size < Used THEN "returned" ELSE @]
  /\ calm' = [calm EXCEPT ![c] = @ /\ arrived[c] = Written(c)]
  /\ UNCHANGED <<ppc, sc, held, smashed, listening, link, sent, arrived, ending,
                 since>>

\* read() and the line it prints.  Bytes past the buffer overwrite what the
\* compiler has put there: nothing that matters, the descriptor, or the
\* canary that is looked at on return.
Read(c) ==
  /\ child[c] = "read" /\ taken[c] < arrived[c]
  /\ LET size == Smaller(ReadLen, arrived[c] - taken[c])
     IN  /\ taken' = [taken EXCEPT ![c] = @ + size]
         /\ heard' = [heard EXCEPT ![c] = @ \o Shown(taken[c], size)]
         /\ \/ UNCHANGED <<child, smashed>>
            \/ size > BufLen /\ child' = [child EXCEPT ![c] = "astray"]
                             /\ UNCHANGED smashed
            \/ size > BufLen /\ smashed' = [smashed EXCEPT ![c] = TRUE]
                             /\ UNCHANGED child
  /\ calm' = [calm EXCEPT ![c] = @ /\ arrived[c] = Written(c)]
  /\ UNCHANGED <<ppc, sc, held, listening, link, sent, arrived, ending, since>>

\* read() returns -1, which is not 0: a line of zeros is printed.
ReadError(c) ==
  /\ child[c] = "read" /\ taken[c] = arrived[c] /\ ending[c] = "error"
  /\ ending' = [ending EXCEPT ![c] = "over"]
  /\ UNCHANGED <<ppc, sc, held, child, smashed, heard, listening, link, sent,
                 arrived, taken, calm, since>>

AtEnd(c) ==
  \/ ending[c] = "eof" /\ taken[c] = Written(c)
  \/ ending[c] = "over"

\* Bug: the end of the stream is taken for "nothing yet".
ReturnOnError(c) ==
  /\ child[c] = "read" /\ ending[c] = "over"
  /\ child' = [child EXCEPT ![c] = "returned"]
  /\ UNCHANGED <<ppc, sc, held, smashed, heard, streamVars>>

\* read() returns 0, and so does the function, unless its frame is damaged.
Return(c) ==
  /\ child[c] = "read" /\ AtEnd(c)
  /\ \/ /\ ~smashed[c]
        /\ child' = [child EXCEPT ![c] = "returned"]
        /\ UNCHANGED link
     \/ /\ smashed[c]
        /\ child' = [child EXCEPT ![c] = "gone"]
        /\ link' = IF c \in held \/ link[c] # "up" THEN link
                      ELSE [link EXCEPT ![c] = "down"]
  /\ UNCHANGED <<ppc, sc, held, smashed, heard, listening, sent,
                 arrived, taken, ending, calm, since>>

\* close(ss) in the child, which then calls accept() in vain.
CloseSs(c) ==
  /\ child[c] = "returned"
  /\ child' = [child EXCEPT ![c] = "spin"]
  /\ UNCHANGED <<ppc, sc, held, smashed, heard, streamVars>>

Child(c) == Read(c) \/ ReadError(c) \/ Return(c) \/ CloseSs(c)

-----------------------------------------------------------------------------

\* Control-C: the parent and all its children.
Stop ==
  /\ "server" \in Faults /\ ppc # "ended"
  /\ ppc' = "ended" /\ listening' = FALSE /\ held' = {}
  /\ child' = [c \in Clients |-> IF child[c] = "none" THEN "none" ELSE "gone"]
  /\ link' = [c \in Clients |->
                IF link[c] \in {"queued", "up"} THEN "down" ELSE link[c]]
  /\ UNCHANGED <<sc, smashed, heard, sent, arrived, taken, ending,
                 calm, since>>
=============================================================================
