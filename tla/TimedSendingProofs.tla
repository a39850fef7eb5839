-------------------------- MODULE TimedSendingProofs --------------------------
(***************************************************************************)
(* Proofs about TimedSending, for any number of clients, lengths of        *)
(* messages and reads, modes, ticks and faults.                            *)
(***************************************************************************)
EXTENDS TimedSending, TLAPS

\* Another message on a stream makes it MsgLen longer.
LEMMA StreamGrows ==
  ASSUME NEW n \in Nat
  PROVE  /\ MsgLen * n \in Nat
         /\ MsgLen * (n + 1) = MsgLen * n + MsgLen
BY StreamConstantsOK

-----------------------------------------------------------------------------
(* Types.                                                                  *)

\* What TypeOK says of one connection and its ends.
LEMMA ClientTypes ==
  ASSUME TypeOK, NEW c \in Clients
  PROVE  /\ pc[c] \in MainLabels /\ timep[c] \in Int /\ register[c] \in Int
         /\ fd[c] \in BOOLEAN /\ buf[c] \in Message /\ rd_num[c] \in Nat
         /\ ticks[c] \in Nat /\ ticks[c] <= MaxTicks[mode][c]
         /\ mode \in Modes /\ mode[c] \in Int
         /\ sent[c] \in Seq(Message) /\ Len(sent[c]) \in Nat
         /\ arrived[c] \in Nat /\ taken[c] \in Nat
         /\ taken[c] <= arrived[c] /\ arrived[c] <= Written(c)
         /\ Written(c) \in Nat
         /\ link[c] \in Links /\ child[c] \in Children
         /\ heard[c] \in Seq(Nat) /\ since[c] \in Nat
         /\ calm[c] \in BOOLEAN
<1>1. /\ sent[c] \in Seq(Message) /\ Len(sent[c]) \in Nat
  BY DEF TypeOK, StreamTypeOK
<1>2. mode \in Modes /\ mode[c] \in Int
  BY ClientConstantsOK DEF TypeOK, ClientTypeOK
<1>3. Written(c) \in Nat
  BY <1>1, StreamGrows DEF Written
<1> QED
  BY <1>1, <1>2, <1>3 DEF TypeOK, ClientTypeOK, StreamTypeOK, ServerTypeOK

\* Of the stream's variables only those that keep the counts in order need
\* an argument.
LEMMA EndTypes ==
  ASSUME TypeOK, NEW c \in Clients, End(c)
  PROVE  ClientTypeOK' /\ StreamTypeOK'
<1>1. ClientTypeOK'
  BY DEF TypeOK, ClientTypeOK, End, MainLabels
<1>2. StreamTypeOK'
  BY DEF TypeOK, StreamTypeOK, End, Links, Written
<1> QED
  BY <1>1, <1>2

LEMMA ServerTypesKept ==
  ASSUME TypeOK, UNCHANGED serverVars
  PROVE  ServerTypeOK'
BY DEF TypeOK, ServerTypeOK, serverVars

LEMMA StreamTypesKept ==
  ASSUME TypeOK, UNCHANGED streamVars
  PROVE  StreamTypeOK'
BY DEF TypeOK, StreamTypeOK, streamVars, Written

LEMMA MainTypes ==
  ASSUME TypeOK, NEW c \in Clients, Main(c), UNCHANGED serverVars
  PROVE  TypeOK'
<1>1. ServerTypeOK'
  BY ServerTypesKept
<1> SUFFICES ClientTypeOK' /\ StreamTypeOK'
  BY <1>1 DEF TypeOK
<1>2. CASE Options(c)
  <2>1. CASE End(c)
    BY <2>1, EndTypes
  <2>2. CASE ~End(c)
    BY <1>2, <2>2, StreamTypesKept
    DEF Options, Go, TypeOK, ClientTypeOK, MainLabels
  <2> QED
    BY <2>1, <2>2
<1>3. CASE SetTimer(c)
  BY <1>3, StreamTypesKept DEF SetTimer, Go, TypeOK, ClientTypeOK, MainLabels
<1>4. CASE LoadTimep(c)
  BY <1>4, StreamTypesKept DEF LoadTimep, Go, TypeOK, ClientTypeOK, MainLabels
<1>5. CASE StoreTimep(c)
  <2>1. register[c] - 1 \in Int
    BY ClientTypes
  <2> QED
    BY <1>5, <2>1, StreamTypesKept
    DEF StoreTimep, Go, TypeOK, ClientTypeOK, MainLabels
<1>6. CASE LogTimer(c)
  BY <1>6, StreamTypesKept DEF LogTimer, Go, TypeOK, ClientTypeOK, MainLabels
<1>7. CASE OpenCard(c)
  <2>1. CASE End(c)
    BY <2>1, EndTypes
  <2>2. CASE ~End(c)
    BY <1>7, <2>2, StreamTypesKept
    DEF OpenCard, Go, TypeOK, ClientTypeOK, MainLabels
  <2> QED
    BY <2>1, <2>2
<1>8. CASE OpenSocket(c)
  <2>1. CASE End(c)
    BY <2>1, EndTypes
  <2>2. CASE ~End(c)
    BY <1>8, <2>2, StreamTypesKept
    DEF OpenSocket, Go, TypeOK, ClientTypeOK, MainLabels
  <2> QED
    BY <2>1, <2>2
<1>9. CASE Connect(c)
  <2>1. CASE End(c)
    BY <2>1, EndTypes
  <2>2. CASE ~End(c)
    <3>1. ClientTypeOK'
      BY <1>9, <2>2 DEF Connect, Go, TypeOK, ClientTypeOK, MainLabels
    <3>2. StreamTypeOK'
      BY <1>9, <2>2 DEF Connect, TypeOK, StreamTypeOK, Links, Written
    <3> QED
      BY <3>1, <3>2
  <2> QED
    BY <2>1, <2>2
<1>10. CASE Connected(c)
  <2>1. ClientTypeOK'
    BY <1>10 DEF Connected, Go, TypeOK, ClientTypeOK, MainLabels
  <2>2. StreamTypeOK'
    BY <1>10 DEF Connected, TypeOK, StreamTypeOK, Links, Written
  <2> QED
    BY <2>1, <2>2
<1> QED
  BY <1>2, <1>3, <1>4, <1>5, <1>6, <1>7, <1>8, <1>9, <1>10 DEF Main

LEMMA HandlerTypes ==
  ASSUME TypeOK, NEW c \in Clients, Handler(c), UNCHANGED serverVars
  PROVE  TypeOK'
<1>1. ServerTypeOK'
  BY ServerTypesKept
<1> SUFFICES ClientTypeOK' /\ StreamTypeOK'
  BY <1>1 DEF TypeOK
<1>2. CASE PrintMsg(c)
  <2>1. NextTimep(c) \in Int
    BY ClientTypes DEF NextTimep
  <2>2. buf' \in [Clients -> Message]
    <3>1. (mode[c] # 1 \/ fd[c]) \in BOOLEAN /\ buf \in [Clients -> Message]
      BY DEF TypeOK, ClientTypeOK
    <3>2. rd_num[c] + 1 \in Nat /\ ticks[c] \in Nat
      BY ClientTypes
    <3> QED
      BY <1>2, <2>1, <3>1, <3>2 DEF PrintMsg, Message
  <2>3. StreamTypeOK'
    BY <1>2, StreamTypesKept DEF PrintMsg
  <2>4. /\ timep' \in [Clients -> Int] /\ rd_num' \in [Clients -> Nat]
        /\ hpc' \in [Clients -> {"idle", "write", "hung"}]
    BY <1>2, <2>1 DEF PrintMsg, TypeOK, ClientTypeOK
  <2>5. pending' \in [Clients -> BOOLEAN]
    BY <1>2 DEF PrintMsg, TypeOK, ClientTypeOK
  <2> QED
    BY <1>2, <2>2, <2>3, <2>4, <2>5 DEF PrintMsg, TypeOK, ClientTypeOK
<1>3. CASE WriteStream(c)
  <2>1. ClientTypeOK'
    BY <1>3 DEF WriteStream, Returns, TypeOK, ClientTypeOK
  <2>2. sent' = [sent EXCEPT ![c] = Append(sent[c], buf[c])]
    BY <1>3 DEF WriteStream
  <2>3. /\ Append(sent[c], buf[c]) \in Seq(Message)
        /\ Len(Append(sent[c], buf[c])) = Len(sent[c]) + 1
    BY ClientTypes
  <2>4. sent' \in [Clients -> Seq(Message)]
    BY <2>2, <2>3 DEF TypeOK, StreamTypeOK
  <2>5. \A d \in Clients : taken'[d] <= arrived'[d] /\ arrived'[d] <= Written(d)'
    <3> SUFFICES ASSUME NEW d \in Clients
                 PROVE  taken'[d] <= arrived'[d] /\ arrived'[d] <= Written(d)'
      OBVIOUS
    <3>1. Written(d) <= Written(d)' /\ Written(d) \in Nat /\ Written(d)' \in Nat
      <4>1. CASE d = c
        <5>1. sent'[c] = Append(sent[c], buf[c])
          BY <2>2 DEF TypeOK, StreamTypeOK
        <5>2. Written(c)' = MsgLen * (Len(sent[c]) + 1)
          BY <2>3, <5>1 DEF Written
        <5> QED
          BY <4>1, <5>2, ClientTypes, StreamGrows, StreamConstantsOK DEF Written
      <4>2. CASE d # c
        BY <2>2, <4>2, ClientTypes DEF Written, TypeOK, StreamTypeOK
      <4> QED
        BY <4>1, <4>2
    <3>2. taken'[d] = taken[d] /\ arrived'[d] = arrived[d]
      BY <1>3 DEF WriteStream
    <3> QED
      BY <3>1, <3>2, ClientTypes
  <2>6. calm' \in [Clients -> BOOLEAN]
    BY <1>3 DEF WriteStream, TypeOK, StreamTypeOK
  <2>7. since' \in [Clients -> Nat]
    BY <1>3, ClientTypes DEF WriteStream, TypeOK, StreamTypeOK
  <2> QED
    BY <1>3, <2>1, <2>4, <2>5, <2>6, <2>7
    DEF WriteStream, TypeOK, StreamTypeOK
<1>4. CASE WriteLost(c)
  <2>1. ClientTypeOK'
    BY <1>4 DEF WriteLost, Returns, TypeOK, ClientTypeOK
  <2>2. StreamTypeOK'
    BY <1>4 DEF WriteLost, TypeOK, StreamTypeOK, Links, Written
  <2> QED
    BY <2>1, <2>2
<1>5. CASE WriteKills(c)
  BY <1>5, EndTypes DEF WriteKills
<1> QED
  BY <1>2, <1>3, <1>4, <1>5 DEF Handler, Write

LEMMA TimerTypes ==
  ASSUME TypeOK, NEW c \in Clients, Expire(c) \/ Interrupt(c),
         UNCHANGED serverVars
  PROVE  TypeOK'
<1>1. ServerTypeOK'
  BY ServerTypesKept
<1>2. CASE Expire(c)
  <2>1. ticks[c] + 1 \in Nat /\ ticks[c] + 1 <= MaxTicks[mode][c]
    <3>1. MaxTicks[mode][c] \in Nat
      BY ClientTypes, ClientConstantsOK
    <3> QED
      BY <1>2, <3>1, ClientTypes DEF Expire
  <2>2. pending' \in [Clients -> BOOLEAN]
    BY <1>2 DEF Expire, TypeOK, ClientTypeOK
  <2>3. ClientTypeOK'
    BY <1>2, <2>1, <2>2 DEF Expire, TypeOK, ClientTypeOK
  <2> QED
    BY <1>1, <1>2, <2>3, StreamTypesKept DEF Expire, TypeOK
<1>3. CASE Interrupt(c)
  BY <1>1, <1>3, EndTypes DEF Interrupt, TypeOK
<1> QED
  BY <1>2, <1>3

LEMMA ClientTypesKept ==
  ASSUME TypeOK, UNCHANGED clientVars
  PROVE  ClientTypeOK'
BY DEF TypeOK, ClientTypeOK, clientVars

LEMMA ParentTypes ==
  ASSUME TypeOK, Parent \/ Stop, UNCHANGED clientVars
  PROVE  TypeOK'
<1>1. ClientTypeOK'
  BY ClientTypesKept
<1> SUFFICES ServerTypeOK' /\ StreamTypeOK'
  BY <1>1 DEF TypeOK
<1>2. CASE Listen
  BY <1>2 DEF Listen, TypeOK, ServerTypeOK, StreamTypeOK, Written
<1>3. ASSUME NEW c \in Clients, Accept(c) PROVE ServerTypeOK' /\ StreamTypeOK'
  BY <1>3 DEF Accept, TypeOK, ServerTypeOK, StreamTypeOK, Links, Written
<1>4. CASE Fork
  BY <1>4, StreamTypesKept DEF Fork, TypeOK, ServerTypeOK, Children
<1>5. CASE ParentCloses
  <2>1. ServerTypeOK'
    BY <1>5 DEF ParentCloses, TypeOK, ServerTypeOK
  <2>2. StreamTypeOK'
    BY <1>5 DEF ParentCloses, TypeOK, StreamTypeOK, Links, Written
  <2> QED
    BY <2>1, <2>2
<1>6. CASE Stop
  <2>1. ServerTypeOK'
    BY <1>6 DEF Stop, TypeOK, ServerTypeOK, Children
  <2>2. StreamTypeOK'
    BY <1>6 DEF Stop, TypeOK, StreamTypeOK, Links, Written
  <2> QED
    BY <2>1, <2>2
<1> QED
  BY <1>2, <1>3, <1>4, <1>5, <1>6 DEF Parent

\* What a read takes, and what it shows.
LEMMA ReadFacts ==
  ASSUME TypeOK, NEW c \in Clients, Read(c)
  PROVE  \E size \in Nat \ {0} :
           /\ size <= arrived[c] - taken[c]
           /\ taken' = [taken EXCEPT ![c] = taken[c] + size]
           /\ heard' = [heard EXCEPT ![c] = heard[c] \o Shown(taken[c], size)]
           /\ UNCHANGED <<sent, arrived>>
<1> DEFINE size == Smaller(ReadLen, arrived[c] - taken[c])
<1>1. /\ taken' = [taken EXCEPT ![c] = taken[c] + size]
      /\ heard' = [heard EXCEPT ![c] = heard[c] \o Shown(taken[c], size)]
      /\ taken[c] < arrived[c]
  BY DEF Read
<1>2. size \in Nat \ {0} /\ size <= arrived[c] - taken[c]
  BY <1>1, ClientTypes, ServerConstantsOK DEF Smaller
<1> HIDE DEF size
<1> QED
  BY <1>1, <1>2 DEF Read

LEMMA ShownTypes ==
  ASSUME NEW pos \in Nat, NEW size \in Nat
  PROVE  /\ Shown(pos, size) \in Seq(Nat)
         /\ \/ Shown(pos, size) = <<>>
            \/ /\ pos % MsgLen = 0
               /\ Shown(pos, size) = <<pos \div MsgLen + 1>>
<1>1. pos \div MsgLen + 1 \in Nat
  BY StreamConstantsOK
<1> QED
  BY <1>1 DEF Shown

LEMMA ChildTypes ==
  ASSUME TypeOK, NEW c \in Clients, Child(c), UNCHANGED clientVars
  PROVE  TypeOK'
<1>1. ClientTypeOK'
  BY ClientTypesKept
<1> SUFFICES ServerTypeOK' /\ StreamTypeOK'
  BY <1>1 DEF TypeOK
<1>2. CASE Read(c)
  <2>1. PICK size \in Nat \ {0} :
          /\ size <= arrived[c] - taken[c]
          /\ taken' = [taken EXCEPT ![c] = taken[c] + size]
          /\ heard' = [heard EXCEPT ![c] = heard[c] \o Shown(taken[c], size)]
          /\ UNCHANGED <<sent, arrived>>
    BY <1>2, ReadFacts
  <2>2. /\ taken[c] + size \in Nat /\ taken[c] + size <= arrived[c]
    BY <2>1, ClientTypes
  <2>3. heard[c] \o Shown(taken[c], size) \in Seq(Nat)
    <3>1. heard[c] \in Seq(Nat) /\ taken[c] \in Nat
      BY ClientTypes
    <3>2. Shown(taken[c], size) \in Seq(Nat)
      BY <3>1, ShownTypes
    <3> QED
      BY <3>1, <3>2
  <2>4. heard' \in [Clients -> Seq(Nat)] /\ taken' \in [Clients -> Nat]
    BY <2>1, <2>2, <2>3 DEF TypeOK, ServerTypeOK, StreamTypeOK
  <2>5. child' \in [Clients -> Children]
    BY <1>2 DEF Read, TypeOK, ServerTypeOK, Children
  <2>6. smashed' \in [Clients -> BOOLEAN] /\ calm' \in [Clients -> BOOLEAN]
    BY <1>2 DEF Read, TypeOK, ServerTypeOK, StreamTypeOK
  <2>7. ServerTypeOK'
    BY <1>2, <2>4, <2>5, <2>6 DEF Read, TypeOK, ServerTypeOK
  <2>8. \A d \in Clients : taken'[d] <= arrived'[d] /\ arrived'[d] <= Written(d)'
    BY <2>1, <2>2, ClientTypes DEF TypeOK, StreamTypeOK, Written
  <2> QED
    BY <1>2, <2>4, <2>6, <2>7, <2>8 DEF Read, TypeOK, StreamTypeOK
<1>3. CASE ReadError(c)
  <2>1. ServerTypeOK'
    BY <1>3 DEF ReadError, TypeOK, ServerTypeOK
  <2>2. StreamTypeOK'
    BY <1>3 DEF ReadError, TypeOK, StreamTypeOK, Written
  <2> QED
    BY <2>1, <2>2
<1>4. CASE Return(c)
  <2>1. ServerTypeOK'
    BY <1>4 DEF Return, TypeOK, ServerTypeOK, Children
  <2>2. StreamTypeOK'
    BY <1>4 DEF Return, TypeOK, StreamTypeOK, Links, Written
  <2> QED
    BY <2>1, <2>2
<1>5. CASE CloseSs(c)
  BY <1>5, StreamTypesKept DEF CloseSs, TypeOK, ServerTypeOK, Children
<1> QED
  BY <1>2, <1>3, <1>4, <1>5 DEF Child

LEMMA NetworkTypes ==
  ASSUME TypeOK, NEW c \in Clients, Network(c),
         UNCHANGED <<clientVars, serverVars>>
  PROVE  TypeOK'
<1>1. ClientTypeOK' /\ ServerTypeOK'
  BY ClientTypesKept, ServerTypesKept
<1> SUFFICES StreamTypeOK'
  BY <1>1 DEF TypeOK
<1>2. CASE Establish(c)
  BY <1>2 DEF Establish, TypeOK, StreamTypeOK, Links, Written
<1>3. CASE Refuse(c)
  BY <1>3 DEF Refuse, TypeOK, StreamTypeOK, Links, Written
<1>4. CASE Arrive(c)
  <2>1. PICK u \in arrived[c] + 1..Written(c) :
          arrived' = [arrived EXCEPT ![c] = u]
    BY <1>4 DEF Arrive
  <2>2. u \in Nat /\ taken[c] <= u /\ u <= Written(c)
    BY <2>1, ClientTypes
  <2> QED
    BY <1>4, <2>1, <2>2 DEF Arrive, TypeOK, StreamTypeOK, Written
<1>5. CASE Lose(c)
  BY <1>5 DEF Lose, TypeOK, StreamTypeOK, Links, Written
<1> QED
  BY <1>2, <1>3, <1>4, <1>5 DEF Network

LEMMA InitTypes == Init => TypeOK
<1> SUFFICES ASSUME Init PROVE TypeOK
  OBVIOUS
<1>1. NoMessage \in Message
  BY DEF NoMessage, Message
<1>2. ClientTypeOK
  <2>1. mode \in Modes
    BY DEF Init, ClientInit
  <2>2. \A c \in Clients : MaxTicks[mode][c] \in Nat
    BY <2>1, ClientConstantsOK
  <2>3. /\ ticks \in [Clients -> Nat] /\ rd_num \in [Clients -> Nat]
        /\ timep \in [Clients -> Int] /\ register \in [Clients -> Int]
        /\ \A c \in Clients : ticks[c] = 0
    BY DEF Init, ClientInit
  <2>4. \A c \in Clients : ticks[c] <= MaxTicks[mode][c]
    <3> SUFFICES ASSUME NEW c \in Clients PROVE ticks[c] <= MaxTicks[mode][c]
      OBVIOUS
    <3>1. ticks[c] = 0 /\ MaxTicks[mode][c] \in Nat
      BY <2>2, <2>3
    <3> QED
      BY <3>1
  <2>5. /\ pc \in [Clients -> MainLabels] /\ s \in [Clients -> {"stdin", "socket"}]
        /\ hpc \in [Clients -> {"idle", "write", "hung"}]
    BY DEF Init, ClientInit, MainLabels
  <2>6. fd \in [Clients -> BOOLEAN] /\ pending \in [Clients -> BOOLEAN]
    BY DEF Init, ClientInit
  <2>7. buf \in [Clients -> Message]
    BY <1>1 DEF Init, ClientInit
  <2> QED
    BY <2>1, <2>3, <2>4, <2>5, <2>6, <2>7 DEF ClientTypeOK
<1>3. ServerTypeOK
  BY DEF Init, ServerInit, ServerTypeOK, Children
<1>4. StreamTypeOK
  <2>1. /\ sent \in [Clients -> Seq(Message)]
        /\ \A c \in Clients : Len(sent[c]) = 0
    BY DEF Init, StreamInit
  <2>2. \A c \in Clients : Written(c) = 0
    <3> SUFFICES ASSUME NEW c \in Clients PROVE Written(c) = 0
      OBVIOUS
    <3>1. Len(sent[c]) = 0
      BY <2>1
    <3> QED
      BY <3>1, StreamConstantsOK DEF Written
  <2>3. /\ arrived \in [Clients -> Nat] /\ taken \in [Clients -> Nat]
        /\ since \in [Clients -> Nat]
        /\ \A c \in Clients : taken[c] = 0 /\ arrived[c] = 0
    BY DEF Init, StreamInit
  <2>4. \A c \in Clients : taken[c] <= arrived[c] /\ arrived[c] <= Written(c)
    <3> SUFFICES ASSUME NEW c \in Clients
                 PROVE  taken[c] <= arrived[c] /\ arrived[c] <= Written(c)
      OBVIOUS
    <3>1. taken[c] = 0 /\ arrived[c] = 0 /\ Written(c) = 0
      BY <2>2, <2>3
    <3> QED
      BY <3>1
  <2>5. listening \in BOOLEAN /\ calm \in [Clients -> BOOLEAN]
    BY DEF Init, StreamInit
  <2>6. /\ link \in [Clients -> Links]
        /\ ending \in [Clients -> {"no", "eof", "error", "over"}]
    BY DEF Init, StreamInit, Links
  <2> QED
    BY <2>1, <2>3, <2>4, <2>5, <2>6 DEF StreamTypeOK
<1> QED
  BY <1>2, <1>3, <1>4 DEF TypeOK

LEMMA TypeStep == TypeOK /\ [Next]_vars => TypeOK'
<1> SUFFICES ASSUME TypeOK, [Next]_vars PROVE TypeOK'
  OBVIOUS
<1>1. CASE UNCHANGED vars
  BY <1>1, ClientTypesKept, ServerTypesKept, StreamTypesKept DEF vars, TypeOK
<1>2. ASSUME NEW c \in Clients, ClientStep(c) PROVE TypeOK'
  BY <1>2, MainTypes, HandlerTypes, TimerTypes DEF ClientStep
<1>3. ASSUME NEW c \in Clients, NetworkStep(c) PROVE TypeOK'
  BY <1>3, NetworkTypes DEF NetworkStep
<1>4. CASE ServerStep
  BY <1>4, ParentTypes, ChildTypes DEF ServerStep
<1> QED
  BY <1>1, <1>2, <1>3, <1>4 DEF Next

\* Every reachable state is well typed: in particular, the server never reads
\* what has not arrived, and nothing arrives that was not written.
THEOREM TypeCorrect == Spec => []TypeOK
BY InitTypes, TypeStep, PTL DEF Spec

-----------------------------------------------------------------------------
(* Every connection that is up is attended to.                             *)

\* Between two calls of accept() the parent holds no connection.
ParentHolds == held # {} => held = {sc} /\ ppc \in {"fork", "close"}

AttendInv == ParentHolds /\ Attended

LEMMA AttendParent ==
  ASSUME TypeOK, AttendInv, Parent \/ Stop
  PROVE  AttendInv'
<1>1. CASE Listen
  BY <1>1 DEF Listen, TypeOK, StreamTypeOK, AttendInv, ParentHolds, Attended
<1>2. ASSUME NEW c \in Clients, Accept(c) PROVE AttendInv'
  BY <1>2 DEF Accept, TypeOK, StreamTypeOK, AttendInv, ParentHolds, Attended
<1>3. CASE Fork
  BY <1>3 DEF Fork, TypeOK, ServerTypeOK, StreamTypeOK, streamVars, Holding,
              AttendInv, ParentHolds, Attended
<1>4. CASE ParentCloses
  BY <1>4 DEF ParentCloses, TypeOK, StreamTypeOK, AttendInv, ParentHolds, Attended
<1>5. CASE Stop
  BY <1>5 DEF Stop, TypeOK, StreamTypeOK, AttendInv, ParentHolds, Attended
<1> QED
  BY <1>1, <1>2, <1>3, <1>4, <1>5 DEF Parent

\* A child lets go of its connection by ending only, and then either the
\* connection is down or its parent still holds it.
LEMMA AttendChild ==
  ASSUME TypeOK, AttendInv, NEW c \in Clients, Child(c)
  PROVE  AttendInv'
<1>1. CASE Read(c)
  BY <1>1 DEF Read, TypeOK, ServerTypeOK, StreamTypeOK, Holding,
              AttendInv, ParentHolds, Attended
<1>2. CASE ReadError(c)
  BY <1>2 DEF ReadError, AttendInv, ParentHolds, Attended
<1>3. CASE Return(c)
  <2>1. CASE child' = [child EXCEPT ![c] = "returned"] /\ UNCHANGED link
    BY <1>3, <2>1 DEF Return, TypeOK, ServerTypeOK, Holding,
                      AttendInv, ParentHolds, Attended
  <2>2. CASE /\ child' = [child EXCEPT ![c] = "gone"]
             /\ link' = IF c \in held \/ link[c] # "up" THEN link
                           ELSE [link EXCEPT ![c] = "down"]
    <3>1. ParentHolds'
      BY <1>3 DEF Return, AttendInv, ParentHolds
    <3>2. ASSUME NEW d \in Clients, link'[d] = "up"
          PROVE  child'[d] \in Holding \/ (sc = d /\ ppc \in {"fork", "close"})
      BY <2>2, <3>2 DEF TypeOK, ServerTypeOK, StreamTypeOK, Holding,
                        AttendInv, ParentHolds, Attended
    <3> QED
      BY <1>3, <3>1, <3>2 DEF Return, AttendInv, Attended
  <2> QED
    BY <1>3, <2>1, <2>2 DEF Return
<1>4. CASE CloseSs(c)
  BY <1>4 DEF CloseSs, TypeOK, ServerTypeOK, streamVars, Holding,
              AttendInv, ParentHolds, Attended
<1> QED
  BY <1>1, <1>2, <1>3, <1>4 DEF Child

\* Nobody else brings a connection up.
LEMMA AttendOthers ==
  ASSUME AttendInv, UNCHANGED serverVars,
         \A c \in Clients : link'[c] = "up" => link[c] = "up"
  PROVE  AttendInv'
BY DEF AttendInv, ParentHolds, Attended, serverVars

LEMMA LinksElsewhere ==
  ASSUME TypeOK, NEW c \in Clients, ClientStep(c) \/ NetworkStep(c),
         NEW d \in Clients, link'[d] = "up"
  PROVE  link[d] = "up"
<1>1. CASE NetworkStep(c)
  BY <1>1 DEF NetworkStep, Network, Establish, Refuse, Arrive, Lose,
              TypeOK, StreamTypeOK
<1>2. CASE End(c)
  BY <1>2 DEF End, TypeOK, StreamTypeOK
<1>3. CASE Main(c) /\ ~End(c)
  BY <1>3 DEF Main, Options, SetTimer, LoadTimep, StoreTimep, LogTimer,
              OpenCard, OpenSocket, Connect, Connected, streamVars,
              TypeOK, StreamTypeOK
<1>4. CASE Handler(c) /\ ~End(c)
  BY <1>4 DEF Handler, PrintMsg, Write, WriteStream, WriteLost, WriteKills,
              streamVars, TypeOK, StreamTypeOK
<1>5. CASE Expire(c)
  BY <1>5 DEF Expire, streamVars
<1> QED
  BY <1>1, <1>2, <1>3, <1>4, <1>5 DEF ClientStep, Interrupt

LEMMA AttendStep == TypeOK /\ AttendInv /\ [Next]_vars => AttendInv'
<1> SUFFICES ASSUME TypeOK, AttendInv, [Next]_vars PROVE AttendInv'
  OBVIOUS
<1>1. CASE UNCHANGED vars
  BY <1>1, AttendOthers DEF vars, streamVars
<1>2. ASSUME NEW c \in Clients, ClientStep(c) \/ NetworkStep(c) PROVE AttendInv'
  BY <1>2, AttendOthers, LinksElsewhere DEF ClientStep, NetworkStep
<1>3. CASE ServerStep
  BY <1>3, AttendParent, AttendChild DEF ServerStep
<1> QED
  BY <1>1, <1>2, <1>3 DEF Next

\* A connection that is up has a child to read it, or the parent is about to
\* fork one or to close it: whatever fails or is killed, no client is left
\* with a connection nobody will ever read or close.
THEOREM AttendedAlways == Spec => []Attended
<1>1. Init => AttendInv
  BY DEF Init, StreamInit, ServerInit, AttendInv, ParentHolds, Attended
<1>2. AttendInv => Attended
  BY DEF AttendInv
<1> QED
  BY <1>1, <1>2, AttendStep, TypeCorrect, PTL DEF Spec

-----------------------------------------------------------------------------
(* One client at a time.                                                   *)

\* What a step leaves alone that is not one of client c.
Untouched(c) ==
  /\ mode' = mode
  /\ pc'[c] = pc[c] /\ hpc'[c] = hpc[c] /\ s'[c] = s[c] /\ fd'[c] = fd[c]
  /\ timep'[c] = timep[c] /\ register'[c] = register[c]
  /\ buf'[c] = buf[c] /\ rd_num'[c] = rd_num[c]
  /\ ticks'[c] = ticks[c] /\ pending'[c] = pending[c]
  /\ sent'[c] = sent[c]
  /\ link'[c] = "none" <=> link[c] = "none"
  /\ link'[c] = "syn" => link[c] = "syn"
  /\ link'[c] \in {"queued", "up"} => link[c] \in {"syn", "queued", "up"}

\* Each client's steps are its own.
LEMMA UntouchedByOthers ==
  ASSUME TypeOK, NEW c \in Clients, NEW d \in Clients, d # c, ClientStep(d)
  PROVE  Untouched(c)
<1> USE DEF TypeOK, ClientTypeOK, StreamTypeOK, Untouched
<1>1. CASE End(d)
  BY <1>1 DEF End
<1>2. CASE Main(d) /\ ~End(d)
  <2>1. CASE Options(d) \/ SetTimer(d) \/ LoadTimep(d) \/ StoreTimep(d)
    BY <1>2, <2>1 DEF Options, SetTimer, LoadTimep, StoreTimep, Go, streamVars
  <2>2. CASE LogTimer(d) \/ OpenCard(d) \/ OpenSocket(d)
    BY <1>2, <2>2 DEF LogTimer, OpenCard, OpenSocket, Go, streamVars
  <2>3. CASE Connect(d) \/ Connected(d)
    BY <1>2, <2>3 DEF Connect, Connected, Go
  <2> QED
    BY <1>2, <2>1, <2>2, <2>3 DEF Main
<1>3. CASE Handler(d) /\ ~End(d)
  <2>1. CASE PrintMsg(d)
    BY <2>1 DEF PrintMsg, streamVars
  <2>2. CASE Write(d) /\ ~WriteKills(d)
    BY <2>2 DEF Write, WriteStream, WriteLost, Returns
  <2> QED
    BY <1>3, <2>1, <2>2 DEF Handler, WriteKills
<1>4. CASE Expire(d)
  BY <1>4 DEF Expire, streamVars
<1> QED
  BY <1>1, <1>2, <1>3, <1>4 DEF ClientStep, Interrupt

LEMMA UntouchedByNetwork ==
  ASSUME TypeOK, NEW c \in Clients, NEW d \in Clients, NetworkStep(d)
  PROVE  Untouched(c)
BY DEF NetworkStep, Network, Establish, Refuse, Arrive, Lose, clientVars,
       TypeOK, StreamTypeOK, Untouched

LEMMA UntouchedByServer ==
  ASSUME TypeOK, NEW c \in Clients, ServerStep
  PROVE  Untouched(c)
<1> USE DEF TypeOK, StreamTypeOK, Untouched, clientVars
<1>1. CASE Parent
  BY <1>1 DEF ServerStep, Parent, Listen, Accept, Fork, ParentCloses, streamVars
<1>2. ASSUME NEW d \in Clients, Child(d) PROVE Untouched(c)
  BY <1>2 DEF ServerStep, Child, Read, ReadError, Return, CloseSs, streamVars
<1>3. CASE Stop
  BY <1>3 DEF ServerStep, Stop
<1> QED
  BY <1>1, <1>2, <1>3 DEF ServerStep

LEMMA OwnOrUntouched ==
  ASSUME TypeOK, [Next]_vars, NEW c \in Clients
  PROVE  ClientStep(c) \/ Untouched(c)
<1>1. CASE UNCHANGED vars
  BY <1>1 DEF vars, clientVars, streamVars, Untouched
<1>2. ASSUME NEW d \in Clients, ClientStep(d) PROVE ClientStep(c) \/ Untouched(c)
  BY <1>2, UntouchedByOthers
<1> QED
  BY <1>1, <1>2, UntouchedByNetwork, UntouchedByServer DEF Next

-----------------------------------------------------------------------------
(* The order main() gives to what its handler uses.                        *)

\* s is a socket when socket() has returned, the connection comes after
\* connect(), messages are on the stream after both; and a handler that does
\* not return has interrupted main()'s output.
ClientOrder(c) ==
  /\ s[c] = "socket" => pc[c] \in {"connect", "connecting", "pause", "ended"}
  /\ hpc[c] = "hung" => pc[c] = "log"
  /\ pc[c] \notin {"connecting", "pause", "ended"} => link[c] = "none"
  /\ link[c] \in {"none", "syn"} => sent[c] = <<>>
  /\ sent[c] # <<>> => s[c] = "socket"

OrderInv == \A c \in Clients : ClientOrder(c)

\* Without a step of its own a client keeps its order.
LEMMA OrderUntouched ==
  ASSUME NEW c \in Clients, ClientOrder(c), Untouched(c)
  PROVE  ClientOrder(c)'
BY DEF ClientOrder, Untouched

LEMMA OrderOwn ==
  ASSUME TypeOK, NEW c \in Clients, ClientOrder(c), ClientStep(c)
  PROVE  ClientOrder(c)'
<1> USE DEF TypeOK, ClientTypeOK, StreamTypeOK, ClientOrder
<1>1. CASE End(c)
  BY <1>1 DEF End
<1>2. CASE Main(c) /\ ~End(c)
  <2>1. CASE Options(c) \/ SetTimer(c) \/ LoadTimep(c) \/ StoreTimep(c)
    BY <1>2, <2>1 DEF Options, SetTimer, LoadTimep, StoreTimep, Go, streamVars
  <2>2. CASE LogTimer(c) \/ OpenCard(c) \/ OpenSocket(c)
    BY <1>2, <2>2 DEF LogTimer, OpenCard, OpenSocket, Go, streamVars
  <2>3. CASE Connect(c)
    BY <1>2, <2>3 DEF Connect, Go
  <2>4. CASE Connected(c)
    BY <2>4 DEF Connected, Go
  <2> QED
    BY <1>2, <2>1, <2>2, <2>3, <2>4 DEF Main
<1>3. CASE Handler(c) /\ ~End(c)
  <2>1. CASE PrintMsg(c)
    BY <2>1 DEF PrintMsg, streamVars
  <2>2. CASE WriteStream(c)
    <3>1. sent'[c] = Append(sent[c], buf[c])
      BY <2>2 DEF WriteStream
    <3> QED
      BY <2>2, <3>1 DEF WriteStream, Returns
  <2>3. CASE WriteLost(c)
    BY <2>3 DEF WriteLost, Returns
  <2> QED
    BY <1>3, <2>1, <2>2, <2>3 DEF Handler, Write, WriteKills
<1>4. CASE Expire(c)
  BY <1>4 DEF Expire, streamVars
<1> QED
  BY <1>1, <1>2, <1>3, <1>4 DEF ClientStep, Interrupt

LEMMA OrderStep == TypeOK /\ OrderInv /\ [Next]_vars => OrderInv'
BY OrderOwn, OrderUntouched, OwnOrUntouched DEF OrderInv

LEMMA OrderCorrect == Spec => []OrderInv
<1>1. Init => OrderInv
  BY DEF Init, ClientInit, StreamInit, OrderInv, ClientOrder
<1> QED
  BY <1>1, OrderStep, TypeCorrect, PTL DEF Spec

-----------------------------------------------------------------------------
(* Only readings of the card reach the wire.                               *)

\* With mode 1 the card is open when main() goes on to socket(), and a
\* message the handler writes to a socket was made after that.
ClientReads(c) ==
  /\ mode[c] = 1 /\ pc[c] \in {"socket", "connect", "connecting", "pause"}
       => fd[c]
  /\ hpc[c] = "write" /\ s[c] = "socket" => buf[c].true
  /\ \A i \in OnWire(c) : sent[c][i].true

ReadsInv == \A c \in Clients : ClientReads(c)

LEMMA ReadsUntouched ==
  ASSUME NEW c \in Clients, ClientReads(c), Untouched(c)
  PROVE  ClientReads(c)'
BY DEF ClientReads, Untouched, OnWire

\* What Append() leaves in its place, and where it puts the new message.
LEMMA AppendedMessage ==
  ASSUME TypeOK, NEW c \in Clients, WriteStream(c)
  PROVE  /\ OnWire(c)' = OnWire(c) \union {Len(sent[c]) + 1}
         /\ sent'[c][Len(sent[c]) + 1] = buf[c]
         /\ \A i \in OnWire(c) : sent'[c][i] = sent[c][i]
<1>1. /\ sent[c] \in Seq(Message) /\ buf[c] \in Message
      /\ Len(sent[c]) \in Nat
  BY ClientTypes
<1>2. sent'[c] = Append(sent[c], buf[c])
  BY DEF WriteStream, TypeOK, StreamTypeOK
<1>3. Len(sent'[c]) = Len(sent[c]) + 1
  BY <1>1, <1>2
<1>4. OnWire(c)' = OnWire(c) \union {Len(sent[c]) + 1}
  BY <1>1, <1>3 DEF OnWire
<1> QED
  BY <1>1, <1>2, <1>4 DEF OnWire

LEMMA ReadsOwn ==
  ASSUME TypeOK, NEW c \in Clients, ClientOrder(c), ClientReads(c),
         ClientStep(c)
  PROVE  ClientReads(c)'
<1>0. ASSUME WriteStream(c), hpc[c] = "write"
      PROVE  \A i \in OnWire(c)' : sent'[c][i].true
  <2> SUFFICES ASSUME NEW i \in OnWire(c)' PROVE sent'[c][i].true
    OBVIOUS
  <2>1. s[c] = "socket"
    BY <1>0 DEF WriteStream
  <2>2. CASE i \in OnWire(c)
    <3>1. sent'[c][i] = sent[c][i]
      BY <1>0, <2>2, AppendedMessage
    <3> QED
      BY <2>2, <3>1 DEF ClientReads
  <2>3. CASE i = Len(sent[c]) + 1
    <3>1. sent'[c][i] = buf[c]
      BY <1>0, <2>3, AppendedMessage
    <3> QED
      BY <1>0, <2>1, <3>1 DEF ClientReads
  <2> QED
    BY <1>0, <2>2, <2>3, AppendedMessage
<1> USE DEF TypeOK, ClientTypeOK, StreamTypeOK, ClientReads, OnWire
<1>1. CASE End(c)
  BY <1>1 DEF End
<1>2. CASE Main(c) /\ ~End(c)
  <2>1. CASE Options(c) \/ SetTimer(c) \/ LoadTimep(c) \/ StoreTimep(c)
    BY <1>2, <2>1 DEF Options, SetTimer, LoadTimep, StoreTimep, Go, streamVars
  <2>2. CASE LogTimer(c) \/ OpenCard(c) \/ OpenSocket(c)
    BY <1>2, <2>2 DEF LogTimer, OpenCard, OpenSocket, Go, streamVars
  <2>3. CASE Connect(c)
    BY <1>2, <2>3 DEF Connect, Go
  <2>4. CASE Connected(c)
    BY <2>4 DEF Connected, Go
  <2> QED
    BY <1>2, <2>1, <2>2, <2>3, <2>4 DEF Main
<1>3. CASE Handler(c) /\ ~End(c)
  <2>1. CASE PrintMsg(c)
    <3>1. buf'[c].true = (mode[c] # 1 \/ fd[c])
      BY <2>1 DEF PrintMsg
    <3>2. s[c] = "socket" => pc[c] \in {"connect", "connecting", "pause"}
      BY <2>1 DEF PrintMsg, ClientOrder
    <3> QED
      BY <2>1, <3>1, <3>2 DEF PrintMsg, streamVars
  <2>2. CASE WriteStream(c) /\ hpc[c] = "write"
    BY <1>0, <2>2 DEF WriteStream, Returns
  <2>3. CASE WriteLost(c)
    BY <2>3 DEF WriteLost, Returns
  <2> QED
    BY <1>3, <2>1, <2>2, <2>3 DEF Handler, Write, WriteKills
<1>4. CASE Expire(c)
  BY <1>4 DEF Expire, streamVars
<1> QED
  BY <1>1, <1>2, <1>3, <1>4 DEF ClientStep, Interrupt

LEMMA ReadsStep == TypeOK /\ OrderInv /\ ReadsInv /\ [Next]_vars => ReadsInv'
BY ReadsOwn, ReadsUntouched, OwnOrUntouched DEF OrderInv, ReadsInv

\* A message on the wire that claims the card's time has it: the handler may
\* run before the card is open, but not with a socket to write to.
THEOREM ReadingsReachWire == Spec => []ReadingsOnWire
<1>1. Init => ReadsInv
  <2> SUFFICES ASSUME Init, NEW c \in Clients PROVE ClientReads(c)
    BY DEF ReadsInv
  <2>1. OnWire(c) = {}
    <3>1. Len(sent[c]) = 0
      BY DEF Init, StreamInit
    <3> QED
      BY <3>1 DEF OnWire
  <2> QED
    BY <2>1 DEF Init, ClientInit, ClientReads
<1>2. ReadsInv => ReadingsOnWire
  BY DEF ReadsInv, ClientReads, ReadingsOnWire
<1> QED
  BY <1>1, <1>2, ReadsStep, TypeCorrect, OrderCorrect, PTL DEF Spec

-----------------------------------------------------------------------------
(* The reference time stays behind the ticks.                              *)

\* The ticks the handler has been called for, or that were merged with one
\* it was called for.
Seen(c) == IF pending[c] THEN ticks[c] - 1 ELSE ticks[c]

LEMMA SeenGrows ==
  ASSUME TypeOK, NEW c \in Clients
  PROVE  /\ Seen(c) \in Int /\ Seen(c) <= ticks[c]
         /\ UNCHANGED <<ticks, pending>> => Seen(c)' = Seen(c)
         /\ Expire(c) => Seen(c)' \in Int /\ Seen(c)' >= Seen(c)
         /\ PrintMsg(c) => /\ Seen(c) = ticks[c] - 1
                           /\ Seen(c)' = ticks[c] /\ ticks'[c] = ticks[c]
<1>1. ticks[c] \in Nat
  BY ClientTypes
<1>2. Seen(c) \in Int /\ Seen(c) <= ticks[c]
  BY <1>1 DEF Seen
<1>3. UNCHANGED <<ticks, pending>> => Seen(c)' = Seen(c)
  BY DEF Seen
<1>4. ASSUME Expire(c) PROVE Seen(c)' \in Int /\ Seen(c)' >= Seen(c)
  <2>1. ticks'[c] = ticks[c] + 1 /\ pending'[c]
    BY <1>4 DEF Expire, TypeOK, ClientTypeOK
  <2>2. Seen(c)' = ticks'[c] - 1
    BY <2>1 DEF Seen
  <2> QED
    BY <1>1, <1>2, <2>1, <2>2
<1>5. ASSUME PrintMsg(c)
      PROVE  /\ Seen(c) = ticks[c] - 1
             /\ Seen(c)' = ticks[c] /\ ticks'[c] = ticks[c]
  <2>1. pending[c] /\ ~pending'[c] /\ ticks'[c] = ticks[c]
    BY <1>5 DEF PrintMsg, TypeOK, ClientTypeOK
  <2> QED
    BY <2>1 DEF Seen
<1> QED
  BY <1>2, <1>3, <1>4, <1>5

\* When main() has put timep one interval back, timep is behind the ticks;
\* before that it has reached them at most, and so has main()'s copy of it.
ClientBehind(c) ==
  /\ pc[c] \in {"options", "arm"} => ~pending[c]
  /\ pc[c] \in {"load", "store"} => timep[c] <= Seen(c)
  /\ pc[c] = "store" => register[c] <= Seen(c)
  /\ pc[c] \in {"log", "card", "socket", "connect", "connecting", "pause"}
       => timep[c] < Seen(c)

BehindInv == \A c \in Clients : ClientBehind(c)

LEMMA BehindUntouched ==
  ASSUME NEW c \in Clients, ClientBehind(c), Untouched(c)
  PROVE  ClientBehind(c)'
BY DEF ClientBehind, Untouched, Seen

\* The step that makes timep as it is kept from then on, and those around it.
LEMMA BehindMain ==
  ASSUME TypeOK, NEW c \in Clients, ClientBehind(c), Main(c), ~End(c)
  PROVE  ClientBehind(c)'
<1>1. /\ timep[c] \in Int /\ register[c] \in Int /\ ticks[c] \in Nat
      /\ Seen(c) \in Int
  BY ClientTypes, SeenGrows
<1>2. UNCHANGED <<ticks, pending, pc, timep, register>> => ClientBehind(c)'
  BY DEF ClientBehind, Seen
<1>3. /\ UNCHANGED <<ticks, pending>>
      /\ Seen(c)' = Seen(c) /\ pending'[c] = pending[c]
  <2>1. UNCHANGED <<ticks, pending>>
    BY DEF Main, Options, SetTimer, LoadTimep, StoreTimep, LogTimer, OpenCard,
           OpenSocket, Connect, Connected
  <2> QED
    BY <2>1, SeenGrows
<1>4. CASE Options(c)
  <2>1. pc[c] = "options" /\ pc'[c] = "arm"
    BY <1>4 DEF Options, Go, TypeOK, ClientTypeOK
  <2> QED
    BY <1>3, <2>1 DEF ClientBehind
<1>5. CASE SetTimer(c)
  <2>1. pc[c] = "arm" /\ pc'[c] = "load" /\ timep'[c] = 0
    BY <1>5 DEF SetTimer, Go, TypeOK, ClientTypeOK
  <2>2. Seen(c) = ticks[c]
    BY <2>1 DEF ClientBehind, Seen
  <2>3. timep'[c] <= Seen(c)'
    BY <1>1, <1>3, <2>1, <2>2
  <2> QED
    BY <1>3, <2>1, <2>3 DEF ClientBehind
<1>6. CASE LoadTimep(c)
  <2>1. /\ pc[c] = "load" /\ pc'[c] = "store"
        /\ register'[c] = timep[c] /\ timep'[c] = timep[c]
    BY <1>6 DEF LoadTimep, Go, TypeOK, ClientTypeOK
  <2> QED
    BY <1>3, <2>1 DEF ClientBehind
<1>7. CASE StoreTimep(c)
  <2>1. pc[c] = "store" /\ pc'[c] = "log" /\ timep'[c] = register[c] - 1
    BY <1>7 DEF StoreTimep, Go, TypeOK, ClientTypeOK
  <2>2. timep'[c] < Seen(c)'
    <3>1. register[c] <= Seen(c)
      BY <2>1 DEF ClientBehind
    <3> QED
      BY <1>1, <1>3, <2>1, <3>1
  <2> QED
    BY <1>3, <2>1, <2>2 DEF ClientBehind
<1>8. CASE LogTimer(c) \/ OpenCard(c) \/ OpenSocket(c) \/ Connect(c) \/ Connected(c)
  <2>1. /\ pc[c] \in {"log", "card", "socket", "connect", "connecting"}
        /\ pc'[c] \in {"card", "socket", "connect", "connecting", "pause"}
        /\ timep'[c] = timep[c]
    BY <1>8 DEF LogTimer, OpenCard, OpenSocket, Connect, Connected, Go,
                TypeOK, ClientTypeOK
  <2> QED
    BY <1>3, <2>1 DEF ClientBehind
<1> QED
  BY <1>4, <1>5, <1>6, <1>7, <1>8 DEF Main

LEMMA BehindOwn ==
  ASSUME TypeOK, NEW c \in Clients, ClientBehind(c), ClientStep(c)
  PROVE  ClientBehind(c)'
<1>1. /\ timep[c] \in Int /\ register[c] \in Int /\ ticks[c] \in Nat
      /\ Seen(c) \in Int
  BY ClientTypes, SeenGrows
<1>2. CASE End(c)
  <2>1. pc'[c] = "ended"
    BY <1>2 DEF End, TypeOK, ClientTypeOK
  <2> QED
    BY <2>1 DEF ClientBehind
<1>3. CASE Main(c) /\ ~End(c)
  BY <1>3, BehindMain
<1>4. CASE PrintMsg(c)
  <2>1. /\ pc'[c] = pc[c] /\ register'[c] = register[c]
        /\ timep'[c] = NextTimep(c) /\ pending[c]
    BY <1>4 DEF PrintMsg, TypeOK, ClientTypeOK
  <2>2. timep'[c] \in {timep[c], timep[c] + 1}
    BY <2>1 DEF NextTimep
  <2>3. Seen(c)' = Seen(c) + 1
    BY <1>1, <1>4, SeenGrows
  <2>4. /\ timep[c] <= Seen(c) => timep'[c] <= Seen(c)'
        /\ register[c] <= Seen(c) => register'[c] <= Seen(c)'
        /\ timep[c] < Seen(c) => timep'[c] < Seen(c)'
    BY <1>1, <2>1, <2>2, <2>3
  <2> QED
    BY <2>1, <2>4 DEF ClientBehind
<1>5. CASE Write(c) /\ ~End(c)
  <2>1. UNCHANGED <<pc, timep, register, ticks, pending>>
    BY <1>5 DEF Write, WriteStream, WriteLost, WriteKills, Returns
  <2> QED
    BY <2>1 DEF ClientBehind, Seen
<1>6. CASE Expire(c)
  <2>1. /\ pc'[c] = pc[c] /\ register'[c] = register[c] /\ timep'[c] = timep[c]
        /\ pc[c] \in Armed
    BY <1>6 DEF Expire
  <2>2. Seen(c)' \in Int /\ Seen(c)' >= Seen(c)
    BY <1>6, SeenGrows
  <2>3. /\ timep[c] <= Seen(c) => timep'[c] <= Seen(c)'
        /\ register[c] <= Seen(c) => register'[c] <= Seen(c)'
        /\ timep[c] < Seen(c) => timep'[c] < Seen(c)'
    BY <1>1, <2>1, <2>2
  <2> QED
    BY <2>1, <2>3 DEF ClientBehind, Armed
<1> QED
  BY <1>2, <1>3, <1>4, <1>5, <1>6 DEF ClientStep, Handler, Interrupt

LEMMA BehindStep == TypeOK /\ BehindInv /\ [Next]_vars => BehindInv'
BY BehindOwn, BehindUntouched, OwnOrUntouched DEF BehindInv

LEMMA BehindCorrect == Spec => []BehindInv
<1>1. Init => BehindInv
  BY DEF Init, ClientInit, BehindInv, ClientBehind
<1> QED
  BY <1>1, BehindStep, TypeCorrect, PTL DEF Spec

-----------------------------------------------------------------------------
(* The messages on the wire.                                               *)

Follows(c, last, this) ==
  /\ this.n = last.n + 1
  /\ this.ref = IF mode[c] \in {1, 2} THEN last.ref ELSE last.ref + 1

\* A message that is about to be written is the newest, made in time, and the
\* successor of the last one on a stream that still takes messages.
ClientWire(c) ==
  /\ pc[c] = "ended" => hpc[c] = "idle"
  /\ hpc[c] = "write" => buf[c].n = rd_num[c] /\ buf[c].ref = timep[c]
  /\ hpc[c] = "write" /\ s[c] = "socket" => buf[c].ref < buf[c].tick
  /\ link[c] \in {"queued", "up"} /\ sent[c] # <<>> /\ pc[c] # "ended" =>
       LET last == sent[c][Len(sent[c])]
       IN  IF hpc[c] = "write" THEN Follows(c, last, buf[c])
           ELSE last.n = rd_num[c] /\ last.ref = timep[c]
  /\ \A i \in OnWire(c) : sent[c][i].ref < sent[c][i].tick
  /\ \A i \in OnWire(c) \ {1} : Follows(c, sent[c][i - 1], sent[c][i])

WireInv == \A c \in Clients : ClientWire(c)

LEMMA WireUntouched ==
  ASSUME NEW c \in Clients, ClientOrder(c), ClientWire(c), Untouched(c)
  PROVE  ClientWire(c)'
<1>1. OnWire(c)' = OnWire(c)
  BY DEF Untouched, OnWire
<1> QED
  BY <1>1 DEF ClientOrder, ClientWire, Untouched, Follows

\* A step that changes neither the messages nor what they are made from.
LEMMA WireKept ==
  ASSUME NEW c \in Clients, ClientWire(c),
         UNCHANGED <<mode, s, buf, rd_num, sent>>,
         timep'[c] = timep[c], hpc'[c] = hpc[c],
         pc'[c] = "ended" => pc[c] = "ended",
         pc[c] = "ended" => pc'[c] = "ended",
         link'[c] \in {"queued", "up"} => link[c] \in {"queued", "up"}
  PROVE  ClientWire(c)'
<1>1. OnWire(c)' = OnWire(c)
  BY DEF OnWire
<1> QED
  BY <1>1 DEF ClientWire, Follows

LEMMA WireMain ==
  ASSUME TypeOK, NEW c \in Clients, ClientOrder(c), ClientWire(c),
         Main(c), ~End(c)
  PROVE  ClientWire(c)'
<1>1. /\ hpc'[c] = "idle" /\ hpc[c] = "idle" /\ pc'[c] # "ended"
      /\ UNCHANGED <<mode, buf, rd_num, sent>>
  BY DEF Main, Options, SetTimer, LoadTimep, StoreTimep, LogTimer, OpenCard,
         OpenSocket, Connect, Connected, Go, streamVars, TypeOK, ClientTypeOK
<1>2. OnWire(c)' = OnWire(c)
  BY <1>1 DEF OnWire
<1>3. CASE Connected(c)
  BY <1>3, WireKept
  DEF Connected, Go, TypeOK, ClientTypeOK, StreamTypeOK
<1>4. CASE ~Connected(c)
  <2>1. pc[c] \notin {"connecting", "pause", "ended"}
    BY <1>4 DEF Main, Options, SetTimer, LoadTimep, StoreTimep, LogTimer,
                OpenCard, OpenSocket, Connect, Go
  <2>2. sent'[c] = <<>>
    BY <1>1, <2>1 DEF ClientOrder
  <2> QED
    BY <1>1, <1>2, <2>2 DEF ClientWire, Follows
<1> QED
  BY <1>3, <1>4

LEMMA WirePrint ==
  ASSUME TypeOK, NEW c \in Clients, ClientOrder(c), ClientBehind(c),
         ClientWire(c), PrintMsg(c)
  PROVE  ClientWire(c)'
<1>1. /\ timep[c] \in Int /\ ticks[c] \in Nat /\ rd_num[c] \in Nat
      /\ Seen(c) = ticks[c] - 1
  BY ClientTypes, SeenGrows
<1>2. /\ UNCHANGED <<pc, mode, s, link, sent>>
      /\ pc[c] # "ended" /\ hpc[c] = "idle"
  BY DEF PrintMsg, streamVars
<1>3. /\ timep'[c] = NextTimep(c) /\ rd_num'[c] = rd_num[c] + 1
      /\ buf'[c].n = rd_num[c] + 1 /\ buf'[c].ref = NextTimep(c)
      /\ buf'[c].tick = ticks[c]
  BY DEF PrintMsg, TypeOK, ClientTypeOK
<1>4. hpc'[c] = "write" \/ (hpc'[c] = "hung" /\ pc[c] = "log")
  BY DEF PrintMsg, TypeOK, ClientTypeOK
<1>5. OnWire(c)' = OnWire(c)
  BY <1>2 DEF OnWire
<1>6. s[c] = "socket" => NextTimep(c) < ticks[c]
  <2> SUFFICES ASSUME s[c] = "socket" PROVE NextTimep(c) < ticks[c]
    OBVIOUS
  <2>1. pc[c] \in {"connect", "connecting", "pause"}
    BY <1>2 DEF ClientOrder
  <2>2. timep[c] < Seen(c)
    BY <2>1 DEF ClientBehind
  <2>3. NextTimep(c) \in {timep[c], timep[c] + 1}
    BY DEF NextTimep
  <2> QED
    BY <1>1, <2>2, <2>3
<1>7. ASSUME link[c] \in {"queued", "up"}, sent[c] # <<>>
      PROVE  /\ hpc'[c] = "write"
             /\ Follows(c, sent[c][Len(sent[c])], buf[c]')
  <2>1. pc[c] # "log"
    BY <1>7 DEF ClientOrder
  <2>2. /\ sent[c][Len(sent[c])].n = rd_num[c]
        /\ sent[c][Len(sent[c])].ref = timep[c]
    BY <1>2, <1>7 DEF ClientWire
  <2> QED
    BY <1>3, <1>4, <2>1, <2>2 DEF Follows, NextTimep
<1>8. /\ \A i \in OnWire(c)' : sent'[c][i].ref < sent'[c][i].tick
      /\ \A i \in OnWire(c)' \ {1} : Follows(c, sent[c][i - 1], sent[c][i])'
  BY <1>2, <1>5 DEF ClientWire, Follows
<1> QED
  BY <1>2, <1>3, <1>4, <1>6, <1>7, <1>8 DEF ClientWire, Follows

LEMMA WireWrite ==
  ASSUME TypeOK, NEW c \in Clients, ClientOrder(c), ClientWire(c),
         hpc[c] = "write", WriteStream(c)
  PROVE  ClientWire(c)'
<1> DEFINE n == Len(sent[c])
<1>1. n \in Nat /\ sent[c] \in Seq(Message)
  BY ClientTypes
<1>2. /\ UNCHANGED <<pc, mode, s, buf, rd_num, timep, link>>
      /\ hpc'[c] = "idle" /\ pc[c] # "ended"
      /\ link[c] \in {"queued", "up"} /\ s[c] = "socket"
  BY DEF WriteStream, Returns, TypeOK, ClientTypeOK, ClientWire
<1>3. /\ OnWire(c)' = OnWire(c) \union {n + 1} /\ Len(sent'[c]) = n + 1
      /\ sent'[c][n + 1] = buf[c]
      /\ \A i \in OnWire(c) : sent'[c][i] = sent[c][i]
  <2>1. sent'[c] = Append(sent[c], buf[c])
    BY DEF WriteStream, TypeOK, StreamTypeOK
  <2>2. Len(sent'[c]) = n + 1
    BY <1>1, <2>1
  <2>3. /\ OnWire(c)' = OnWire(c) \union {n + 1} /\ sent'[c][n + 1] = buf[c]
        /\ \A i \in OnWire(c) : sent'[c][i] = sent[c][i]
    BY AppendedMessage
  <2> QED
    BY <2>2, <2>3
<1>4. \A i \in OnWire(c)' : sent'[c][i].ref < sent'[c][i].tick
  BY <1>2, <1>3 DEF ClientWire
<1>5. ASSUME NEW i \in OnWire(c)' \ {1}
      PROVE  Follows(c, sent'[c][i - 1], sent'[c][i])
  <2>1. CASE i \in OnWire(c)
    <3>1. i - 1 \in OnWire(c)
      BY <1>1, <1>5, <2>1 DEF OnWire
    <3> QED
      BY <1>3, <1>5, <2>1, <3>1 DEF ClientWire
  <2>2. CASE i = n + 1
    <3>1. n \in OnWire(c) /\ sent[c] # <<>> /\ i - 1 = n
      BY <1>1, <1>5, <2>2 DEF OnWire
    <3>2. Follows(c, sent[c][n], buf[c])
      BY <1>2, <3>1 DEF ClientWire
    <3> QED
      BY <1>3, <2>2, <3>1, <3>2
  <2> QED
    BY <1>3, <2>1, <2>2
<1>6. sent'[c][n + 1].n = rd_num[c] /\ sent'[c][n + 1].ref = timep[c]
  BY <1>3 DEF ClientWire
<1>7. \A i \in OnWire(c)' \ {1} : Follows(c, sent[c][i - 1], sent[c][i])'
  BY <1>2, <1>5 DEF Follows
<1> HIDE DEF n
<1> QED
  BY <1>2, <1>3, <1>4, <1>6, <1>7 DEF ClientWire

LEMMA WireOwn ==
  ASSUME TypeOK, NEW c \in Clients, ClientOrder(c), ClientBehind(c),
         ClientWire(c), ClientStep(c)
  PROVE  ClientWire(c)'
<1>1. CASE End(c)
  <2>1. /\ UNCHANGED <<mode, sent>> /\ pc'[c] = "ended" /\ hpc'[c] = "idle"
    BY <1>1 DEF End, TypeOK, ClientTypeOK
  <2>2. OnWire(c)' = OnWire(c)
    BY <2>1 DEF OnWire
  <2> QED
    BY <2>1, <2>2 DEF ClientWire, Follows
<1>2. CASE Main(c) /\ ~End(c)
  BY <1>2, WireMain
<1>3. CASE PrintMsg(c)
  BY <1>3, WirePrint
<1>4. CASE hpc[c] = "write" /\ WriteStream(c)
  BY <1>4, WireWrite
<1>5. CASE hpc[c] = "write" /\ WriteLost(c)
  <2>1. /\ UNCHANGED <<pc, mode, s, buf, rd_num, timep, sent>>
        /\ hpc'[c] = "idle" /\ pc[c] # "ended"
    BY <1>5 DEF WriteLost, Returns, TypeOK, ClientTypeOK, ClientWire
  <2>2. sent'[c] = <<>> \/ link'[c] \notin {"queued", "up"}
    BY <1>5 DEF WriteLost, ClientOrder, TypeOK, StreamTypeOK
  <2>3. OnWire(c)' = OnWire(c)
    BY <2>1 DEF OnWire
  <2> QED
    BY <2>1, <2>2, <2>3 DEF ClientWire, Follows
<1>6. CASE Expire(c)
  BY <1>6, WireKept DEF Expire, streamVars
<1> QED
  BY <1>1, <1>2, <1>3, <1>4, <1>5, <1>6
  DEF ClientStep, Handler, Write, WriteKills, Interrupt

LEMMA WireStep ==
  TypeOK /\ OrderInv /\ BehindInv /\ WireInv /\ [Next]_vars => WireInv'
BY WireOwn, WireUntouched, OwnOrUntouched DEF OrderInv, BehindInv, WireInv

LEMMA WireCorrect == Spec => []WireInv
<1>1. Init => WireInv
  <2> SUFFICES ASSUME Init, NEW c \in Clients PROVE ClientWire(c)
    BY DEF WireInv
  <2>1. OnWire(c) = {} /\ sent[c] = <<>>
    <3>1. Len(sent[c]) = 0 /\ sent[c] = <<>>
      BY DEF Init, StreamInit
    <3> QED
      BY <3>1 DEF OnWire
  <2> QED
    BY <2>1 DEF Init, ClientInit, ClientWire
<1> QED
  BY <1>1, WireStep, TypeCorrect, OrderCorrect, BehindCorrect, PTL DEF Spec

\* No message is missing between two that reach the server's host's stream,
\* and the reference times of the timer are one interval apart, whatever
\* order the ticks, main() and the connection come in.
THEOREM WireInOrder == Spec => []WireConsecutive
<1>1. WireInv => WireConsecutive
  BY DEF WireInv, ClientWire, Follows, WireConsecutive
<1> QED
  BY <1>1, WireCorrect, PTL

\* A message's reference time is never later than the appointment of the
\* tick that made it, also when signals were merged or an update of timep
\* was lost.
THEOREM ReferenceBehind == Spec => []ReferenceNotAhead
<1>1. WireInv => ReferenceNotAhead
  BY DEF WireInv, ClientWire, ReferenceNotAhead
<1> QED
  BY <1>1, WireCorrect, PTL

-----------------------------------------------------------------------------
(* The stream between the two programs.                                    *)

\* Arithmetic of the places where messages begin.
LEMMA MessageBegins ==
  ASSUME NEW pos \in Nat, pos % MsgLen = 0
  PROVE  pos \div MsgLen \in Nat /\ MsgLen * (pos \div MsgLen) = pos
BY StreamConstantsOK

LEMMA MessageCount ==
  ASSUME NEW n \in Nat
  PROVE  (MsgLen * n) % MsgLen = 0 /\ (MsgLen * n) \div MsgLen = n
BY StreamConstantsOK

LEMMA BeginsBefore ==
  ASSUME NEW m \in Int, NEW n \in Int, MsgLen * m < MsgLen * n
  PROVE  m < n
<1>1. CASE n <= m
  <2>1. MsgLen * (m - n) = MsgLen * m - MsgLen * n
    BY StreamConstantsOK
  <2>2. MsgLen * (m - n) >= 0
    BY <1>1, StreamConstantsOK
  <2> QED
    BY <2>1, <2>2, StreamConstantsOK
<1> QED
  BY <1>1

\* The messages of the stream, what is taken from it and what is heard change
\* with a write or a read only.
LEMMA StreamChanges ==
  ASSUME TypeOK, [Next]_vars
  PROVE  \/ UNCHANGED <<sent, taken, heard, calm, since>>
         \/ \E c \in Clients : WriteStream(c) /\ UNCHANGED heard
         \/ \E c \in Clients : Read(c)
<1> DEFINE Quiet == UNCHANGED <<sent, taken, heard, calm, since>>
<1>1. CASE UNCHANGED vars
  BY <1>1 DEF vars, streamVars, serverVars
<1>2. ASSUME NEW c \in Clients, ClientStep(c), ~WriteStream(c) PROVE Quiet
  <2>1. CASE End(c)
    BY <1>2, <2>1 DEF ClientStep, End, serverVars
  <2>2. CASE Main(c) /\ ~End(c)
    BY <1>2, <2>2 DEF ClientStep, Main, Options, SetTimer, LoadTimep, StoreTimep,
         LogTimer, OpenCard, OpenSocket, Connect, Connected, streamVars, serverVars
  <2>3. CASE Handler(c) /\ ~End(c)
    BY <1>2, <2>3 DEF ClientStep, Handler, PrintMsg, Write, WriteLost, WriteKills,
         streamVars, serverVars
  <2>4. CASE Expire(c)
    BY <1>2, <2>4 DEF ClientStep, Expire, streamVars, serverVars
  <2> QED
    BY <1>2, <2>1, <2>2, <2>3, <2>4 DEF ClientStep, Interrupt
<1>3. ASSUME NEW c \in Clients, NetworkStep(c) PROVE Quiet
  BY <1>3 DEF NetworkStep, Network, Establish, Refuse, Arrive, Lose, serverVars
<1>4. CASE Parent \/ Stop
  BY <1>4 DEF Parent, Listen, Accept, Fork, ParentCloses, Stop, streamVars
<1>5. ASSUME NEW c \in Clients, Child(c), ~Read(c) PROVE Quiet
  BY <1>5 DEF Child, ReadError, Return, CloseSs, streamVars
<1> QED
  BY <1>1, <1>2, <1>3, <1>4, <1>5 DEF Next, ClientStep, ServerStep, serverVars

\* A read shows nothing, or the message that began where it began.
LEMMA ReadHears ==
  ASSUME TypeOK, NEW c \in Clients, Read(c)
  PROVE  /\ taken'[c] \in Nat /\ taken[c] < taken'[c] /\ taken'[c] <= Written(c)
         /\ UNCHANGED sent
         /\ \A d \in Clients \ {c} : taken'[d] = taken[d] /\ heard'[d] = heard[d]
         /\ \/ UNCHANGED heard
            \/ \E m \in Nat :
                 /\ MsgLen * m = taken[c]
                 /\ heard' = [heard EXCEPT ![c] = Append(heard[c], m + 1)]
<1>1. PICK size \in Nat \ {0} :
        /\ size <= arrived[c] - taken[c]
        /\ taken' = [taken EXCEPT ![c] = taken[c] + size]
        /\ heard' = [heard EXCEPT ![c] = heard[c] \o Shown(taken[c], size)]
        /\ UNCHANGED <<sent, arrived>>
  BY ReadFacts
<1>2. /\ taken \in [Clients -> Nat] /\ heard \in [Clients -> Seq(Nat)]
      /\ taken[c] \in Nat /\ arrived[c] \in Nat /\ arrived[c] <= Written(c)
      /\ Written(c) \in Nat /\ heard[c] \in Seq(Nat)
  BY ClientTypes DEF TypeOK, ServerTypeOK, StreamTypeOK
<1>3. /\ taken'[c] \in Nat /\ taken[c] < taken'[c] /\ taken'[c] <= Written(c)
  BY <1>1, <1>2
<1>4. \A d \in Clients \ {c} : taken'[d] = taken[d] /\ heard'[d] = heard[d]
  BY <1>1, <1>2
<1>5. CASE Shown(taken[c], size) = <<>>
  <2>1. heard[c] \o <<>> = heard[c]
    BY <1>2
  <2>2. heard' = heard
    BY <1>1, <1>2, <1>5, <2>1
  <2> QED
    BY <1>1, <1>3, <1>4, <2>2
<1>6. CASE /\ taken[c] % MsgLen = 0
           /\ Shown(taken[c], size) = <<taken[c] \div MsgLen + 1>>
  <2>1. PICK m \in Nat : m = taken[c] \div MsgLen /\ MsgLen * m = taken[c]
    BY <1>2, <1>6, MessageBegins
  <2>2. heard[c] \o <<m + 1>> = Append(heard[c], m + 1)
    BY <1>2
  <2>3. heard' = [heard EXCEPT ![c] = Append(heard[c], m + 1)]
    BY <1>1, <1>6, <2>1, <2>2
  <2> QED
    BY <1>1, <1>3, <1>4, <2>1, <2>3
<1> QED
  BY <1>2, <1>5, <1>6, ShownTypes

\* Every message heard began before the place that is read next.
HeardBefore ==
  \A c \in Clients : \A i \in 1..Len(heard[c]) :
    MsgLen * (heard[c][i] - 1) < taken[c]

LEMMA HeardBeforeStep == TypeOK /\ HeardBefore /\ [Next]_vars => HeardBefore'
<1> SUFFICES ASSUME TypeOK, HeardBefore, [Next]_vars PROVE HeardBefore'
  OBVIOUS
<1>1. CASE UNCHANGED <<taken, heard>>
  BY <1>1 DEF HeardBefore
<1>2. ASSUME NEW c \in Clients, WriteStream(c), UNCHANGED heard PROVE HeardBefore'
  BY <1>2 DEF WriteStream, HeardBefore
<1>3. ASSUME NEW c \in Clients, Read(c) PROVE HeardBefore'
  <2> SUFFICES ASSUME NEW d \in Clients, NEW i \in 1..Len(heard'[d])
               PROVE  MsgLen * (heard'[d][i] - 1) < taken'[d]
    BY DEF HeardBefore
  <2>1. CASE d # c
    BY <1>3, <2>1, ReadHears DEF HeardBefore
  <2>2. ASSUME d = c, i \in 1..Len(heard[c]), heard'[c][i] = heard[c][i]
        PROVE  MsgLen * (heard'[d][i] - 1) < taken'[d]
    <3>1. heard[c][i] \in Nat /\ taken[c] \in Nat
      BY <2>2, ClientTypes
    <3>2. MsgLen * (heard[c][i] - 1) \in Int
      BY <3>1, StreamConstantsOK
    <3>3. MsgLen * (heard[c][i] - 1) < taken[c]
      BY <2>2 DEF HeardBefore
    <3>4. taken'[c] \in Nat /\ taken[c] < taken'[c]
      BY <1>3, ReadHears
    <3> QED
      BY <2>2, <3>1, <3>2, <3>3, <3>4
  <2>3. CASE d = c /\ UNCHANGED heard
    BY <2>2, <2>3
  <2>4. ASSUME d = c, NEW m \in Nat, MsgLen * m = taken[c],
               heard' = [heard EXCEPT ![c] = Append(heard[c], m + 1)]
        PROVE  MsgLen * (heard'[d][i] - 1) < taken'[d]
    <3>1. heard[c] \in Seq(Nat) /\ heard'[c] = Append(heard[c], m + 1)
      BY <2>4, ClientTypes DEF TypeOK, ServerTypeOK
    <3>2. CASE i \in 1..Len(heard[c])
      <4>1. heard'[c][i] = heard[c][i]
        BY <3>1, <3>2
      <4> QED
        BY <2>2, <2>4, <3>2, <4>1
    <3>3. CASE i \notin 1..Len(heard[c])
      <4>1. i = Len(heard[c]) + 1 /\ heard'[c][i] = m + 1
        BY <2>4, <3>1, <3>3
      <4>2. heard'[c][i] - 1 = m
        BY <4>1
      <4>3. taken[c] < taken'[c]
        BY <1>3, ReadHears
      <4> QED
        BY <2>4, <4>2, <4>3
    <3> QED
      BY <3>2, <3>3
  <2> QED
    BY <1>3, <2>1, <2>3, <2>4, ReadHears
<1> QED
  BY <1>1, <1>2, <1>3, StreamChanges

LEMMA HeardBeforeCorrect == Spec => []HeardBefore
<1>1. Init => HeardBefore
  <2> SUFFICES ASSUME Init, NEW c \in Clients PROVE 1..Len(heard[c]) = {}
    BY DEF HeardBefore
  <2>1. Len(heard[c]) = 0
    BY DEF Init, ServerInit
  <2> QED
    BY <2>1
<1> QED
  BY <1>1, HeardBeforeStep, TypeCorrect, PTL DEF Spec

-----------------------------------------------------------------------------
(* The abstract stream.                                                    *)

LEMMA AbstractInit == Init => Abstract!Init
<1> SUFFICES ASSUME Init PROVE Abstract!Init
  OBVIOUS
<1>1. heard = [c \in Clients |-> <<>>]
  BY DEF Init, ServerInit
<1>2. \A c \in Clients : Len(sent[c]) = 0
  BY DEF Init, StreamInit
<1>3. [c \in Clients |-> Len(sent[c])] = [c \in Clients |-> 0]
  BY <1>2
<1> QED
  BY <1>1, <1>3 DEF Abstract!Init

\* A write tells a message.
LEMMA WriteTells ==
  ASSUME TypeOK, NEW c \in Clients, WriteStream(c), UNCHANGED heard
  PROVE  Abstract!Tell(c)
<1> DEFINE told == [d \in Clients |-> Len(sent[d])]
<1>1. /\ sent \in [Clients -> Seq(Message)] /\ sent[c] \in Seq(Message)
      /\ buf[c] \in Message
  BY ClientTypes DEF TypeOK, StreamTypeOK
<1>2. sent' = [sent EXCEPT ![c] = Append(sent[c], buf[c])]
  BY DEF WriteStream
<1>3. Len(sent'[c]) = Len(sent[c]) + 1
  BY <1>1, <1>2
<1>4. \A d \in Clients \ {c} : Len(sent'[d]) = Len(sent[d])
  BY <1>1, <1>2
<1>5. [d \in Clients |-> Len(sent'[d])] = [told EXCEPT ![c] = told[c] + 1]
  BY <1>3, <1>4
<1> QED
  BY <1>5 DEF Abstract!Tell

\* A read hears a message that was told, later than all before, or none.
LEMMA ReadIsHeard ==
  ASSUME TypeOK, HeardBefore, NEW c \in Clients, Read(c), heard' # heard
  PROVE  Abstract!Hear(c)
<1>1. PICK m \in Nat :
        /\ MsgLen * m = taken[c]
        /\ heard' = [heard EXCEPT ![c] = Append(heard[c], m + 1)]
  BY ReadHears
<1>2. /\ taken[c] \in Nat /\ taken'[c] \in Nat /\ Len(sent[c]) \in Nat
      /\ heard[c] \in Seq(Nat)
  BY ReadHears, ClientTypes
<1>3. m + 1 \in 1..Len(sent[c])
  <2>1. MsgLen * m < MsgLen * Len(sent[c])
    BY <1>1, <1>2, ReadHears, ClientTypes DEF Written
  <2>2. m < Len(sent[c])
    BY <1>2, <2>1, BeginsBefore
  <2> QED
    BY <1>2, <2>2
<1>4. ASSUME NEW i \in 1..Len(heard[c]) PROVE heard[c][i] < m + 1
  <2>1. heard[c][i] \in Nat
    BY <1>2
  <2>2. MsgLen * (heard[c][i] - 1) < MsgLen * m
    BY <1>1 DEF HeardBefore
  <2>3. heard[c][i] - 1 < m
    BY <2>1, <2>2, BeginsBefore
  <2> QED
    BY <2>1, <2>3
<1>5. UNCHANGED [d \in Clients |-> Len(sent[d])]
  BY ReadHears
<1> QED
  BY <1>1, <1>3, <1>4, <1>5 DEF Abstract!Hear

LEMMA AbstractStep ==
  TypeOK /\ HeardBefore /\ [Next]_vars
    => [Abstract!Next]_<<[c \in Clients |-> Len(sent[c])], heard>>
<1> SUFFICES ASSUME TypeOK, HeardBefore, [Next]_vars
             PROVE  [Abstract!Next]_<<[c \in Clients |-> Len(sent[c])], heard>>
  OBVIOUS
<1>1. CASE UNCHANGED <<sent, heard>>
  BY <1>1
<1>2. ASSUME NEW c \in Clients, WriteStream(c), UNCHANGED heard
      PROVE  Abstract!Next
  BY <1>2, WriteTells DEF Abstract!Next
<1>3. ASSUME NEW c \in Clients, Read(c), heard' # heard PROVE Abstract!Next
  BY <1>3, ReadIsHeard DEF Abstract!Next
<1>4. ASSUME NEW c \in Clients, Read(c), heard' = heard
      PROVE  UNCHANGED <<sent, heard>>
  BY <1>4, ReadHears
<1> QED
  BY <1>1, <1>2, <1>3, <1>4, StreamChanges

\* Though a message may be read in two parts, or together with the beginning
\* of the next one, what the server prints as messages are messages that were
\* sent, each once at most, and in their order.
THEOREM StreamImplemented == Spec => ImplementsStream
<1> QED
  BY AbstractInit, AbstractStep, TypeCorrect, HeardBeforeCorrect, PTL
  DEF Spec, ImplementsStream, Abstract!Spec

-----------------------------------------------------------------------------
(* What is heard when the server keeps up.                                 *)

\* On a calm stream the server has read everything but the message that was
\* written last, and heard all it has read since the stream was calm.
ClientDrained(c) ==
  calm[c] =>
    \E n \in Nat :
      /\ taken[c] = MsgLen * n
      /\ Len(sent[c]) \in {n, n + 1}
      /\ \A m \in since[c] + 1..n : \E i \in 1..Len(heard[c]) : heard[c][i] = m

DrainInv == \A c \in Clients : ClientDrained(c)

\* A message that is written when everything is read makes the stream calm.
LEMMA DrainedWrite ==
  ASSUME TypeOK, NEW c \in Clients, ClientDrained(c), WriteStream(c),
         UNCHANGED heard
  PROVE  ClientDrained(c)'
<1>1. /\ Len(sent[c]) \in Nat /\ sent[c] \in Seq(Message) /\ buf[c] \in Message
      /\ taken[c] \in Nat /\ since[c] \in Nat
  BY ClientTypes
<1>2. /\ Len(sent'[c]) = Len(sent[c]) + 1 /\ taken'[c] = taken[c]
      /\ calm'[c] = (taken[c] = Written(c))
      /\ since'[c] = IF calm[c] THEN since[c] ELSE Len(sent[c])
  <2>1. sent'[c] = Append(sent[c], buf[c])
    BY DEF WriteStream, TypeOK, StreamTypeOK
  <2>2. Len(sent'[c]) = Len(sent[c]) + 1
    BY <1>1, <2>1
  <2>3. calm'[c] = (taken[c] = Written(c))
    BY DEF WriteStream, TypeOK, StreamTypeOK
  <2>4. /\ taken'[c] = taken[c]
        /\ since'[c] = IF calm[c] THEN since[c] ELSE Len(sent[c])
    BY DEF WriteStream, TypeOK, StreamTypeOK
  <2> QED
    BY <2>2, <2>3, <2>4
<1> SUFFICES ASSUME calm'[c] PROVE ClientDrained(c)'
  BY DEF ClientDrained
<1> DEFINE n == Len(sent[c])
<1>3. n \in Nat /\ taken'[c] = MsgLen * n /\ Len(sent'[c]) \in {n, n + 1}
  BY <1>1, <1>2 DEF Written
<1>4. ASSUME NEW m \in since'[c] + 1..n
      PROVE  \E i \in 1..Len(heard'[c]) : heard'[c][i] = m
  <2>1. CASE calm[c]
    <3>1. PICK k \in Nat :
            /\ taken[c] = MsgLen * k
            /\ \A j \in since[c] + 1..k :
                 \E i \in 1..Len(heard[c]) : heard[c][i] = j
      BY <2>1 DEF ClientDrained
    <3>2. k = n
      <4>1. taken[c] = Written(c)
        BY <1>2
      <4>2. MsgLen * k = MsgLen * n
        BY <1>2, <1>3, <3>1
      <4> QED
        BY <1>3, <3>1, <4>2, MessageCount
    <3> QED
      BY <1>2, <1>4, <2>1, <3>1, <3>2
  <2>2. CASE ~calm[c]
    BY <1>1, <1>2, <1>4, <2>2
  <2> QED
    BY <2>1, <2>2
<1> QED
  BY <1>3, <1>4 DEF ClientDrained

\* A message that is read whole is heard.
LEMMA DrainedRead ==
  ASSUME TypeOK, MsgLen <= ReadLen, Used <= MsgLen,
         NEW c \in Clients, ClientDrained(c), Read(c)
  PROVE  ClientDrained(c)'
<1>1. /\ Len(sent[c]) \in Nat /\ heard[c] \in Seq(Nat) /\ since[c] \in Nat
      /\ taken[c] \in Nat /\ arrived[c] \in Nat
  BY ClientTypes
<1>2. calm'[c] => calm[c] /\ arrived[c] = Written(c)
  BY DEF Read, TypeOK, StreamTypeOK
<1> SUFFICES ASSUME calm'[c] PROVE ClientDrained(c)'
  BY DEF ClientDrained
<1>3. PICK n \in Nat :
        /\ taken[c] = MsgLen * n /\ Len(sent[c]) \in {n, n + 1}
        /\ \A m \in since[c] + 1..n :
             \E i \in 1..Len(heard[c]) : heard[c][i] = m
  BY <1>2 DEF ClientDrained
<1>4. /\ taken' = [taken EXCEPT ![c] = @ + Smaller(ReadLen, arrived[c] - taken[c])]
      /\ heard' = [heard EXCEPT ![c] =
                     @ \o Shown(taken[c], Smaller(ReadLen, arrived[c] - taken[c]))]
      /\ taken[c] < arrived[c] /\ since' = since /\ sent' = sent
  BY DEF Read
<1>5. Len(sent[c]) = n + 1 /\ arrived[c] - taken[c] = MsgLen
  <2>1. arrived[c] = MsgLen * Len(sent[c])
    BY <1>2 DEF Written
  <2>2. Len(sent[c]) = n + 1
    <3>1. Len(sent[c]) = n => arrived[c] = taken[c]
      BY <1>3, <2>1
    <3>2. arrived[c] # taken[c]
      BY <1>1, <1>4
    <3> QED
      BY <1>3, <3>1, <3>2
  <2>3. MsgLen * (n + 1) = MsgLen * n + MsgLen
    BY StreamConstantsOK
  <2> QED
    BY <1>1, <1>3, <2>1, <2>2, <2>3, StreamConstantsOK
<1>6. Smaller(ReadLen, arrived[c] - taken[c]) = MsgLen
  BY <1>5, StreamConstantsOK, ServerConstantsOK DEF Smaller
<1>7. Shown(taken[c], MsgLen) = <<n + 1>>
  BY <1>3, MessageCount DEF Shown
<1>8. /\ taken'[c] = MsgLen * (n + 1) /\ Len(sent'[c]) \in {n + 1, n + 2}
  <2>1. taken'[c] = taken[c] + MsgLen
    BY <1>4, <1>6 DEF TypeOK, StreamTypeOK
  <2>2. MsgLen * (n + 1) = MsgLen * n + MsgLen
    BY StreamConstantsOK
  <2> QED
    BY <1>3, <1>4, <1>5, <2>1, <2>2
<1>9. /\ Len(heard'[c]) = Len(heard[c]) + 1
      /\ heard'[c][Len(heard[c]) + 1] = n + 1
      /\ \A i \in 1..Len(heard[c]) : heard'[c][i] = heard[c][i]
  <2>1. heard'[c] = heard[c] \o <<n + 1>>
    BY <1>4, <1>6, <1>7 DEF TypeOK, ServerTypeOK
  <2> QED
    BY <1>1, <2>1
<1>10. ASSUME NEW m \in since'[c] + 1..n + 1
       PROVE  \E i \in 1..Len(heard'[c]) : heard'[c][i] = m
  <2>1. CASE m = n + 1
    <3>1. Len(heard[c]) + 1 \in 1..Len(heard'[c])
      BY <1>1, <1>9
    <3> QED
      BY <1>9, <2>1, <3>1
  <2>2. CASE m # n + 1
    <3>1. m \in since[c] + 1..n
      BY <1>1, <1>4, <2>2
    <3>2. PICK i \in 1..Len(heard[c]) : heard[c][i] = m
      BY <1>3, <3>1
    <3>3. i \in 1..Len(heard'[c])
      BY <1>1, <1>9
    <3> QED
      BY <1>9, <3>2, <3>3
  <2> QED
    BY <2>1, <2>2
<1> QED
  BY <1>8, <1>10 DEF ClientDrained

LEMMA DrainStep ==
  ASSUME MsgLen <= ReadLen, Used <= MsgLen
  PROVE  TypeOK /\ DrainInv /\ [Next]_vars => DrainInv'
<1> SUFFICES ASSUME TypeOK, DrainInv, [Next]_vars, NEW c \in Clients
             PROVE  ClientDrained(c)'
  BY DEF DrainInv
<1>1. ClientDrained(c)
  BY DEF DrainInv
<1>2. CASE UNCHANGED <<sent, taken, heard, calm, since>>
  BY <1>1, <1>2 DEF ClientDrained
<1>3. ASSUME NEW d \in Clients, WriteStream(d), UNCHANGED heard
      PROVE  ClientDrained(c)'
  <2>1. CASE d = c
    BY <1>1, <1>3, <2>1, DrainedWrite
  <2>2. CASE d # c
    <3>1. /\ sent'[c] = sent[c] /\ taken'[c] = taken[c]
          /\ calm'[c] = calm[c] /\ since'[c] = since[c]
      BY <1>3, <2>2 DEF WriteStream, TypeOK, StreamTypeOK
    <3> QED
      BY <1>1, <1>3, <3>1 DEF ClientDrained
  <2> QED
    BY <2>1, <2>2
<1>4. ASSUME NEW d \in Clients, Read(d) PROVE ClientDrained(c)'
  <2>1. CASE d = c
    BY <1>1, <1>4, <2>1, DrainedRead
  <2>2. CASE d # c
    <3>1. /\ sent'[c] = sent[c] /\ taken'[c] = taken[c] /\ heard'[c] = heard[c]
          /\ calm'[c] = calm[c] /\ since'[c] = since[c]
      BY <1>4, <2>2, ReadHears DEF Read, TypeOK, StreamTypeOK
    <3> QED
      BY <1>1, <3>1 DEF ClientDrained
  <2> QED
    BY <2>1, <2>2
<1> QED
  BY <1>2, <1>3, <1>4, StreamChanges

\* While the server reads each message before the next one is written it
\* hears every one of them, whatever it has missed before: a stream that was
\* drained once is in step again.  read() must ask for a whole message, and
\* only look at what belongs to it.
THEOREM DrainedHeard ==
  ASSUME MsgLen <= ReadLen, Used <= MsgLen
  PROVE  Spec => []HeardSinceDrained
<1>1. Init => DrainInv
  <2> SUFFICES ASSUME Init, NEW c \in Clients PROVE ClientDrained(c)
    BY DEF DrainInv
  <2>1. taken[c] = MsgLen * 0 /\ Len(sent[c]) = 0 /\ since[c] = 0
    BY StreamConstantsOK DEF Init, StreamInit
  <2>2. since[c] + 1..0 = {}
    BY <2>1
  <2> QED
    BY <2>1, <2>2 DEF ClientDrained
<1>2. TypeOK /\ DrainInv => HeardSinceDrained
  <2> SUFFICES ASSUME TypeOK, DrainInv, NEW c \in Clients, calm[c]
               PROVE  /\ taken[c] % MsgLen = 0
                      /\ \A m \in since[c] + 1..taken[c] \div MsgLen :
                           \E i \in 1..Len(heard[c]) : heard[c][i] = m
    BY DEF HeardSinceDrained
  <2>1. PICK n \in Nat :
          /\ taken[c] = MsgLen * n
          /\ \A m \in since[c] + 1..n :
               \E i \in 1..Len(heard[c]) : heard[c][i] = m
    BY DEF DrainInv, ClientDrained
  <2>2. taken[c] % MsgLen = 0 /\ taken[c] \div MsgLen = n
    BY <2>1, MessageCount
  <2> QED
    BY <2>1, <2>2
<1> QED
  BY <1>1, <1>2, DrainStep, TypeCorrect, PTL DEF Spec

=============================================================================
