---------------------------- MODULE CardDriverProofs ----------------------------
(***************************************************************************)
(* Proofs about CardDriver, for any number of cards, slots, objects and    *)
(* files, all faults, and any number of probes at once: the types of every *)
(* state, and what the driver promises until two probes search priv[]      *)
(* between one search and the filling of the slot it found.                *)
(***************************************************************************)
EXTENDS CardDriver, WellFoundedInduction, TLAPS

\* The loop over priv[] finds a slot that is free, if there is one.
LEMMA FirstFree ==
  ASSUME FreeSlots # {}
  PROVE  First(FreeSlots) \in Slots /\ priv[First(FreeSlots)] = NULL
<1>1. FreeSlots \in SUBSET Nat
  BY DriverConstantsOK DEF FreeSlots
<1>2. \E i \in FreeSlots : \A j \in FreeSlots : i <= j
  <2> DEFINE Less == OpToRel(<, Nat)
  <2>1. IsWellFoundedOn(Less, Nat)
    BY NatLessThanWellFounded
  <2>2. \A i, j \in Nat : i < j => <<i, j>> \in Less
    BY DEF OpToRel
  <2> HIDE DEF Less
  <2>3. \E i \in FreeSlots : \A j \in FreeSlots : <<j, i>> \notin Less
    BY <1>1, <2>1, WFMin
  <2>4. PICK i \in FreeSlots : \A j \in FreeSlots : <<j, i>> \notin Less
    BY <2>3
  <2>5. ASSUME NEW j \in FreeSlots PROVE i <= j
    <3>1. i \in Nat /\ j \in Nat /\ ~(j < i)
      BY <1>1, <2>2, <2>4
    <3> QED
      BY <3>1
  <2> QED
    BY <2>5
<1>3. First(FreeSlots) \in FreeSlots
  BY <1>2 DEF First
<1> QED
  BY <1>3 DEF FreeSlots

LEMMA NullTypes == NULL \notin Objects /\ NULL \notin Slots /\ NULL \notin Cards
BY DriverConstantsOK

-----------------------------------------------------------------------------
(* Types, however the probes cross.                                        *)

\* A card's record, and an object, in TypeOK.
CardRecord ==
  [pc : Probing \union Unbound \union {"waiting", "bound", "removing"},
   slot : Slots \union {NULL}, drvdata : Objects \union {NULL},
   enabled : BOOLEAN, regions : BOOLEAN,
   maps : SUBSET Mappings, leaked : BOOLEAN]

Object == [live : BOOLEAN, reg : Cards \union {NULL}, minor : Slots \union {0}]

\* A probe has a slot from its search on.
Slotted == \A c \in Cards : card[c].pc \in Probing => card[c].slot \in Slots

TypeInv == TypeOK /\ Slotted

LEMMA TypesOf ==
  ASSUME TypeInv, NEW c \in Cards
  PROVE  /\ card \in [Cards -> CardRecord] /\ card[c] \in CardRecord
         /\ priv \in [Slots -> Objects \union {NULL}]
         /\ heap \in [Objects -> Object]
BY DEF TypeInv, TypeOK, CardRecord, Object

\* A card's record is replaced by another one.
LEMMA CardReplaced ==
  ASSUME card \in [Cards -> CardRecord], NEW c \in Cards, NEW k \in CardRecord,
         card' = [card EXCEPT ![c] = k]
  PROVE  /\ card' \in [Cards -> CardRecord] /\ card'[c] = k
         /\ \A d \in Cards \ {c} : card'[d] = card[d]
OBVIOUS

\* iounmap() takes a mapping from one card at most.
LEMMA UnmappedTypes ==
  ASSUME TypeInv, NEW o
  PROVE  /\ Unmapped(o) \in [Cards -> CardRecord]
         /\ \A d \in Cards :
              /\ Unmapped(o)[d].pc = card[d].pc
              /\ Unmapped(o)[d].slot = card[d].slot
              /\ Unmapped(o)[d].drvdata = card[d].drvdata
              /\ d = heap[o].reg =>
                   Unmapped(o)[d].maps = card[d].maps \ {"m_immrbar"}
              /\ d # heap[o].reg => Unmapped(o)[d] = card[d]
<1> SUFFICES ASSUME NEW d \in Cards
             PROVE  /\ Unmapped(o)[d] \in CardRecord
                    /\ Unmapped(o)[d].pc = card[d].pc
                    /\ Unmapped(o)[d].slot = card[d].slot
                    /\ Unmapped(o)[d].drvdata = card[d].drvdata
                    /\ d = heap[o].reg =>
                         Unmapped(o)[d].maps = card[d].maps \ {"m_immrbar"}
                    /\ d # heap[o].reg => Unmapped(o)[d] = card[d]
  BY DEF Unmapped
<1>1. card[d] \in CardRecord
  BY TypesOf
<1>2. CASE d = heap[o].reg
  <2> DEFINE left == card[d].maps \ {"m_immrbar"}
  <2>1. left \in SUBSET Mappings
    BY <1>1 DEF CardRecord
  <2>2. Unmapped(o)[d] = [card[d] EXCEPT !.maps = left]
    BY <1>2 DEF Unmapped
  <2>3. Unmapped(o)[d].maps = left /\ (d # heap[o].reg => FALSE)
    BY <1>1, <1>2, <2>2 DEF CardRecord
  <2>4. d = heap[o].reg => Unmapped(o)[d].maps = card[d].maps \ {"m_immrbar"}
    BY <2>3
  <2> HIDE DEF left
  <2>5. /\ Unmapped(o)[d] \in CardRecord
        /\ Unmapped(o)[d].pc = card[d].pc
        /\ Unmapped(o)[d].slot = card[d].slot
        /\ Unmapped(o)[d].drvdata = card[d].drvdata
    BY <1>1, <2>1, <2>2 DEF CardRecord
  <2> QED
    BY <1>2, <2>4, <2>5
<1>3. CASE d # heap[o].reg
  <2>1. Unmapped(o)[d] = card[d]
    BY <1>3 DEF Unmapped
  <2> QED
    BY <1>1, <1>3, <2>1
<1> QED
  BY <1>2, <1>3

LEMMA WithMinorTypes ==
  ASSUME TypeInv, NEW S, NEW i \in Slots
  PROVE  WithMinor(S, i) \in [Objects -> Object]
<1> SUFFICES ASSUME NEW o \in Objects PROVE WithMinor(S, i)[o] \in Object
  BY DEF WithMinor
<1>1. heap[o] \in Object
  BY DEF TypeInv, TypeOK, Object
<1>2. WithMinor(S, i)[o] \in {heap[o], [heap[o] EXCEPT !.minor = i]}
  BY DEF WithMinor
<1> QED
  BY <1>1, <1>2 DEF Object

\* A step of one card is well typed when what it writes is.
LEMMA CardStepTypes ==
  ASSUME TypeInv, UNCHANGED <<module, class, chrdev, file>>,
         card' \in [Cards -> CardRecord], priv' \in [Slots -> Objects \union {NULL}],
         heap' \in [Objects -> Object], nodes' \subseteq Slots,
         oops' \in BOOLEAN, quiet' \in BOOLEAN, crossed' \in BOOLEAN,
         Slotted'
  PROVE  TypeInv'
BY DEF TypeInv, TypeOK, CardRecord, Object

\* The same of a card that keeps its slot, or goes.
LEMMA SlotKept ==
  ASSUME TypeInv, NEW c \in Cards,
         \A d \in Cards \ {c} : card'[d].pc = card[d].pc /\ card'[d].slot = card[d].slot,
         card'[c].pc \in Probing => card'[c].slot \in Slots
  PROVE  Slotted'
BY DEF TypeInv, Slotted

LEMMA ScanTypes ==
  ASSUME TypeInv, NEW c \in Cards, Scan(c)
  PROVE  TypeInv'
<1>1. card \in [Cards -> CardRecord] /\ card[c] \in CardRecord
  BY TypesOf
<1>2. /\ UNCHANGED <<module, class, chrdev, priv, heap, nodes, file, oops, quiet>>
      /\ crossed' \in BOOLEAN
  BY DEF Scan, Scanning, TypeInv, TypeOK
<1>3. PICK k \in CardRecord :
        /\ card' = [card EXCEPT ![c] = k]
        /\ k.pc \in Probing => k.slot \in Slots
  <2>1. CASE FreeSlots = {}
    <3>1. [card[c] EXCEPT !.pc = "busy"] \in CardRecord
      BY <1>1 DEF CardRecord, Unbound
    <3>2. [card[c] EXCEPT !.pc = "busy"].pc \notin Probing
      BY <1>1 DEF CardRecord, Probing
    <3> QED
      BY <2>1, <3>1, <3>2 DEF Scan
  <2>2. CASE FreeSlots # {}
    <3>1. First(FreeSlots) \in Slots
      BY <2>2, FirstFree
    <3>2. [card[c] EXCEPT !.pc = "scanned", !.slot = First(FreeSlots)] \in CardRecord
      BY <1>1, <3>1 DEF CardRecord, Probing
    <3>3. [card[c] EXCEPT !.pc = "scanned", !.slot = First(FreeSlots)].slot \in Slots
      BY <1>1, <3>1 DEF CardRecord
    <3> QED
      BY <2>2, <3>2, <3>3 DEF Scan
  <2> QED
    BY <2>1, <2>2
<1>4. /\ card' \in [Cards -> CardRecord] /\ card'[c] = k
      /\ \A d \in Cards \ {c} : card'[d] = card[d]
  BY <1>1, <1>3, CardReplaced
<1>5. Slotted'
  BY <1>3, <1>4, SlotKept
<1> QED
  BY <1>2, <1>4, <1>5, CardStepTypes, TypesOf DEF TypeInv, TypeOK

LEMMA KmallocTypes ==
  ASSUME TypeInv, NEW c \in Cards, Kmalloc(c)
  PROVE  TypeInv'
<1>1. /\ card \in [Cards -> CardRecord] /\ card[c] \in CardRecord
      /\ priv \in [Slots -> Objects \union {NULL}] /\ heap \in [Objects -> Object]
  BY TypesOf
<1>2. /\ card[c].pc = "scanned"
      /\ card' = [card EXCEPT ![c] = [card[c] EXCEPT !.pc = "filled"]]
      /\ UNCHANGED <<module, class, chrdev, nodes, file, oops, crossed>>
  BY <1>1 DEF Kmalloc
<1>3. [card[c] EXCEPT !.pc = "filled"] \in CardRecord
  BY <1>1 DEF CardRecord, Probing
<1>4. /\ card' \in [Cards -> CardRecord] /\ card'[c].slot = card[c].slot
      /\ \A d \in Cards \ {c} : card'[d] = card[d]
  BY <1>1, <1>2, <1>3, CardReplaced DEF CardRecord
<1>5. Slotted'
  BY <1>2, <1>4, SlotKept DEF TypeInv, Slotted, Probing
<1>6. Fresh \in Object
  BY DEF Fresh, Free, Object
<1>7. /\ heap' \in [Objects -> Object] /\ quiet' \in BOOLEAN
      /\ priv' \in [Slots -> Objects \union {NULL}]
  <2>1. ASSUME NEW o \in Objects, heap' = [heap EXCEPT ![o] = Fresh], UNCHANGED quiet,
               priv' = [priv EXCEPT ![card[c].slot] = o]
        PROVE  <1>7!:
    BY <1>1, <1>6, <2>1 DEF TypeInv, TypeOK
  <2>2. ASSUME priv' = [priv EXCEPT ![card[c].slot] = NULL], quiet' = FALSE,
               UNCHANGED heap
        PROVE  <1>7!:
    BY <1>1, <2>2
  <2> QED
    BY <2>1, <2>2 DEF Kmalloc
<1> QED
  BY <1>2, <1>4, <1>5, <1>7, CardStepTypes DEF TypeInv, TypeOK

LEMMA AdoptTypes ==
  ASSUME TypeInv, NEW c \in Cards, Adopt(c)
  PROVE  TypeInv'
<1> DEFINE o == priv[card[c].slot]
<1>1. /\ card \in [Cards -> CardRecord] /\ card[c] \in CardRecord
      /\ priv \in [Slots -> Objects \union {NULL}] /\ heap \in [Objects -> Object]
  BY TypesOf
<1>2. /\ card[c].pc = "filled" /\ card[c].slot \in Slots
      /\ UNCHANGED <<module, class, chrdev, priv, nodes, file, quiet, crossed>>
  BY DEF Adopt, TypeInv, Slotted, Probing
<1>3. CASE o = NULL
  <2>1. /\ card' = [card EXCEPT ![c] = [card[c] EXCEPT !.pc = "bound", !.slot = NULL]]
        /\ UNCHANGED <<heap, oops>>
    BY <1>1, <1>3 DEF Adopt
  <2>2. [card[c] EXCEPT !.pc = "bound", !.slot = NULL] \in CardRecord
    BY <1>1 DEF CardRecord
  <2>3. /\ card' \in [Cards -> CardRecord] /\ card'[c].pc = "bound"
        /\ \A d \in Cards \ {c} : card'[d] = card[d]
    BY <1>1, <2>1, <2>2, CardReplaced DEF CardRecord
  <2>4. Slotted'
    BY <2>3, SlotKept DEF Probing
  <2> QED
    BY <1>1, <1>2, <2>1, <2>3, <2>4, CardStepTypes DEF TypeInv, TypeOK
<1>4. CASE o # NULL
  <2>1. /\ card' = [card EXCEPT ![c] =
             [card[c] EXCEPT !.pc = "allocated", !.drvdata = o]]
        /\ heap' = [heap EXCEPT ![o].reg = NULL, ![o].minor = 0]
        /\ oops' = ~Live(o)
    BY <1>1, <1>4 DEF Adopt
  <2>2. o \in Objects
    BY <1>1, <1>2, <1>4
  <2> HIDE DEF o
  <2>3. [card[c] EXCEPT !.pc = "allocated", !.drvdata = o] \in CardRecord
    BY <1>1, <2>2 DEF CardRecord, Probing
  <2>4. /\ card' \in [Cards -> CardRecord] /\ card'[c].slot = card[c].slot
        /\ \A d \in Cards \ {c} : card'[d] = card[d]
    BY <1>1, <2>1, <2>3, CardReplaced DEF CardRecord
  <2>5. Slotted'
    BY <1>2, <2>4, SlotKept
  <2>6. heap' \in [Objects -> Object]
    BY <1>1, <2>1, <2>2 DEF Object
  <2>7. oops' \in BOOLEAN
    BY <2>1
  <2> QED
    BY <1>1, <1>2, <2>4, <2>5, <2>6, <2>7, CardStepTypes DEF TypeInv, TypeOK
<1> QED
  BY <1>3, <1>4

\* A step of a probe or a removal that writes to the cards what the record k
\* says, after an iounmap() or none, is well typed.
LEMMA ProbeStepTypes ==
  ASSUME TypeInv, NEW c \in Cards, NEW base \in [Cards -> CardRecord],
         \A d \in Cards : base[d].pc = card[d].pc /\ base[d].slot = card[d].slot,
         NEW k \in CardRecord, card' = [base EXCEPT ![c] = k],
         k.pc \in Probing => k.slot \in Slots,
         UNCHANGED <<module, class, chrdev, priv, file, crossed>>,
         heap' \in [Objects -> Object], nodes' \subseteq Slots,
         oops' \in BOOLEAN, quiet' \in BOOLEAN
  PROVE  TypeInv'
<1>1. /\ card' \in [Cards -> CardRecord] /\ card'[c] = k
      /\ \A d \in Cards \ {c} : card'[d] = base[d]
  OBVIOUS
<1>2. Slotted'
  BY <1>1, SlotKept
<1> QED
  BY <1>1, <1>2, CardStepTypes, TypesOf DEF TypeInv, TypeOK

LEMMA BoardInitTypes ==
  ASSUME TypeInv, NEW c \in Cards, BoardInit(c)
  PROVE  TypeInv'
<1> DEFINE o == card[c].drvdata
           i == card[c].slot
           more == card[c].maps \union {"m_immrbar"}
<1>1. /\ card \in [Cards -> CardRecord] /\ card[c] \in CardRecord
      /\ heap \in [Objects -> Object]
  BY TypesOf
<1>2. /\ card[c].pc = "allocated" /\ i \in Slots
      /\ UNCHANGED <<module, class, chrdev, priv, nodes, file, crossed>>
  BY DEF BoardInit, TypeInv, Slotted, Probing
<1>3. /\ heap' \in [Objects -> Object] /\ nodes' \subseteq Slots
      /\ oops' \in BOOLEAN /\ quiet' \in BOOLEAN
  <2>1. WithMinor({priv[i]}, i) \in [Objects -> Object]
    BY <1>2, WithMinorTypes
  <2>2. [heap EXCEPT ![o].reg = c] \in [Objects -> Object]
    BY <1>1 DEF Object
  <2>3. Live(o) \in BOOLEAN /\ Live(priv[i]) \in BOOLEAN
    BY DEF Live
  <2> QED
    BY <1>1, <1>2, <2>1, <2>2, <2>3 DEF BoardInit, TypeInv, TypeOK
<1>4. CASE card' = [card EXCEPT ![c] =
             [card[c] EXCEPT !.pc = "mapped", !.enabled = TRUE, !.regions = TRUE,
                             !.maps = more]]
  <2>1. more \in SUBSET Mappings
    BY <1>1 DEF CardRecord, Mappings
  <2> HIDE DEF more
  <2>2. [card[c] EXCEPT !.pc = "mapped", !.enabled = TRUE, !.regions = TRUE,
                        !.maps = more] \in CardRecord
    BY <1>1, <2>1 DEF CardRecord, Probing
  <2>3. [card[c] EXCEPT !.pc = "mapped", !.enabled = TRUE, !.regions = TRUE,
                        !.maps = more].slot \in Slots
    BY <1>1, <1>2 DEF CardRecord
  <2> QED
    BY <1>1, <1>2, <1>3, <1>4, <2>2, <2>3, ProbeStepTypes
<1>5. CASE \/ card' = [card EXCEPT ![c] = [card[c] EXCEPT !.pc = "failed"]]
           \/ card' = [card EXCEPT ![c] = [card[c] EXCEPT !.pc = "bound"]]
  <2>1. /\ [card[c] EXCEPT !.pc = "failed"] \in CardRecord
        /\ [card[c] EXCEPT !.pc = "bound"] \in CardRecord
    BY <1>1 DEF CardRecord, Probing
  <2>2. /\ [card[c] EXCEPT !.pc = "failed"].slot = i
        /\ [card[c] EXCEPT !.pc = "bound"].slot = i
    BY <1>1 DEF CardRecord
  <2> QED
    BY <1>1, <1>2, <1>3, <1>5, <2>1, <2>2, ProbeStepTypes
<1>6. CASE card' = [Unmapped(o) EXCEPT ![c].pc = "failed"]
  <2>1. /\ Unmapped(o) \in [Cards -> CardRecord]
        /\ \A d \in Cards : /\ Unmapped(o)[d].pc = card[d].pc
                            /\ Unmapped(o)[d].slot = card[d].slot
    BY UnmappedTypes
  <2>2. /\ [Unmapped(o)[c] EXCEPT !.pc = "failed"] \in CardRecord
        /\ [Unmapped(o)[c] EXCEPT !.pc = "failed"].slot = i
    BY <2>1 DEF CardRecord, Probing
  <2>3. card' = [Unmapped(o) EXCEPT ![c] = [Unmapped(o)[c] EXCEPT !.pc = "failed"]]
    BY <1>6
  <2> QED
    BY <1>2, <1>3, <2>1, <2>2, <2>3, ProbeStepTypes
<1> QED
  BY <1>1, <1>4, <1>5, <1>6 DEF BoardInit

LEMMA PublishTypes ==
  ASSUME TypeInv, NEW c \in Cards, Publish(c)
  PROVE  TypeInv'
<1> DEFINE o == card[c].drvdata
           i == card[c].slot
           more == card[c].maps \union {"shm_mem"}
<1>1. card \in [Cards -> CardRecord] /\ card[c] \in CardRecord
  BY TypesOf
<1>2. /\ card[c].pc = "mapped" /\ i \in Slots
      /\ UNCHANGED <<module, class, chrdev, priv, file, crossed>>
  BY DEF Publish, TypeInv, Slotted, Probing
<1>3. /\ heap' \in [Objects -> Object] /\ nodes' \subseteq Slots
      /\ oops' \in BOOLEAN /\ quiet' \in BOOLEAN
  <2>1. WithMinor({o, priv[i]}, i) \in [Objects -> Object]
    BY <1>2, WithMinorTypes
  <2>2. heap \in [Objects -> Object]
    BY TypesOf
  <2>3. heap' \in {heap, WithMinor({o, priv[i]}, i)} /\ nodes' \in {nodes, nodes \union {i}}
    BY DEF Publish, MakeNode
  <2>4. oops' \in BOOLEAN
    BY DEF Publish, Live
  <2>5. quiet' \in {quiet, FALSE}
    BY DEF Publish, MakeNode
  <2> QED
    BY <1>2, <2>1, <2>2, <2>3, <2>4, <2>5 DEF TypeInv, TypeOK
<1>4. CASE card' = [card EXCEPT ![c] =
             [card[c] EXCEPT !.pc = "bound", !.maps = more]]
  <2>1. more \in SUBSET Mappings
    BY <1>1 DEF CardRecord, Mappings
  <2> HIDE DEF more
  <2>2. /\ [card[c] EXCEPT !.pc = "bound", !.maps = more] \in CardRecord
        /\ [card[c] EXCEPT !.pc = "bound", !.maps = more].slot = i
    BY <1>1, <2>1 DEF CardRecord
  <2> QED
    BY <1>1, <1>2, <1>3, <1>4, <2>2, ProbeStepTypes
<1>5. CASE card' = [Unmapped(o) EXCEPT ![c] =
             [Unmapped(o)[c] EXCEPT !.pc = "failed", !.enabled = FALSE,
                                    !.regions = FALSE]]
  <2>1. /\ Unmapped(o) \in [Cards -> CardRecord]
        /\ \A d \in Cards : /\ Unmapped(o)[d].pc = card[d].pc
                            /\ Unmapped(o)[d].slot = card[d].slot
    BY UnmappedTypes
  <2>2. /\ [Unmapped(o)[c] EXCEPT !.pc = "failed", !.enabled = FALSE,
                                  !.regions = FALSE] \in CardRecord
        /\ [Unmapped(o)[c] EXCEPT !.pc = "failed", !.enabled = FALSE,
                                  !.regions = FALSE].slot = i
    BY <2>1 DEF CardRecord, Probing
  <2> QED
    BY <1>2, <1>3, <1>5, <2>1, <2>2, ProbeStepTypes
<1> QED
  BY <1>4, <1>5 DEF Publish

LEMMA ProbeFailsTypes ==
  ASSUME TypeInv, NEW c \in Cards, ProbeFails(c)
  PROVE  TypeInv'
<1>1. /\ card \in [Cards -> CardRecord] /\ card[c] \in CardRecord
      /\ heap \in [Objects -> Object]
  BY TypesOf
<1>2. [card[c] EXCEPT !.pc = "unbound", !.slot = NULL, !.drvdata = NULL] \in CardRecord
  BY <1>1 DEF CardRecord, Unbound
<1>3. [card[c] EXCEPT !.pc = "unbound", !.slot = NULL, !.drvdata = NULL].pc
        \notin Probing
  BY <1>1 DEF CardRecord, Probing
<1>4. Free \in Object
  BY DEF Free, Object
<1>5. heap' \in [Objects -> Object]
  BY <1>1, <1>4 DEF ProbeFails
<1>6. oops' \in BOOLEAN
  BY DEF ProbeFails, Live
<1>7. /\ UNCHANGED <<module, class, chrdev, priv, nodes, file, quiet, crossed>>
      /\ card' = [card EXCEPT ![c] =
           [card[c] EXCEPT !.pc = "unbound", !.slot = NULL, !.drvdata = NULL]]
  BY DEF ProbeFails
<1> QED
  BY <1>1, <1>2, <1>3, <1>5, <1>6, <1>7, ProbeStepTypes DEF TypeInv, TypeOK

LEMMA BoardCleanupTypes ==
  ASSUME TypeInv, NEW c \in Cards, BoardCleanup(c)
  PROVE  TypeInv'
<1> DEFINE o == card[c].drvdata
<1>1. /\ UNCHANGED <<module, class, chrdev, priv, heap, file, crossed>>
      /\ quiet' \in BOOLEAN
  BY DEF BoardCleanup, TypeInv, TypeOK
<1>2. CASE ~Live(o)
  <2>1. UNCHANGED <<card, nodes>> /\ oops' = TRUE
    BY <1>2 DEF BoardCleanup
  <2> QED
    BY <1>1, <2>1 DEF TypeInv, TypeOK, Slotted
<1>3. CASE Live(o)
  <2>1. /\ Unmapped(o) \in [Cards -> CardRecord]
        /\ \A d \in Cards : /\ Unmapped(o)[d].pc = card[d].pc
                            /\ Unmapped(o)[d].slot = card[d].slot
    BY UnmappedTypes
  <2>2. /\ [Unmapped(o)[c] EXCEPT !.pc = "removing", !.enabled = FALSE,
                                  !.regions = FALSE] \in CardRecord
        /\ [Unmapped(o)[c] EXCEPT !.pc = "removing", !.enabled = FALSE,
                                  !.regions = FALSE].pc \notin Probing
    BY <2>1 DEF CardRecord, Probing
  <2>3. /\ card' = [Unmapped(o) EXCEPT ![c] =
              [Unmapped(o)[c] EXCEPT !.pc = "removing", !.enabled = FALSE,
                                     !.regions = FALSE]]
        /\ nodes' = nodes \ {heap[o].minor} /\ UNCHANGED oops
    BY <1>3 DEF BoardCleanup
  <2>4. heap' \in [Objects -> Object] /\ nodes' \subseteq Slots /\ oops' \in BOOLEAN
    BY <1>1, <2>3, TypesOf DEF TypeInv, TypeOK, Object
  <2> QED
    BY <1>1, <2>1, <2>2, <2>3, <2>4, ProbeStepTypes
<1> QED
  BY <1>2, <1>3

LEMMA FreePrivTypes ==
  ASSUME TypeInv, NEW c \in Cards, FreePriv(c)
  PROVE  TypeInv'
<1> DEFINE lost == card[c].leaked \/ card[c].maps # {}
<1>1. /\ card \in [Cards -> CardRecord] /\ card[c] \in CardRecord
      /\ heap \in [Objects -> Object]
  BY TypesOf
<1>2. lost \in BOOLEAN /\ {} \in SUBSET Mappings
  BY <1>1 DEF CardRecord
<1>3. /\ UNCHANGED <<module, class, chrdev, priv, nodes, file, quiet, crossed>>
      /\ heap' = [heap EXCEPT ![card[c].drvdata] = Free]
      /\ card' = [card EXCEPT ![c] =
           [card[c] EXCEPT !.pc = "unbound", !.slot = NULL, !.drvdata = NULL,
                           !.maps = {}, !.leaked = lost]]
  BY DEF FreePriv
<1>4. oops' \in BOOLEAN
  BY DEF FreePriv, Live
<1> HIDE DEF lost
<1>5. [card[c] EXCEPT !.pc = "unbound", !.slot = NULL, !.drvdata = NULL,
                      !.maps = {}, !.leaked = lost] \in CardRecord
  BY <1>1, <1>2 DEF CardRecord, Unbound
<1>6. [card[c] EXCEPT !.pc = "unbound", !.slot = NULL, !.drvdata = NULL,
                      !.maps = {}, !.leaked = lost].pc \notin Probing
  BY <1>1 DEF CardRecord, Probing
<1>7. Free \in Object
  BY DEF Free, Object
<1>8. heap' \in [Objects -> Object]
  BY <1>1, <1>3, <1>7
<1> QED
  BY <1>1, <1>3, <1>4, <1>5, <1>6, <1>8, ProbeStepTypes DEF TypeInv, TypeOK

LEMMA LoadTypes ==
  ASSUME TypeInv, Load
  PROVE  TypeInv'
<1>1. CASE RegisterChrdev \/ Rmmod \/ Unregister
  BY <1>1 DEF RegisterChrdev, Rmmod, Unregister, TypeInv, TypeOK, Slotted
<1>2. CASE Insmod /\ UNCHANGED <<card, priv>>
  BY <1>2 DEF Insmod, TypeInv, TypeOK, Slotted
<1>3. CASE /\ Insmod /\ module' = "init" /\ class' = TRUE /\ UNCHANGED quiet
           /\ priv' = [i \in Slots |-> NULL]
           /\ card' = [c \in Cards |-> [card[c] EXCEPT !.pc = "waiting"]]
  <2>1. card \in [Cards -> CardRecord]
    BY DEF TypeInv, TypeOK, CardRecord
  <2>2. ASSUME NEW c \in Cards
        PROVE  card'[c] \in CardRecord /\ card'[c].pc = "waiting"
    <3>1. card[c] \in CardRecord /\ card'[c] = [card[c] EXCEPT !.pc = "waiting"]
      BY <1>3, <2>1
    <3> QED
      BY <3>1 DEF CardRecord
  <2>3. card' \in [Cards -> CardRecord]
    BY <1>3, <2>2
  <2>4. Slotted'
    BY <2>2 DEF Slotted, Probing
  <2>5. priv' \in [Slots -> Objects \union {NULL}]
    BY <1>3
  <2> QED
    BY <1>3, <2>3, <2>4, <2>5 DEF Insmod, TypeInv, TypeOK, CardRecord
<1> QED
  BY <1>1, <1>2, <1>3 DEF Load, Insmod

LEMMA UserTypes ==
  ASSUME TypeInv, NEW f \in Files, User(f)
  PROVE  TypeInv'
<1>1. CASE HostOpen(f)
  BY <1>1 DEF HostOpen, TypeInv, TypeOK, Slotted
<1>2. CASE HostRelease(f)
  BY <1>2 DEF HostRelease, TypeInv, TypeOK, Slotted
<1>3. CASE HostIoctl(f) \/ HostMmap(f)
  <2>1. Usable(file[f]) \in BOOLEAN /\ Live(file[f]) \in BOOLEAN
    BY DEF Usable, Live
  <2> QED
    BY <1>3, <2>1 DEF HostIoctl, HostMmap, TypeInv, TypeOK, Slotted
<1> QED
  BY <1>1, <1>2, <1>3 DEF User

LEMMA TypeInit == Init => TypeInv
<1> SUFFICES ASSUME Init PROVE TypeInv
  OBVIOUS
<1>1. Detached \in CardRecord /\ Detached.pc \notin Probing
  BY DEF Detached, CardRecord, Unbound, Probing
<1>2. Free \in Object
  BY DEF Free, Object
<1> QED
  BY <1>1, <1>2 DEF Init, TypeInv, TypeOK, Slotted, Object, CardRecord

LEMMA TypeStep == TypeInv /\ [Next]_vars => TypeInv'
<1> SUFFICES ASSUME TypeInv, [Next]_vars PROVE TypeInv'
  OBVIOUS
<1>1. CASE UNCHANGED vars
  BY <1>1 DEF vars, TypeInv, TypeOK, Slotted
<1>2. CASE Load
  BY <1>2, LoadTypes
<1>3. ASSUME NEW c \in Cards, Probe(c) PROVE TypeInv'
  BY <1>3, ScanTypes, KmallocTypes, AdoptTypes, BoardInitTypes, PublishTypes,
     ProbeFailsTypes DEF Probe
<1>4. ASSUME NEW c \in Cards, Remove(c) PROVE TypeInv'
  BY <1>4, BoardCleanupTypes, FreePrivTypes DEF Remove
<1>5. ASSUME NEW f \in Files, User(f) PROVE TypeInv'
  BY <1>5, UserTypes
<1> QED
  BY <1>1, <1>2, <1>3, <1>4, <1>5 DEF Next

LEMMA TypeInvariance == Spec => []TypeInv
BY TypeInit, TypeStep, PTL DEF Spec

\* Every reachable state of the driver is well typed, however many probes run
\* at once and cross, and whatever fails; no use of priv[] is out of its
\* bounds, since a probe has a slot from its search on.
THEOREM TypeCorrect == Spec => []TypeOK
<1>1. TypeInv => TypeOK
  BY DEF TypeInv
<1> QED
  BY <1>1, TypeInvariance, PTL

-----------------------------------------------------------------------------
(* What holds of a card at each point of its life, until searches cross.   *)

\* Nothing is held for the device.
Clean(k) == ~k.enabled /\ ~k.regions /\ k.maps = {}

\* The card's object is the one priv[] has at its minor, and is allocated.
Backed(c) ==
  /\ card[c].slot \in Slots /\ card[c].drvdata \in Objects
  /\ priv[card[c].slot] = card[c].drvdata
  /\ heap[card[c].drvdata].live

Reg(c) == heap[card[c].drvdata].reg
Mapped(c) == Reg(c) = c /\ "m_immrbar" \in card[c].maps

CardInv(c) ==
  /\ card[c].pc \in Unbound \union {"waiting"} =>
       Clean(card[c]) /\ card[c].slot = NULL /\ card[c].drvdata = NULL
  /\ card[c].pc \in {"scanned", "filled"} =>
       Clean(card[c]) /\ card[c].drvdata = NULL /\ card[c].slot \in Slots
  /\ card[c].pc = "scanned" => priv[card[c].slot] = NULL
  /\ card[c].pc = "filled" /\ priv[card[c].slot] # NULL =>
       heap[priv[card[c].slot]].live
  /\ card[c].pc \in {"allocated", "failed"} => Clean(card[c]) /\ Backed(c)
  /\ card[c].pc = "allocated" => Reg(c) = NULL
  /\ card[c].pc = "failed" => Reg(c) \in {NULL, c}
  /\ card[c].pc = "mapped" =>
       Backed(c) /\ Reg(c) = c /\ card[c].maps = {"m_immrbar"}
  /\ card[c].pc = "bound" =>
       \/ card[c].slot = NULL /\ card[c].drvdata = NULL
       \/ /\ Backed(c) /\ heap[card[c].drvdata].minor = card[c].slot
          /\ Reg(c) \in {NULL, c}
  /\ card[c].pc = "removing" =>
       /\ Backed(c) /\ Reg(c) \in {NULL, c}
       /\ ~card[c].enabled /\ ~card[c].regions

\* The object a card has, from the return of kmalloc() on.
Held(c) ==
  IF card[c].pc = "filled" THEN priv[card[c].slot] ELSE card[c].drvdata

\* No two cards have a minor or an object in common.
Apart ==
  \A c, d \in Cards : c # d =>
    /\ card[c].slot # NULL => card[c].slot # card[d].slot
    /\ Held(c) # NULL => Held(c) # Held(d)

\* A module that is not loaded, or did not register, has no card.
NoneLoaded ==
  module \in {"out", "husk"} => \A c \in Cards : card[c].pc \in Unbound

\* The card behind a node.
Leads(i, c) == /\ card[c].pc = "bound" /\ card[c].slot = i
               /\ card[c].drvdata \in Objects /\ Mapped(c)

NodesInv == \A i \in nodes : \E c \in Cards : Leads(i, c)

DriverInv == /\ TypeInv
             /\ \A c \in Cards : CardInv(c)
             /\ Apart /\ NoneLoaded /\ NodesInv

-----------------------------------------------------------------------------
(* Steps of the module, and of the files, leave the cards alone.           *)

\* What the invariant says of the cards depends on these variables only.
LEMMA CardsUntouched ==
  ASSUME DriverInv, UNCHANGED <<priv, heap, card, nodes>>,
         module' \in {"out", "husk"} => \A c \in Cards : card[c].pc \in Unbound,
         TypeInv'
  PROVE  DriverInv'
BY DEF DriverInv, CardInv, Clean, Backed, Reg, Mapped, Held, Apart, NoneLoaded,
       NodesInv, Leads

LEMMA LoadPreserves ==
  ASSUME DriverInv, Load
  PROVE  DriverInv'
<1>1. TypeInv'
  BY LoadTypes DEF DriverInv
<1>2. CASE RegisterChrdev \/ Unregister
  BY <1>1, <1>2, CardsUntouched DEF RegisterChrdev, Unregister
<1>3. CASE Rmmod
  BY <1>1, <1>3, CardsUntouched DEF Rmmod, DriverInv, NoneLoaded
<1>4. CASE Insmod /\ UNCHANGED <<card, priv>>
  <2>1. \A c \in Cards : card[c].pc \in Unbound
    BY <1>4 DEF Insmod, DriverInv, NoneLoaded
  <2> QED
    BY <1>1, <1>4, <2>1, CardsUntouched DEF Insmod
<1>5. CASE /\ Insmod /\ module' = "init" /\ class' = TRUE /\ UNCHANGED quiet
           /\ priv' = [i \in Slots |-> NULL]
           /\ card' = [c \in Cards |-> [card[c] EXCEPT !.pc = "waiting"]]
  <2>1. ASSUME NEW c \in Cards
        PROVE  /\ card'[c].pc = "waiting" /\ card'[c].slot = NULL
               /\ card'[c].drvdata = NULL /\ Clean(card'[c])
    <3>1. /\ card[c].slot = NULL /\ card[c].drvdata = NULL /\ Clean(card[c])
      BY <1>5 DEF Insmod, DriverInv, NoneLoaded, CardInv
    <3>2. card[c] \in CardRecord /\ card'[c] = [card[c] EXCEPT !.pc = "waiting"]
      BY <1>5, TypesOf DEF DriverInv
    <3> QED
      BY <3>1, <3>2 DEF CardRecord, Clean
  <2>2. \A c \in Cards : CardInv(c)'
    BY <2>1 DEF CardInv, Unbound
  <2>3. nodes = {}
    BY <1>5 DEF Insmod, DriverInv, NodesInv, Leads, NoneLoaded, Unbound
  <2>4. Apart' /\ NoneLoaded' /\ NodesInv'
    BY <1>5, <2>1, <2>3 DEF Insmod, Apart, Held, NoneLoaded, NodesInv
  <2> QED
    BY <1>1, <2>2, <2>4 DEF DriverInv
<1> QED
  BY <1>2, <1>3, <1>4, <1>5 DEF Load, Insmod

LEMMA UserPreserves ==
  ASSUME DriverInv, NEW f \in Files, User(f)
  PROVE  DriverInv'
<1>1. UNCHANGED <<module, priv, heap, card, nodes>>
  BY DEF User, HostOpen, HostRelease, HostIoctl, HostMmap
<1>2. TypeInv'
  BY UserTypes DEF DriverInv
<1> QED
  BY <1>1, <1>2, CardsUntouched DEF DriverInv, NoneLoaded

-----------------------------------------------------------------------------
(* Steps of the probe and of the removal.                                  *)

LEMMA CardTypes ==
  ASSUME DriverInv, NEW c \in Cards
  PROVE  /\ card \in [Cards -> CardRecord] /\ card[c] \in CardRecord
         /\ priv \in [Slots -> Objects \union {NULL}]
         /\ heap \in [Objects -> Object]
         /\ CardInv(c)
         /\ NULL \notin Objects /\ NULL \notin Slots /\ NULL \notin Cards
BY TypesOf, NullTypes DEF DriverInv

\* Other cards' minors and objects are not this one's, and a card that has a
\* minor and no object is filling its slot.
LEMMA NotShared ==
  ASSUME DriverInv, NEW c \in Cards, NEW d \in Cards \ {c}
  PROVE  /\ card[c].slot # NULL => card[c].slot # card[d].slot
         /\ Held(c) # NULL => Held(c) # Held(d)
         /\ Held(d) \in Objects =>
              /\ heap[Held(d)].live /\ card[d].slot \in Slots
              /\ priv[card[d].slot] = Held(d)
         /\ card[d].slot \in Slots /\ Held(d) \notin Objects => Filling(d)
<1>1. /\ CardInv(d) /\ NULL \notin Objects /\ NULL \notin Slots
      /\ card[d] \in CardRecord /\ priv \in [Slots -> Objects \union {NULL}]
  BY CardTypes
<1>2. /\ card[c].slot # NULL => card[c].slot # card[d].slot
      /\ Held(c) # NULL => Held(c) # Held(d)
  BY DEF DriverInv, Apart
<1>3. card[d].pc \in {"unbound", "busy", "waiting", "scanned", "filled",
                      "allocated", "mapped", "failed", "bound", "removing"}
  BY <1>1 DEF CardRecord, Probing, Unbound
<1>4. CASE card[d].pc = "filled"
  <2>1. Held(d) = priv[card[d].slot] /\ card[d].slot \in Slots
    BY <1>1, <1>4 DEF CardInv, Held
  <2>2. Held(d) \in Objects => heap[Held(d)].live
    BY <1>1, <1>4, <2>1 DEF CardInv
  <2>3. Held(d) \notin Objects => Filling(d)
    BY <1>1, <1>4, <2>1 DEF Filling
  <2> QED
    BY <1>2, <2>1, <2>2, <2>3
<1>5. CASE card[d].pc # "filled"
  <2>1. Held(d) = card[d].drvdata
    BY <1>5 DEF Held
  <2>2. Held(d) \in Objects => Backed(d)
    BY <1>1, <1>3, <1>5, <2>1 DEF CardInv, Unbound
  <2>3. card[d].slot \in Slots /\ Held(d) \notin Objects => Filling(d)
    BY <1>1, <1>3, <1>5, <2>1 DEF CardInv, Unbound, Backed, Filling
  <2> QED
    BY <1>2, <2>1, <2>2, <2>3 DEF Backed
<1> QED
  BY <1>4, <1>5

\* A step leaves the other cards, and their objects, alone.
Alone(c) ==
  \A d \in Cards \ {c} :
    /\ card'[d] = card[d]
    /\ Held(d) \in Objects => heap'[Held(d)] = heap[Held(d)]

\* A step of one card keeps the invariant when it keeps the card's own part
\* of it, takes a minor and an object that are no other card's, and changes
\* priv[] and the heap there only.
LEMMA OneCard ==
  ASSUME DriverInv, NEW c \in Cards, TypeInv', CardInv(c)', module' = module,
         Alone(c),
         \A d \in Cards \ {c} :
           /\ card[d].slot \in Slots => priv'[card[d].slot] = priv[card[d].slot]
           /\ card'[c].slot # NULL => card'[c].slot # card[d].slot
           /\ Held(c)' # NULL => Held(c)' # Held(d),
         module \in {"out", "husk"} => card'[c].pc \in Unbound,
         \A i \in nodes' : (i \in nodes /\ ~Leads(i, c)) \/ Leads(i, c)'
  PROVE  DriverInv'
<1>1. ASSUME NEW d \in Cards \ {c}
      PROVE  /\ CardInv(d)' /\ Held(d)' = Held(d)
             /\ card[d].drvdata \in Objects =>
                  heap'[card[d].drvdata] = heap[card[d].drvdata]
  <2>1. /\ CardInv(d) /\ NULL \notin Objects /\ card[d] \in CardRecord
        /\ priv \in [Slots -> Objects \union {NULL}]
    BY CardTypes
  <2>2. /\ card'[d] = card[d]
        /\ card[d].slot \in Slots => priv'[card[d].slot] = priv[card[d].slot]
        /\ Held(d) \in Objects => heap'[Held(d)] = heap[Held(d)]
    BY DEF Alone
  <2>3. CASE card[d].pc = "filled"
    <3>1. Held(d) = priv[card[d].slot] /\ card[d].slot \in Slots
      BY <2>1, <2>3 DEF Held, CardInv
    <3>2. card[d].drvdata = NULL
      BY <2>1, <2>3 DEF CardInv
    <3>3. priv[card[d].slot] # NULL => priv[card[d].slot] \in Objects
      BY <2>1, <3>1
    <3> QED
      BY <2>1, <2>2, <2>3, <3>1, <3>2, <3>3 DEF CardInv, Held, Unbound
  <2>4. CASE card[d].pc # "filled"
    <3>1. Held(d) = card[d].drvdata
      BY <2>4 DEF Held
    <3>2. card[d].drvdata \in Objects =>
            heap'[card[d].drvdata] = heap[card[d].drvdata]
      BY <2>2, <3>1
    <3>3. CardInv(d)'
      BY <2>1, <2>2, <2>4, <3>2 DEF CardInv, Backed, Reg
    <3> QED
      BY <2>2, <2>4, <3>2, <3>3 DEF Held
  <2> QED
    BY <2>3, <2>4
<1>2. \A d \in Cards : CardInv(d)'
  BY <1>1
<1>3. Apart'
  <2> SUFFICES ASSUME NEW a \in Cards, NEW b \in Cards, a # b
               PROVE  /\ card'[a].slot # NULL => card'[a].slot # card'[b].slot
                      /\ Held(a)' # NULL => Held(a)' # Held(b)'
    BY DEF Apart
  <2>1. CASE a = c \/ b = c
    BY <1>1, <2>1 DEF Alone
  <2>2. CASE a # c /\ b # c
    BY <1>1, <2>2 DEF DriverInv, Apart, Alone
  <2> QED
    BY <2>1, <2>2
<1>4. NoneLoaded'
  BY DEF DriverInv, NoneLoaded, Alone
<1>5. NodesInv'
  <2> SUFFICES ASSUME NEW i \in nodes' PROVE \E d \in Cards : Leads(i, d)'
    BY DEF NodesInv
  <2>1. CASE Leads(i, c)'
    BY <2>1
  <2>2. CASE i \in nodes /\ ~Leads(i, c)
    <3>1. PICK d \in Cards : Leads(i, d)
      BY <2>2 DEF DriverInv, NodesInv
    <3>2. d # c
      BY <2>2, <3>1
    <3>3. Leads(i, d)'
      BY <1>1, <3>1, <3>2 DEF Leads, Mapped, Reg, Alone
    <3> QED
      BY <3>3
  <2> QED
    BY <2>1, <2>2
<1> QED
  BY <1>2, <1>3, <1>4, <1>5 DEF DriverInv

\* A step that changes what is held for the card, at most its own object, and
\* neither its minor nor priv[].
LEMMA OwnObject ==
  ASSUME DriverInv, NEW c \in Cards, TypeInv', CardInv(c)',
         UNCHANGED <<module, priv>>, module \notin {"out", "husk"},
         \A d \in Cards \ {c} : card'[d] = card[d],
         \A o \in Objects \ {Held(c)} : heap'[o] = heap[o],
         Held(c) # NULL,
         card'[c].slot \in {card[c].slot, NULL},
         Held(c)' \in {Held(c), NULL},
         \A i \in nodes' : (i \in nodes /\ ~Leads(i, c)) \/ Leads(i, c)'
  PROVE  DriverInv' /\ Alone(c)
<1>1. \A d \in Cards \ {c} :
        /\ Held(d) # Held(c)
        /\ card'[c].slot # NULL => card'[c].slot # card[d].slot
        /\ Held(c)' # NULL => Held(c)' # Held(d)
  BY NotShared
<1>2. Alone(c)
  BY <1>1 DEF Alone
<1> QED
  BY <1>1, <1>2, OneCard

\* The object and the minor of a card between its allocation and its end.
LEMMA BackedTypes ==
  ASSUME DriverInv, NEW c \in Cards, Backed(c), card[c].pc # "filled"
  PROVE  /\ card \in [Cards -> CardRecord] /\ card[c] \in CardRecord
         /\ heap \in [Objects -> Object]
         /\ card[c].drvdata \in Objects /\ card[c].drvdata # NULL
         /\ card[c].slot \in Slots /\ card[c].slot # NULL
         /\ priv[card[c].slot] = card[c].drvdata
         /\ heap[card[c].drvdata].live /\ Live(card[c].drvdata)
         /\ Held(c) = card[c].drvdata
BY CardTypes DEF Backed, Live, Held

\* iounmap() undoes the card's own mapping, or none.
LEMMA UnmappedOwn ==
  ASSUME DriverInv, NEW c \in Cards, Backed(c), Reg(c) \in {NULL, c}
  PROVE  LET u == Unmapped(card[c].drvdata) IN
           /\ u \in [Cards -> CardRecord] /\ u[c] \in CardRecord
           /\ u[c].pc = card[c].pc /\ u[c].slot = card[c].slot
           /\ u[c].drvdata = card[c].drvdata
           /\ u[c].maps \subseteq card[c].maps
           /\ Reg(c) = c => u[c].maps = card[c].maps \ {"m_immrbar"}
           /\ Reg(c) = NULL => u[c] = card[c]
           /\ \A d \in Cards \ {c} : u[d] = card[d]
<1> DEFINE u == Unmapped(card[c].drvdata)
<1>1. /\ u \in [Cards -> CardRecord]
      /\ \A d \in Cards :
           /\ u[d].pc = card[d].pc /\ u[d].slot = card[d].slot
           /\ u[d].drvdata = card[d].drvdata
           /\ d = Reg(c) => u[d].maps = card[d].maps \ {"m_immrbar"}
           /\ d # Reg(c) => u[d] = card[d]
  BY UnmappedTypes DEF DriverInv, Reg
<1>2. NULL \notin Cards
  BY NullTypes
<1> HIDE DEF u
<1> QED
  BY <1>1, <1>2 DEF u

\* A card that searches when no other one is filling its slot takes a slot
\* that is no other card's.
LEMMA ScanPreserves ==
  ASSUME DriverInv, ~oops, NEW c \in Cards, Scan(c), ~crossed'
  PROVE  DriverInv' /\ Alone(c) /\ ~oops'
<1>1. /\ card \in [Cards -> CardRecord] /\ card[c] \in CardRecord
      /\ CardInv(c) /\ NULL \notin Slots
  BY CardTypes
<1>2. /\ card[c].pc \in Unbound \union {"waiting"}
      /\ \A d \in Cards \ {c} : ~Filling(d)
      /\ module = "live" \/ card[c].pc = "waiting"
      /\ UNCHANGED <<module, class, chrdev, priv, heap, nodes, file, oops, quiet>>
  BY DEF Scan, MayProbe, Scanning
<1>3. TypeInv' /\ module \notin {"out", "husk"}
  BY <1>2, ScanTypes DEF DriverInv, NoneLoaded, Unbound
<1>4. /\ Clean(card[c]) /\ card[c].slot = NULL /\ card[c].drvdata = NULL
  BY <1>1, <1>2 DEF CardInv
<1>5. Alone(c)
  BY <1>1, <1>2 DEF Scan, Alone
<1>6. \A j : ~Leads(j, c)
  BY <1>2 DEF Leads, Unbound
<1>7. CASE FreeSlots = {}
  <2>1. card' = [card EXCEPT ![c] = [card[c] EXCEPT !.pc = "busy"]]
    BY <1>7 DEF Scan
  <2>2. /\ card'[c].pc = "busy" /\ card'[c].slot = NULL
        /\ card'[c].drvdata = NULL /\ Clean(card'[c])
    BY <1>1, <1>4, <2>1 DEF CardRecord, Clean
  <2>3. CardInv(c)' /\ Held(c)' = NULL
    BY <2>2 DEF CardInv, Held, Unbound
  <2> QED
    BY <1>2, <1>3, <1>5, <1>6, <2>2, <2>3, OneCard
<1>8. CASE FreeSlots # {}
  <2> DEFINE i == First(FreeSlots)
  <2>1. i \in Slots /\ priv[i] = NULL
    BY <1>8, FirstFree
  <2>2. card' = [card EXCEPT ![c] =
                   [card[c] EXCEPT !.pc = "scanned", !.slot = i]]
    BY <1>8 DEF Scan
  <2> HIDE DEF i
  <2>3. /\ card'[c].pc = "scanned" /\ card'[c].slot = i
        /\ card'[c].drvdata = NULL /\ Clean(card'[c])
    BY <1>1, <1>4, <2>2 DEF CardRecord, Clean
  <2>4. CardInv(c)' /\ Held(c)' = NULL
    BY <1>2, <2>1, <2>3 DEF CardInv, Held, Unbound
  <2>5. \A d \in Cards \ {c} : card[d].slot # i
    BY <1>2, <2>1, NotShared, CardTypes
  <2> QED
    BY <1>2, <1>3, <1>5, <1>6, <2>3, <2>4, <2>5, OneCard
<1> QED
  BY <1>7, <1>8

LEMMA KmallocPreserves ==
  ASSUME DriverInv, ~oops, NEW c \in Cards, Kmalloc(c)
  PROVE  DriverInv' /\ Alone(c) /\ ~oops'
<1> DEFINE i == card[c].slot
<1>1. /\ card \in [Cards -> CardRecord] /\ card[c] \in CardRecord
      /\ priv \in [Slots -> Objects \union {NULL}] /\ heap \in [Objects -> Object]
      /\ CardInv(c) /\ NULL \notin Slots /\ NULL \notin Objects
  BY CardTypes
<1>2. /\ card[c].pc = "scanned"
      /\ card' = [card EXCEPT ![c] = [card[c] EXCEPT !.pc = "filled"]]
      /\ UNCHANGED <<module, class, chrdev, nodes, file, oops, crossed>>
  BY <1>1 DEF Kmalloc
<1>3. /\ Clean(card[c]) /\ card[c].drvdata = NULL /\ i \in Slots /\ i # NULL
  BY <1>1, <1>2 DEF CardInv
<1>4. TypeInv' /\ module \notin {"out", "husk"} /\ \A j : ~Leads(j, c)
  BY <1>2, KmallocTypes DEF DriverInv, NoneLoaded, Unbound, Leads
<1>5. /\ card'[c].pc = "filled" /\ card'[c].slot = i
      /\ card'[c].drvdata = NULL /\ Clean(card'[c])
      /\ \A d \in Cards \ {c} : card'[d] = card[d]
  BY <1>1, <1>2, <1>3 DEF CardRecord, Clean
<1>6. \A d \in Cards \ {c} : card[d].slot # i
  BY <1>3, NotShared
<1>7. ASSUME NEW o \in Objects, ~heap[o].live, heap' = [heap EXCEPT ![o] = Fresh],
             priv' = [priv EXCEPT ![i] = o]
      PROVE  DriverInv' /\ Alone(c) /\ ~oops'
  <2>1. priv'[i] = o /\ heap'[o].live
    BY <1>1, <1>3, <1>7 DEF Fresh, Free
  <2>2. \A d \in Cards \ {c} : Held(d) # o
    BY <1>7, NotShared
  <2>3. Alone(c)
    BY <1>1, <1>5, <1>7, <2>2 DEF Alone
  <2>4. CardInv(c)' /\ Held(c)' = o
    BY <1>3, <1>5, <2>1 DEF CardInv, Held, Unbound
  <2>5. \A d \in Cards \ {c} : card[d].slot \in Slots =>
          priv'[card[d].slot] = priv[card[d].slot]
    BY <1>1, <1>6, <1>7
  <2> QED
    BY <1>2, <1>4, <1>5, <1>6, <2>2, <2>3, <2>4, <2>5, OneCard
<1>8. ASSUME priv' = [priv EXCEPT ![i] = NULL], heap' = heap
      PROVE  DriverInv' /\ Alone(c) /\ ~oops'
  <2>1. priv'[i] = NULL
    BY <1>1, <1>3, <1>8
  <2>2. Alone(c)
    BY <1>5, <1>8 DEF Alone
  <2>3. CardInv(c)' /\ Held(c)' = NULL
    BY <1>3, <1>5, <2>1 DEF CardInv, Held, Unbound
  <2>4. \A d \in Cards \ {c} : card[d].slot \in Slots =>
          priv'[card[d].slot] = priv[card[d].slot]
    BY <1>1, <1>6, <1>8
  <2> QED
    BY <1>2, <1>4, <1>5, <1>6, <2>2, <2>3, <2>4, OneCard
<1> QED
  BY <1>7, <1>8 DEF Kmalloc

LEMMA AdoptPreserves ==
  ASSUME DriverInv, ~oops, NEW c \in Cards, Adopt(c)
  PROVE  DriverInv' /\ Alone(c) /\ ~oops'
<1> DEFINE i == card[c].slot
           o == priv[i]
<1>1. /\ card \in [Cards -> CardRecord] /\ card[c] \in CardRecord
      /\ priv \in [Slots -> Objects \union {NULL}] /\ heap \in [Objects -> Object]
      /\ CardInv(c) /\ NULL \notin Slots /\ NULL \notin Objects
  BY CardTypes
<1>2. /\ card[c].pc = "filled"
      /\ UNCHANGED <<module, class, chrdev, priv, nodes, file, quiet, crossed>>
  BY DEF Adopt
<1>3. /\ Clean(card[c]) /\ card[c].drvdata = NULL /\ i \in Slots /\ i # NULL
      /\ o # NULL => o \in Objects /\ heap[o].live /\ Live(o)
      /\ Held(c) = o
  BY <1>1, <1>2 DEF CardInv, Held, Live
<1>4. TypeInv' /\ module \notin {"out", "husk"} /\ \A j : ~Leads(j, c)
  BY <1>2, AdoptTypes DEF DriverInv, NoneLoaded, Unbound, Leads
<1>5. CASE o = NULL
  <2>1. /\ card' = [card EXCEPT ![c] = [card[c] EXCEPT !.pc = "bound", !.slot = NULL]]
        /\ UNCHANGED <<heap, oops>>
    BY <1>1, <1>5 DEF Adopt
  <2>2. /\ card'[c].pc = "bound" /\ card'[c].slot = NULL
        /\ card'[c].drvdata = NULL
    BY <1>1, <1>3, <2>1 DEF CardRecord
  <2>3. CardInv(c)' /\ Held(c)' = NULL
    BY <2>2 DEF CardInv, Held, Unbound
  <2>4. Alone(c)
    BY <1>1, <2>1 DEF Alone
  <2> QED
    BY <1>2, <1>4, <2>1, <2>2, <2>3, <2>4, OneCard
<1>6. CASE o # NULL
  <2>1. /\ card' = [card EXCEPT ![c] =
             [card[c] EXCEPT !.pc = "allocated", !.drvdata = o]]
        /\ heap' = [heap EXCEPT ![o].reg = NULL, ![o].minor = 0]
        /\ oops' = FALSE
    BY <1>1, <1>3, <1>6 DEF Adopt
  <2>2. o \in Objects /\ heap[o] \in Object /\ heap[o].live
    BY <1>1, <1>3, <1>6
  <2>3. /\ heap'[o].live /\ heap'[o].reg = NULL
        /\ \A p \in Objects \ {o} : heap'[p] = heap[p]
    BY <1>1, <2>1, <2>2 DEF Object
  <2> HIDE DEF o
  <2>4. /\ card'[c].pc = "allocated" /\ card'[c].slot = i
        /\ card'[c].drvdata = o /\ Clean(card'[c])
        /\ \A d \in Cards \ {c} : card'[d] = card[d]
    BY <1>1, <1>3, <2>1 DEF CardRecord, Clean
  <2>5. CardInv(c)' /\ Held(c)' = o
    BY <1>2, <1>3, <2>2, <2>3, <2>4 DEF CardInv, Backed, Reg, Held, Unbound, o
  <2> QED
    BY <1>2, <1>3, <1>4, <1>6, <2>1, <2>3, <2>4, <2>5, OwnObject
<1> QED
  BY <1>5, <1>6

LEMMA BoardInitPreserves ==
  ASSUME DriverInv, ~oops, NEW c \in Cards, BoardInit(c)
  PROVE  DriverInv' /\ Alone(c) /\ ~oops'
<1> DEFINE o == card[c].drvdata
           i == card[c].slot
           more == card[c].maps \union {"m_immrbar"}
           u == Unmapped(o)
<1>1. /\ card[c].pc = "allocated"
      /\ UNCHANGED <<module, class, chrdev, priv, nodes, file, crossed>>
  BY DEF BoardInit
<1>2. Backed(c) /\ Clean(card[c]) /\ Reg(c) = NULL
  BY <1>1, CardTypes DEF CardInv
<1>3. /\ card \in [Cards -> CardRecord] /\ card[c] \in CardRecord
      /\ heap \in [Objects -> Object]
      /\ o \in Objects /\ o # NULL /\ i \in Slots /\ i # NULL
      /\ priv[i] = o /\ heap[o].live /\ Live(o) /\ Held(c) = o
  BY <1>1, <1>2, BackedTypes
<1>4. TypeInv' /\ module \notin {"out", "husk"} /\ \A j : ~Leads(j, c)
  BY <1>1, BoardInitTypes DEF DriverInv, NoneLoaded, Unbound, Leads
<1>5. ~oops'
  BY <1>3 DEF BoardInit
<1>6. CASE /\ card' = [card EXCEPT ![c] =
                [card[c] EXCEPT !.pc = "mapped", !.enabled = TRUE,
                                !.regions = TRUE, !.maps = more]]
           /\ heap' = [heap EXCEPT ![o].reg = c]
  <2>1. more = {"m_immrbar"}
    BY <1>2 DEF Clean
  <2> HIDE DEF more
  <2>2. /\ card'[c].pc = "mapped" /\ card'[c].slot = i /\ card'[c].drvdata = o
        /\ card'[c].maps = {"m_immrbar"}
        /\ \A d \in Cards \ {c} : card'[d] = card[d]
    BY <1>3, <1>6, <2>1 DEF CardRecord
  <2>3. /\ heap'[o].live /\ heap'[o].reg = c
        /\ \A p \in Objects \ {o} : heap'[p] = heap[p]
    BY <1>3, <1>6 DEF Object
  <2>4. CardInv(c)' /\ Held(c)' = o
    BY <1>1, <1>3, <2>2, <2>3 DEF CardInv, Backed, Reg, Held, Unbound
  <2> QED
    BY <1>1, <1>3, <1>4, <1>5, <2>2, <2>3, <2>4, OwnObject
<1>7. CASE /\ \/ card' = [card EXCEPT ![c].pc = "failed"]
              \/ card' = [u EXCEPT ![c].pc = "failed"]
           /\ heap' = heap
  <2>1. u = card
    BY <1>2, <1>3, UnmappedOwn
  <2>2. card' = [card EXCEPT ![c] = [card[c] EXCEPT !.pc = "failed"]]
    BY <1>7, <2>1
  <2>3. /\ card'[c].pc = "failed" /\ card'[c].slot = i /\ card'[c].drvdata = o
        /\ Clean(card'[c]) /\ \A d \in Cards \ {c} : card'[d] = card[d]
    BY <1>2, <1>3, <2>2 DEF CardRecord, Clean
  <2>4. CardInv(c)' /\ Held(c)' = o
    BY <1>1, <1>2, <1>3, <1>7, <2>3 DEF CardInv, Backed, Reg, Held, Unbound
  <2> QED
    BY <1>1, <1>3, <1>4, <1>5, <1>7, <2>3, <2>4, OwnObject
<1>8. CASE /\ card' = [card EXCEPT ![c].pc = "bound"]
           /\ heap' = WithMinor({priv[i]}, i)
  <2>1. /\ card'[c].pc = "bound" /\ card'[c].slot = i /\ card'[c].drvdata = o
        /\ \A d \in Cards \ {c} : card'[d] = card[d]
    BY <1>3, <1>8 DEF CardRecord
  <2>2. /\ heap'[o] = [heap[o] EXCEPT !.minor = i]
        /\ \A p \in Objects \ {o} : heap'[p] = heap[p]
    BY <1>3, <1>8 DEF WithMinor
  <2>3. /\ heap'[o].live /\ heap'[o].minor = i /\ heap'[o].reg = NULL
    BY <1>2, <1>3, <2>2 DEF Reg, Object
  <2>4. CardInv(c)' /\ Held(c)' = o
    BY <1>1, <1>3, <2>1, <2>3 DEF CardInv, Backed, Reg, Held, Unbound
  <2> QED
    BY <1>1, <1>3, <1>4, <1>5, <2>1, <2>2, <2>4, OwnObject
<1> QED
  BY <1>6, <1>7, <1>8 DEF BoardInit

LEMMA PublishPreserves ==
  ASSUME DriverInv, ~oops, NEW c \in Cards, Publish(c)
  PROVE  DriverInv' /\ Alone(c) /\ ~oops'
<1> DEFINE o == card[c].drvdata
           i == card[c].slot
           more == card[c].maps \union {"shm_mem"}
           u == Unmapped(o)
<1>1. /\ card[c].pc = "mapped"
      /\ UNCHANGED <<module, class, chrdev, priv, file, crossed>>
  BY DEF Publish
<1>2. Backed(c) /\ Reg(c) = c /\ card[c].maps = {"m_immrbar"}
  BY <1>1, CardTypes DEF CardInv
<1>3. /\ card \in [Cards -> CardRecord] /\ card[c] \in CardRecord
      /\ heap \in [Objects -> Object]
      /\ o \in Objects /\ o # NULL /\ i \in Slots /\ i # NULL
      /\ priv[i] = o /\ heap[o].live /\ Live(o) /\ Held(c) = o
  BY <1>1, <1>2, BackedTypes
<1>4. TypeInv' /\ module \notin {"out", "husk"} /\ \A j : ~Leads(j, c)
  BY <1>1, PublishTypes DEF DriverInv, NoneLoaded, Unbound, Leads
<1>5. ~oops'
  BY <1>3 DEF Publish
<1>6. CASE /\ card' = [card EXCEPT ![c] =
                [card[c] EXCEPT !.pc = "bound", !.maps = more]]
           /\ heap' = WithMinor({o, priv[i]}, i)
           /\ nodes' \in {nodes, nodes \union {i}}
  <2>1. "m_immrbar" \in more
    BY <1>2
  <2> HIDE DEF more
  <2>2. /\ card'[c].pc = "bound" /\ card'[c].slot = i /\ card'[c].drvdata = o
        /\ "m_immrbar" \in card'[c].maps
        /\ \A d \in Cards \ {c} : card'[d] = card[d]
    BY <1>3, <1>6, <2>1 DEF CardRecord
  <2>3. /\ heap'[o] = [heap[o] EXCEPT !.minor = i]
        /\ \A p \in Objects \ {o} : heap'[p] = heap[p]
    BY <1>3, <1>6 DEF WithMinor
  <2>4. /\ heap'[o].live /\ heap'[o].minor = i /\ heap'[o].reg = c
    BY <1>2, <1>3, <2>3 DEF Reg, Object
  <2>5. CardInv(c)' /\ Held(c)' = o /\ Leads(i, c)'
    BY <1>1, <1>3, <2>2, <2>4 DEF CardInv, Backed, Reg, Mapped, Held, Leads, Unbound
  <2> QED
    BY <1>1, <1>3, <1>4, <1>5, <1>6, <2>2, <2>3, <2>5, OwnObject
<1>7. CASE /\ card' = [u EXCEPT ![c] =
                [u[c] EXCEPT !.pc = "failed", !.enabled = FALSE,
                             !.regions = FALSE]]
           /\ UNCHANGED <<heap, nodes>>
  <2>1. /\ u \in [Cards -> CardRecord] /\ u[c] \in CardRecord
        /\ u[c].slot = i /\ u[c].drvdata = o /\ u[c].maps = {}
        /\ \A d \in Cards \ {c} : u[d] = card[d]
    BY <1>2, UnmappedOwn
  <2> HIDE DEF u
  <2>2. /\ card'[c].pc = "failed" /\ card'[c].slot = i /\ card'[c].drvdata = o
        /\ Clean(card'[c]) /\ \A d \in Cards \ {c} : card'[d] = card[d]
    BY <1>7, <2>1 DEF CardRecord, Clean
  <2>3. CardInv(c)' /\ Held(c)' = o
    BY <1>1, <1>2, <1>3, <1>7, <2>2 DEF CardInv, Backed, Reg, Held, Unbound
  <2> QED
    BY <1>1, <1>3, <1>4, <1>5, <1>7, <2>2, <2>3, OwnObject
<1> QED
  BY <1>6, <1>7 DEF Publish, MakeNode

\* What kfree() leaves of a card: nothing but the address in priv[].
LEMMA FreedPreserves ==
  ASSUME DriverInv, NEW c \in Cards, Backed(c), card[c].pc \notin {"bound", "filled"},
         TypeInv', UNCHANGED <<module, priv, nodes>>,
         \A p \in Objects \ {card[c].drvdata} : heap'[p] = heap[p],
         \A d \in Cards \ {c} : card'[d] = card[d],
         card'[c].pc = "unbound", card'[c].slot = NULL, card'[c].drvdata = NULL,
         Clean(card'[c]), module \notin {"out", "husk"}
  PROVE  DriverInv' /\ Alone(c)
<1>1. Held(c) = card[c].drvdata /\ Held(c) # NULL
  BY BackedTypes
<1>2. CardInv(c)' /\ Held(c)' = NULL
  BY DEF CardInv, Held
<1>3. \A j : ~Leads(j, c)
  BY DEF Leads
<1> QED
  BY <1>1, <1>2, <1>3, OwnObject

LEMMA ProbeFailsPreserves ==
  ASSUME DriverInv, ~oops, NEW c \in Cards, ProbeFails(c)
  PROVE  DriverInv' /\ Alone(c) /\ ~oops'
<1>1. /\ card[c].pc = "failed"
      /\ UNCHANGED <<module, class, chrdev, priv, nodes, file, quiet, crossed>>
      /\ card' = [card EXCEPT ![c] =
           [card[c] EXCEPT !.pc = "unbound", !.slot = NULL, !.drvdata = NULL]]
  BY DEF ProbeFails
<1>2. Backed(c) /\ Clean(card[c])
  BY <1>1, CardTypes DEF CardInv
<1>3. /\ card \in [Cards -> CardRecord] /\ card[c] \in CardRecord
      /\ heap \in [Objects -> Object]
      /\ priv[card[c].slot] = card[c].drvdata /\ Live(card[c].drvdata)
  BY <1>1, <1>2, BackedTypes
<1>4. TypeInv' /\ module \notin {"out", "husk"}
  BY <1>1, ProbeFailsTypes DEF DriverInv, NoneLoaded, Unbound
<1>5. /\ card'[c].pc = "unbound" /\ card'[c].slot = NULL
      /\ card'[c].drvdata = NULL /\ Clean(card'[c])
      /\ \A d \in Cards \ {c} : card'[d] = card[d]
  BY <1>1, <1>2, <1>3 DEF CardRecord, Clean
<1>6. ~oops' /\ \A p \in Objects \ {card[c].drvdata} : heap'[p] = heap[p]
  BY <1>3 DEF ProbeFails
<1> QED
  BY <1>1, <1>2, <1>4, <1>5, <1>6, FreedPreserves

LEMMA FreePrivPreserves ==
  ASSUME DriverInv, ~oops, NEW c \in Cards, FreePriv(c)
  PROVE  DriverInv' /\ Alone(c) /\ ~oops'
<1> DEFINE lost == card[c].leaked \/ card[c].maps # {}
<1>1. /\ card[c].pc = "removing"
      /\ UNCHANGED <<module, class, chrdev, priv, nodes, file, quiet, crossed>>
      /\ heap' = [heap EXCEPT ![card[c].drvdata] = Free]
      /\ card' = [card EXCEPT ![c] =
           [card[c] EXCEPT !.pc = "unbound", !.slot = NULL, !.drvdata = NULL,
                           !.maps = {}, !.leaked = lost]]
  BY DEF FreePriv
<1> HIDE DEF lost
<1>2. Backed(c) /\ ~card[c].enabled /\ ~card[c].regions
  BY <1>1, CardTypes DEF CardInv
<1>3. /\ card \in [Cards -> CardRecord] /\ card[c] \in CardRecord
      /\ heap \in [Objects -> Object] /\ Live(card[c].drvdata)
  BY <1>1, <1>2, BackedTypes
<1>4. TypeInv' /\ module \notin {"out", "husk"}
  BY <1>1, FreePrivTypes DEF DriverInv, NoneLoaded, Unbound
<1>5. /\ card'[c].pc = "unbound" /\ card'[c].slot = NULL
      /\ card'[c].drvdata = NULL /\ Clean(card'[c])
      /\ \A d \in Cards \ {c} : card'[d] = card[d]
  BY <1>1, <1>2, <1>3 DEF CardRecord, Clean
<1>6. ~oops' /\ \A p \in Objects \ {card[c].drvdata} : heap'[p] = heap[p]
  BY <1>1, <1>3 DEF FreePriv
<1> QED
  BY <1>1, <1>2, <1>4, <1>5, <1>6, FreedPreserves

\* A card that is bound without an object is the end of the driver.
LEMMA BoardCleanupPreserves ==
  ASSUME DriverInv, ~oops, NEW c \in Cards, BoardCleanup(c)
  PROVE  DriverInv' /\ (card[c].drvdata # NULL => Alone(c) /\ ~oops')
<1> DEFINE o == card[c].drvdata
           i == card[c].slot
           u == Unmapped(o)
<1>1. /\ card[c].pc = "bound" /\ MayRemove
      /\ UNCHANGED <<module, class, chrdev, priv, heap, file, crossed>>
  BY DEF BoardCleanup
<1>2. TypeInv' /\ module \notin {"out", "husk"}
  BY <1>1, BoardCleanupTypes DEF DriverInv, MayRemove
<1>3. CASE o = NULL
  <2>1. UNCHANGED <<card, nodes>>
    BY <1>3 DEF BoardCleanup, Live
  <2> QED
    BY <1>1, <1>2, <1>3, <2>1, CardsUntouched
<1>4. CASE o # NULL
  <2>1. Backed(c) /\ heap[o].minor = i /\ Reg(c) \in {NULL, c}
    BY <1>1, <1>4, CardTypes DEF CardInv
  <2>2. o \in Objects /\ i \in Slots /\ priv[i] = o /\ heap[o].live /\ Live(o)
        /\ Held(c) = o
    BY <1>1, <2>1, BackedTypes
  <2>3. /\ nodes' = nodes \ {i} /\ ~oops'
        /\ card' = [u EXCEPT ![c] =
             [u[c] EXCEPT !.pc = "removing", !.enabled = FALSE,
                          !.regions = FALSE]]
    BY <2>1, <2>2 DEF BoardCleanup
  <2>4. /\ u \in [Cards -> CardRecord] /\ u[c] \in CardRecord
        /\ u[c].slot = i /\ u[c].drvdata = o
        /\ \A d \in Cards \ {c} : u[d] = card[d]
    BY <2>1, UnmappedOwn
  <2> HIDE DEF u
  <2>5. /\ card'[c].pc = "removing" /\ card'[c].slot = i /\ card'[c].drvdata = o
        /\ ~card'[c].enabled /\ ~card'[c].regions
        /\ \A d \in Cards \ {c} : card'[d] = card[d]
    BY <2>3, <2>4 DEF CardRecord
  <2>6. CardInv(c)' /\ Held(c)' = o
    BY <1>1, <2>1, <2>2, <2>5 DEF CardInv, Backed, Reg, Held, Unbound
  <2>7. \A j \in nodes' : j \in nodes /\ ~Leads(j, c)
    BY <2>3 DEF Leads
  <2> QED
    BY <1>1, <1>2, <1>4, <2>2, <2>3, <2>5, <2>6, <2>7, OwnObject
<1> QED
  BY <1>3, <1>4

LEMMA DriverInit == Init => DriverInv
<1> SUFFICES ASSUME Init PROVE DriverInv
  OBVIOUS
<1>1. TypeInv
  BY TypeInit
<1>2. /\ \A c \in Cards : CardInv(c)
      /\ Apart /\ NoneLoaded /\ NodesInv
  BY DEF Init, CardInv, Clean, Detached, Apart, Held, NoneLoaded, NodesInv, Unbound
<1> QED
  BY <1>1, <1>2 DEF DriverInv

\* Once two searches have crossed, they have.
LEMMA CrossedStays ==
  ASSUME crossed, [Next]_vars
  PROVE  crossed'
<1>1. CASE UNCHANGED vars
  BY <1>1 DEF vars
<1>2. CASE Load
  BY <1>2 DEF Load, Insmod, RegisterChrdev, Rmmod, Unregister
<1>3. ASSUME NEW c \in Cards, Probe(c) \/ Remove(c) PROVE crossed'
  BY <1>3 DEF Probe, Scan, Scanning, Kmalloc, Adopt, BoardInit, Publish,
              ProbeFails, Remove, BoardCleanup, FreePriv
<1>4. ASSUME NEW f \in Files, User(f) PROVE crossed'
  BY <1>4 DEF User, HostOpen, HostRelease, HostIoctl, HostMmap
<1> QED
  BY <1>1, <1>2, <1>3, <1>4 DEF Next

LEMMA DriverStep ==
  ASSUME DriverInv, [Next]_vars, ~crossed'
  PROVE  DriverInv'
<1>1. CASE UNCHANGED vars
  <2>1. TypeInv'
    BY <1>1, TypeStep DEF DriverInv
  <2> QED
    BY <1>1, <2>1, CardsUntouched DEF vars, DriverInv, NoneLoaded
<1>2. CASE Next
  <2>1. ~oops
    BY <1>2 DEF Next
  <2>2. CASE Load
    BY <2>2, LoadPreserves
  <2>3. ASSUME NEW c \in Cards, Probe(c) PROVE DriverInv'
    BY <2>1, <2>3, ScanPreserves, KmallocPreserves, AdoptPreserves,
       BoardInitPreserves, PublishPreserves, ProbeFailsPreserves DEF Probe
  <2>4. ASSUME NEW c \in Cards, Remove(c) PROVE DriverInv'
    BY <2>1, <2>4, BoardCleanupPreserves, FreePrivPreserves DEF Remove
  <2>5. ASSUME NEW f \in Files, User(f) PROVE DriverInv'
    BY <2>5, UserPreserves
  <2> QED
    BY <1>2, <2>2, <2>3, <2>4, <2>5 DEF Next
<1> QED
  BY <1>1, <1>2

\* The invariant of the driver, until two searches cross.
Kept == ~crossed => DriverInv

LEMMA Keeping == Spec => []Kept
<1>1. Init => Kept
  BY DriverInit DEF Kept
<1>2. Kept /\ [Next]_vars => Kept'
  BY DriverStep, CrossedStays DEF Kept
<1> QED
  BY <1>1, <1>2, PTL DEF Spec

\* A kernel that probes one card at a time.
OneProbe ==
  \A c, d \in Cards : card[c].pc \in Probing /\ card[d].pc \in Probing => c = d

\* Such a kernel's searches never cross: what holds until they do is then true
\* of every state.
THEOREM OneProbeNeverCrosses == Spec /\ []OneProbe => []~crossed
<1>1. Init => ~crossed
  BY DEF Init
<1>2. TypeInv /\ ~crossed /\ OneProbe' /\ [Next]_vars => ~crossed'
  <2> SUFFICES ASSUME TypeInv, ~crossed, OneProbe', [Next]_vars PROVE ~crossed'
    OBVIOUS
  <2>1. ASSUME NEW c \in Cards, Scan(c) PROVE ~crossed'
    <3> SUFFICES ASSUME NEW d \in Cards \ {c}, Filling(d) PROVE FALSE
      BY <2>1 DEF Scan, Scanning
    <3>1. card \in [Cards -> CardRecord] /\ card[c] \in CardRecord
      BY TypesOf
    <3>2. card[d].pc \in Probing /\ card[d].slot \in FreeSlots
      BY DEF Filling, Probing, TypeInv, Slotted, FreeSlots
    <3>3. card' = [card EXCEPT ![c] =
             [card[c] EXCEPT !.pc = "scanned", !.slot = First(FreeSlots)]]
      BY <2>1, <3>2 DEF Scan
    <3>4. card'[c].pc \in Probing /\ card'[d].pc \in Probing
      BY <3>1, <3>2, <3>3 DEF CardRecord, Probing
    <3> QED
      BY <3>4 DEF OneProbe
  <2>2. CASE UNCHANGED vars
    BY <2>2 DEF vars
  <2>3. CASE Load
    BY <2>3 DEF Load, Insmod, RegisterChrdev, Rmmod, Unregister
  <2>4. ASSUME NEW c \in Cards, Probe(c) \/ Remove(c) PROVE ~crossed'
    BY <2>1, <2>4 DEF Probe, Kmalloc, Adopt, BoardInit, Publish, ProbeFails,
                      Remove, BoardCleanup, FreePriv
  <2>5. ASSUME NEW f \in Files, User(f) PROVE ~crossed'
    BY <2>5 DEF User, HostOpen, HostRelease, HostIoctl, HostMmap
  <2> QED
    BY <2>2, <2>3, <2>4, <2>5 DEF Next
<1> QED
  BY <1>1, <1>2, TypeInvariance, PTL DEF Spec

-----------------------------------------------------------------------------
(* Whatever fails.                                                         *)

\* However many cards come, fail and go, and however many are probed at once,
\* no two of them have the same minor, from the choice of the slot on, until
\* a probe searches priv[] between another's search and its filling.
THEOREM MinorsDistinct == Spec => []EachCardItsNode
<1>1. Kept => EachCardItsNode
  BY DEF Kept, DriverInv, Apart, EachCardItsNode
<1> QED
  BY <1>1, Keeping, PTL

\* Whichever step of a probe has failed, and after every removal, the device
\* is disabled, and its regions and mappings are given back as far as they
\* are known.
THEOREM FailuresRelease == Spec => []ReleasedWhenUnbound
<1>1. Kept => ReleasedWhenUnbound
  BY DEF Kept, DriverInv, CardInv, Clean, ReleasedWhenUnbound
<1> QED
  BY <1>1, Keeping, PTL

\* A node the driver has made leads to a bound card and its mapped registers,
\* as long as it is there.
THEOREM NodesLead == Spec => []NodesLeadToCards
<1>1. Kept => NodesLeadToCards
  <2> SUFFICES ASSUME DriverInv, NEW i \in nodes
               PROVE  \E c \in Cards :
                        /\ Bound(c) /\ card[c].slot = i
                        /\ priv[i] = card[c].drvdata /\ Usable(priv[i])
    BY DEF NodesLeadToCards, Kept
  <2>1. PICK c \in Cards : Leads(i, c)
    BY DEF DriverInv, NodesInv
  <2>2. Backed(c) /\ card[c].slot = i /\ Reg(c) = c /\ c # NULL
    BY <2>1, CardTypes DEF Leads, Mapped, CardInv
  <2> QED
    BY <2>1, <2>2, BackedTypes DEF Leads, Mapped, Reg, Bound, Usable
<1> QED
  BY <1>1, Keeping, PTL

\* What a use of memory that is not there takes, whatever fails: an rmmod of
\* the module that registered nothing, a card bound without an object, or an
\* open file whose card has gone or never had its registers mapped.
Cause ==
  \/ module = "husk"
  \/ \E c \in Cards : Bound(c) /\ card[c].drvdata = NULL
  \/ \E f \in Files : file[f] # Closed /\ ~Usable(file[f])

\* There is no other way to an oops until two searches cross: no probe, however
\* it fails, no removal of a card with its object, no load or unload of a
\* module that registered, and no open() or close() uses such memory.
THEOREM OopsHasCause == Spec => [][~crossed' /\ oops' => Cause]_vars
<1>1. Kept /\ [Next]_vars => [~crossed' /\ oops' => Cause]_vars
  <2> SUFFICES ASSUME Kept, Next, ~crossed', oops' PROVE Cause
    OBVIOUS
  <2>1. DriverInv /\ ~oops
    BY CrossedStays DEF Kept, Next
  <2>2. CASE Load
    BY <2>1, <2>2 DEF Load, Insmod, RegisterChrdev, Rmmod, Unregister, Cause
  <2>3. ASSUME NEW c \in Cards, Probe(c) PROVE Cause
    BY <2>1, <2>3, ScanPreserves, KmallocPreserves, AdoptPreserves,
       BoardInitPreserves, PublishPreserves, ProbeFailsPreserves DEF Probe
  <2>4. ASSUME NEW c \in Cards, BoardCleanup(c) PROVE Cause
    BY <2>1, <2>4, BoardCleanupPreserves DEF BoardCleanup, Cause, Bound
  <2>5. ASSUME NEW c \in Cards, FreePriv(c) PROVE Cause
    BY <2>1, <2>5, FreePrivPreserves
  <2>6. ASSUME NEW f \in Files, User(f) PROVE Cause
    BY <2>1, <2>6 DEF User, HostOpen, HostRelease, HostIoctl, HostMmap, Usable, Cause
  <2> QED
    BY <2>2, <2>3, <2>4, <2>5, <2>6 DEF Next, Remove
<1> QED
  BY <1>1, Keeping, PTL DEF Spec

-----------------------------------------------------------------------------
(* When nothing fails.                                                     *)

\* Until the first failure, a card is bound with its registers mapped; once
\* the module is live every card is bound, or was refused for want of slots.
CardQuiet(c) ==
  /\ card[c].pc # "failed"
  /\ card[c].pc = "filled" => Held(c) # NULL
  /\ card[c].pc = "bound" => card[c].drvdata \in Objects /\ Mapped(c)
  /\ module \in {"init", "live"} => card[c].pc \notin {"unbound", "removing"}
  /\ module = "live" => card[c].pc \in {"bound", "busy"}
  /\ card[c].pc = "busy" /\ module \in {"init", "live"} => FreeSlots = {}

\* The card whose object priv[] has at a slot.
Takes(c, i) == /\ card[c].slot = i /\ Held(c) = priv[i]
               /\ card[c].pc \in {"filled", "allocated", "mapped", "bound"}

\* A file is open on a bound card.
OpenOn(f, c) == Bound(c) /\ card[c].drvdata = file[f]

QuietFiles ==
  \A f \in Files : file[f] # Closed =>
    module = "live" /\ \E c \in Cards : OpenOn(f, c)

QuietSlots ==
  module \in {"init", "live"} =>
    \A i \in Slots : priv[i] # NULL => \E c \in Cards : Takes(c, i)

QuietInv ==
  quiet => /\ ~oops /\ module \notin {"undo", "husk"}
           /\ \A c \in Cards : CardQuiet(c)
           /\ QuietFiles /\ QuietSlots

\* What holds until the first failure depends on these variables only.
LEMMA QuietUntouched ==
  ASSUME QuietInv, UNCHANGED <<module, priv, heap, card, quiet>>
  PROVE  quiet => (\A c \in Cards : CardQuiet(c)') /\ QuietSlots'
BY DEF QuietInv, CardQuiet, Held, Mapped, Reg, FreeSlots, QuietSlots, Takes

LEMMA QuietLoad ==
  ASSUME DriverInv, QuietInv, Load
  PROVE  QuietInv'
<1> SUFFICES ASSUME quiet' PROVE QuietInv'
  BY DEF QuietInv
<1>1. CASE Insmod
  <2>1. /\ module = "out" /\ module' = "init" /\ UNCHANGED <<file, oops, quiet>>
        /\ priv' = [i \in Slots |-> NULL]
        /\ card' = [c \in Cards |-> [card[c] EXCEPT !.pc = "waiting"]]
    BY <1>1 DEF Insmod
  <2>2. ASSUME NEW c \in Cards PROVE card'[c].pc = "waiting"
    <3>1. card[c] \in CardRecord
      BY CardTypes
    <3> QED
      BY <2>1, <3>1 DEF CardRecord
  <2>3. /\ quiet /\ ~oops /\ \A f \in Files : file[f] = Closed
    BY <2>1 DEF QuietInv, QuietFiles
  <2> QED
    BY <2>1, <2>2, <2>3 DEF QuietInv, CardQuiet, QuietFiles, QuietSlots
<1>2. CASE RegisterChrdev
  <2>1. /\ module = "init" /\ module' = "live"
        /\ UNCHANGED <<priv, heap, card, file, oops, quiet>>
        /\ \A c \in Cards : card[c].pc \in {"bound", "unbound", "busy"}
    BY <1>2 DEF RegisterChrdev, Unbound
  <2>2. /\ quiet /\ ~oops /\ \A f \in Files : file[f] = Closed
        /\ \A c \in Cards : CardQuiet(c)
        /\ \A i \in Slots : priv[i] # NULL => \E c \in Cards : Takes(c, i)
    BY <2>1 DEF QuietInv, QuietFiles, QuietSlots
  <2>3. \A c \in Cards : CardQuiet(c)'
    BY <2>1, <2>2 DEF CardQuiet, Mapped, Reg, FreeSlots
  <2>4. QuietFiles' /\ QuietSlots'
    BY <2>1, <2>2 DEF QuietFiles, QuietSlots, Takes, Held
  <2> QED
    BY <2>1, <2>2, <2>3, <2>4 DEF QuietInv
<1>3. CASE Rmmod \/ Unregister
  <2>1. /\ quiet /\ ~oops /\ module \notin {"undo", "husk"}
        /\ \A c \in Cards : CardQuiet(c)
    BY <1>3 DEF Rmmod, Unregister, QuietInv
  <2>2. /\ UNCHANGED <<priv, heap, card, file, oops, quiet>>
        /\ module' \in {"exit", "out"}
    BY <1>3, <2>1 DEF Rmmod, Unregister
  <2>3. \A f \in Files : file[f] = Closed
    BY <1>3 DEF Rmmod, Unregister, QuietInv, QuietFiles
  <2>4. \A c \in Cards : CardQuiet(c)'
    BY <2>1, <2>2 DEF CardQuiet, Held, Mapped, Reg
  <2> QED
    BY <2>1, <2>2, <2>3, <2>4 DEF QuietInv, QuietFiles, QuietSlots
<1> QED
  BY <1>1, <1>2, <1>3 DEF Load

LEMMA QuietUser ==
  ASSUME DriverInv, QuietInv, NEW f \in Files, User(f)
  PROVE  QuietInv'
<1>1. UNCHANGED <<module, priv, heap, card, quiet>>
  BY DEF User, HostOpen, HostRelease, HostIoctl, HostMmap
<1> SUFFICES ASSUME quiet PROVE QuietInv'
  BY <1>1 DEF QuietInv
<1>2. (\A c \in Cards : CardQuiet(c)') /\ QuietSlots'
  BY <1>1, QuietUntouched
<1>3. file \in [Files -> Objects \union {NULL, Closed}]
  BY DEF DriverInv, TypeInv, TypeOK
<1>4. file[f] # Closed => Usable(file[f]) /\ Live(file[f])
  <2> SUFFICES ASSUME file[f] # Closed PROVE Usable(file[f]) /\ Live(file[f])
    OBVIOUS
  <2>1. PICK c \in Cards : OpenOn(f, c) /\ module = "live"
    BY DEF QuietInv, QuietFiles
  <2>2. /\ card[c].pc = "bound" /\ card[c].drvdata = file[f]
        /\ file[f] \in Objects /\ Mapped(c) /\ CardInv(c)
        /\ NULL \notin Objects /\ NULL \notin Cards
    BY <2>1, CardTypes DEF QuietInv, OpenOn, Bound, CardQuiet
  <2>3. heap[file[f]].live /\ heap[file[f]].reg = c
    BY <2>2 DEF CardInv, Backed, Mapped, Reg
  <2> QED
    BY <2>2, <2>3 DEF Usable, Live, Mapped
<1>5. ~oops' /\ QuietFiles'
  <2>1. CASE HostOpen(f)
    <3>1. PICK i \in Slots :
            /\ priv[i] # NULL /\ file' = [file EXCEPT ![f] = priv[i]]
            /\ module = "live" /\ oops' = oops
      BY <2>1 DEF HostOpen
    <3>2. PICK c \in Cards : Takes(c, i)
      BY <3>1 DEF QuietInv, QuietSlots
    <3>3. Bound(c) /\ card[c].drvdata = priv[i]
      BY <3>1, <3>2 DEF QuietInv, CardQuiet, Takes, Held, Bound
    <3>4. OpenOn(f, c)'
      BY <1>1, <1>3, <3>1, <3>3 DEF OpenOn, Bound
    <3>5. \A g \in Files \ {f} : file'[g] = file[g]
      BY <1>3, <3>1
    <3>6. \A g \in Files \ {f}, d \in Cards : OpenOn(g, d) => OpenOn(g, d)'
      BY <1>1, <3>5 DEF OpenOn, Bound
    <3>7. QuietFiles'
      BY <1>1, <3>1, <3>4, <3>5, <3>6 DEF QuietInv, QuietFiles
    <3> QED
      BY <3>1, <3>7 DEF QuietInv
  <2>2. CASE HostRelease(f)
    <3>1. /\ file'[f] = Closed /\ \A g \in Files \ {f} : file'[g] = file[g]
          /\ oops' = oops
      BY <1>3, <2>2 DEF HostRelease
    <3>2. \A g \in Files \ {f}, d \in Cards : OpenOn(g, d) => OpenOn(g, d)'
      BY <1>1, <3>1 DEF OpenOn, Bound
    <3>3. QuietFiles'
      BY <1>1, <3>1, <3>2 DEF QuietInv, QuietFiles
    <3> QED
      BY <3>1, <3>3 DEF QuietInv
  <2>3. CASE HostIoctl(f) \/ HostMmap(f)
    <3>1. file' = file /\ ~oops'
      BY <1>4, <2>3 DEF HostIoctl, HostMmap
    <3> QED
      BY <1>1, <3>1 DEF QuietInv, QuietFiles, OpenOn, Bound
  <2> QED
    BY <2>1, <2>2, <2>3 DEF User
<1> QED
  BY <1>1, <1>2, <1>5 DEF QuietInv

\* A step of one card keeps what holds until the first failure, when the card
\* is not one that files are open on.
LEMMA QuietCard ==
  ASSUME DriverInv, QuietInv, quiet, NEW c \in Cards,
         Alone(c), ~oops', module' = module, file' = file,
         \A i \in Slots : priv'[i] = priv[i] \/ i = card[c].slot,
         FreeSlots' \subseteq FreeSlots,
         CardQuiet(c)',
         module = "live" => ~Bound(c),
         module \in {"init", "live"} =>
           \A i \in Slots : priv'[i] # NULL =>
             (priv'[i] = priv[i] /\ ~Takes(c, i)) \/ Takes(c, i)'
  PROVE  QuietInv'
<1>1. ASSUME NEW d \in Cards \ {c}
      PROVE  card'[d] = card[d] /\ Held(d)' = Held(d) /\ CardQuiet(d)'
  <2>1. /\ CardQuiet(d) /\ CardInv(d) /\ NULL \notin Slots
    BY CardTypes DEF QuietInv
  <2>2. /\ card'[d] = card[d]
        /\ Held(d) \in Objects => heap'[Held(d)] = heap[Held(d)]
    BY DEF Alone
  <2>3. Held(d)' = Held(d)
    <3>1. CASE card[d].pc = "filled"
      <4>1. card[d].slot \in Slots
        BY <2>1, <3>1 DEF CardInv
      <4>2. card[d].slot # card[c].slot
        BY <2>1, <4>1, NotShared
      <4> QED
        BY <2>2, <3>1, <4>1, <4>2 DEF Held
    <3>2. CASE card[d].pc # "filled"
      BY <2>2, <3>2 DEF Held
    <3> QED
      BY <3>1, <3>2
  <2>4. card[d].pc = "bound" => Mapped(d)' /\ card[d].drvdata \in Objects
    BY <2>1, <2>2 DEF CardQuiet, Held, Mapped, Reg
  <2> QED
    BY <2>1, <2>2, <2>3, <2>4 DEF CardQuiet
<1>2. QuietFiles'
  <2>1. QuietFiles
    BY DEF QuietInv
  <2>2. ASSUME NEW f \in Files, file[f] # Closed
        PROVE  module = "live" /\ \E d \in Cards : OpenOn(f, d)'
    <3>1. PICK d \in Cards : OpenOn(f, d) /\ module = "live"
      BY <2>1, <2>2 DEF QuietFiles
    <3>2. d # c
      BY <3>1 DEF OpenOn
    <3>3. OpenOn(f, d)'
      BY <1>1, <3>1, <3>2 DEF OpenOn, Bound
    <3> QED
      BY <3>1, <3>3
  <2> QED
    BY <2>2 DEF QuietFiles
<1>3. QuietSlots'
  <2> SUFFICES ASSUME module \in {"init", "live"}, NEW i \in Slots, priv'[i] # NULL
               PROVE  \E d \in Cards : Takes(d, i)'
    BY DEF QuietSlots
  <2>1. CASE Takes(c, i)'
    BY <2>1
  <2>2. CASE priv'[i] = priv[i] /\ ~Takes(c, i)
    <3>1. PICK d \in Cards : Takes(d, i)
      BY <2>2 DEF QuietInv, QuietSlots
    <3>2. d # c
      BY <2>2, <3>1
    <3>3. Takes(d, i)'
      BY <1>1, <2>2, <3>1, <3>2 DEF Takes
    <3> QED
      BY <3>3
  <2> QED
    BY <2>1, <2>2
<1> QED
  BY <1>1, <1>2, <1>3 DEF QuietInv

LEMMA QuietScan ==
  ASSUME DriverInv, QuietInv, quiet, ~crossed', NEW c \in Cards, Scan(c)
  PROVE  QuietInv'
<1>1. /\ UNCHANGED <<module, priv, heap, file, oops>>
      /\ card[c].pc \in {"waiting", "unbound", "busy"}
      /\ card[c].pc = "waiting" \/ module = "live"
  BY DEF Scan, Scanning, MayProbe, Unbound
<1>2. /\ card \in [Cards -> CardRecord] /\ card[c] \in CardRecord
      /\ CardQuiet(c) /\ ~oops
  BY CardTypes DEF QuietInv
<1>3. Alone(c)
  BY <1>2, ScanPreserves
<1>4. CardQuiet(c)'
  <2>1. CASE FreeSlots = {}
    <3>1. card'[c].pc = "busy"
      BY <1>2, <2>1 DEF Scan, CardRecord
    <3>2. FreeSlots' = {}
      BY <1>1, <2>1 DEF FreeSlots
    <3> QED
      BY <3>1, <3>2 DEF CardQuiet
  <2>2. CASE FreeSlots # {}
    <3>1. module # "live"
      BY <1>1, <1>2, <2>2 DEF CardQuiet
    <3>2. card'[c].pc = "scanned"
      BY <1>2, <2>2 DEF Scan, CardRecord
    <3> QED
      BY <1>1, <3>1, <3>2 DEF CardQuiet
  <2> QED
    BY <2>1, <2>2
<1>5. ~Bound(c) /\ \A i \in Slots : ~Takes(c, i)
  BY <1>1 DEF Bound, Takes
<1>6. FreeSlots' = FreeSlots
  BY <1>1 DEF FreeSlots
<1> QED
  BY <1>1, <1>2, <1>3, <1>4, <1>5, <1>6, QuietCard

LEMMA QuietKmalloc ==
  ASSUME DriverInv, QuietInv, quiet', NEW c \in Cards, Kmalloc(c)
  PROVE  QuietInv'
<1> DEFINE i == card[c].slot
<1>1. /\ UNCHANGED <<module, file, oops, quiet>> /\ card[c].pc = "scanned"
      /\ card' = [card EXCEPT ![c].pc = "filled"]
  BY DEF Kmalloc
<1>2. PICK o \in Objects : priv' = [priv EXCEPT ![i] = o]
  BY DEF Kmalloc
<1>3. /\ card \in [Cards -> CardRecord] /\ card[c] \in CardRecord
      /\ priv \in [Slots -> Objects \union {NULL}]
      /\ i \in Slots /\ priv[i] = NULL /\ NULL \notin Objects
  BY <1>1, CardTypes DEF CardInv
<1>4. module # "live" /\ ~oops
  BY <1>1 DEF QuietInv, CardQuiet
<1>5. Alone(c)
  BY <1>4, KmallocPreserves
<1>6. card'[c].pc = "filled" /\ card'[c].slot = i
  BY <1>1, <1>3 DEF CardRecord
<1>7. priv'[i] = o /\ \A j \in Slots \ {i} : priv'[j] = priv[j]
  BY <1>2, <1>3
<1>8. FreeSlots' \subseteq FreeSlots
  BY <1>3, <1>7 DEF FreeSlots
<1>9. CardQuiet(c)' /\ Takes(c, i)'
  BY <1>1, <1>3, <1>4, <1>6, <1>7 DEF CardQuiet, Held, Takes
<1>10. \A j \in Slots : ~Takes(c, j)
  BY <1>1 DEF Takes
<1> QED
  BY <1>1, <1>4, <1>5, <1>7, <1>8, <1>9, <1>10, QuietCard

\* The steps of a probe after the slot is filled leave priv[] alone.
LEMMA QuietFilled ==
  ASSUME DriverInv, QuietInv, quiet, UNCHANGED <<module, priv, file>>,
         NEW c \in Cards, Alone(c), ~oops',
         card[c].pc \in {"filled", "allocated", "mapped"},
         card'[c].pc \in {"allocated", "mapped", "bound"},
         card'[c].slot = card[c].slot, Held(c)' = Held(c),
         card'[c].pc = "bound" => card'[c].drvdata \in Objects /\ Mapped(c)'
  PROVE  QuietInv'
<1>1. module # "live" /\ ~Bound(c)
  BY DEF QuietInv, CardQuiet, Bound
<1>2. CardQuiet(c)'
  BY <1>1 DEF CardQuiet
<1>3. \A i \in Slots : Takes(c, i)' \/ ~Takes(c, i)
  BY DEF Takes
<1>4. FreeSlots' = FreeSlots
  BY DEF FreeSlots
<1> QED
  BY <1>1, <1>2, <1>3, <1>4, QuietCard

LEMMA QuietAdopt ==
  ASSUME DriverInv, QuietInv, quiet', NEW c \in Cards, Adopt(c)
  PROVE  QuietInv'
<1> DEFINE o == priv[card[c].slot]
<1>1. /\ UNCHANGED <<module, priv, file, quiet>> /\ card[c].pc = "filled"
  BY DEF Adopt
<1>2. /\ card \in [Cards -> CardRecord] /\ card[c] \in CardRecord
      /\ Held(c) = o /\ o # NULL /\ ~oops
  BY <1>1, CardTypes DEF QuietInv, CardQuiet, Held
<1>3. card' = [card EXCEPT ![c] = [card[c] EXCEPT !.pc = "allocated", !.drvdata = o]]
  BY <1>2 DEF Adopt
<1>4. /\ card'[c].pc = "allocated" /\ card'[c].slot = card[c].slot
      /\ Held(c)' = o
  BY <1>2, <1>3 DEF CardRecord, Held
<1>5. Alone(c) /\ ~oops'
  BY <1>2, AdoptPreserves
<1> QED
  BY <1>1, <1>2, <1>4, <1>5, QuietFilled

LEMMA QuietBoardInit ==
  ASSUME DriverInv, QuietInv, quiet', NEW c \in Cards, BoardInit(c)
  PROVE  QuietInv'
<1> DEFINE more == card[c].maps \union {"m_immrbar"}
<1>1. /\ UNCHANGED <<module, priv, file, quiet>> /\ card[c].pc = "allocated"
      /\ card' = [card EXCEPT ![c] =
           [card[c] EXCEPT !.pc = "mapped", !.enabled = TRUE, !.regions = TRUE,
                           !.maps = more]]
  BY DEF BoardInit
<1>2. card \in [Cards -> CardRecord] /\ card[c] \in CardRecord /\ ~oops
  BY <1>1, CardTypes DEF QuietInv
<1> HIDE DEF more
<1>3. /\ card'[c].pc = "mapped" /\ card'[c].slot = card[c].slot
      /\ Held(c)' = Held(c)
  BY <1>1, <1>2 DEF CardRecord, Held
<1>4. Alone(c) /\ ~oops'
  BY <1>2, BoardInitPreserves
<1> QED
  BY <1>1, <1>3, <1>4, QuietFilled

LEMMA QuietPublish ==
  ASSUME DriverInv, QuietInv, quiet', NEW c \in Cards, Publish(c)
  PROVE  QuietInv'
<1> DEFINE more == card[c].maps \union {"shm_mem"}
           o == card[c].drvdata
           i == card[c].slot
<1>1. /\ UNCHANGED <<module, priv, file, quiet>> /\ card[c].pc = "mapped"
      /\ heap' = WithMinor({o, priv[i]}, i)
      /\ card' = [card EXCEPT ![c] =
           [card[c] EXCEPT !.pc = "bound", !.maps = more]]
  BY CardTypes DEF Publish, MakeNode, QuietInv
<1>2. /\ card \in [Cards -> CardRecord] /\ card[c] \in CardRecord /\ ~oops
      /\ Backed(c) /\ Reg(c) = c /\ "m_immrbar" \in card[c].maps
      /\ heap \in [Objects -> Object]
  BY <1>1, CardTypes DEF QuietInv, CardInv
<1>3. "m_immrbar" \in more
  BY <1>2
<1> HIDE DEF more
<1>4. /\ card'[c].pc = "bound" /\ card'[c].slot = i
      /\ card'[c].drvdata = o /\ Held(c)' = Held(c)
      /\ "m_immrbar" \in card'[c].maps
  BY <1>1, <1>2, <1>3 DEF CardRecord, Held
<1>5. o \in Objects /\ heap'[o].reg = c
  BY <1>1, <1>2 DEF Backed, Reg, WithMinor, Object
<1>6. Mapped(c)'
  BY <1>4, <1>5 DEF Mapped, Reg
<1>7. Alone(c) /\ ~oops'
  BY <1>2, PublishPreserves
<1> QED
  BY <1>1, <1>4, <1>5, <1>6, <1>7, QuietFilled

LEMMA QuietRemove ==
  ASSUME DriverInv, QuietInv, quiet', NEW c \in Cards, Remove(c)
  PROVE  QuietInv'
<1>1. quiet /\ UNCHANGED <<module, priv, file>>
  BY DEF Remove, BoardCleanup, FreePriv
<1>2. CardInv(c) /\ CardQuiet(c) /\ ~oops /\ NULL \notin Objects
  BY <1>1, CardTypes DEF QuietInv
<1>3. module \notin {"init", "live"}
  <2>1. CASE BoardCleanup(c)
    BY <2>1 DEF BoardCleanup, MayRemove
  <2>2. CASE FreePriv(c)
    BY <1>2, <2>2 DEF FreePriv, CardQuiet
  <2> QED
    BY <2>1, <2>2 DEF Remove
<1>4. Alone(c) /\ ~oops'
  <2>1. CASE BoardCleanup(c)
    <3>1. card[c].drvdata # NULL
      BY <1>2, <2>1 DEF BoardCleanup, CardQuiet
    <3> QED
      BY <1>2, <2>1, <3>1, BoardCleanupPreserves
  <2>2. CASE FreePriv(c)
    BY <1>2, <2>2, FreePrivPreserves
  <2> QED
    BY <2>1, <2>2 DEF Remove
<1>5. card'[c].pc \in {"removing", "unbound"}
  <2>1. CASE BoardCleanup(c)
    <3> DEFINE u == Unmapped(card[c].drvdata)
    <3>1. card[c].drvdata # NULL /\ card[c].pc = "bound"
      BY <1>2, <2>1 DEF BoardCleanup, CardQuiet
    <3>2. Backed(c) /\ Reg(c) \in {NULL, c}
      BY <1>2, <3>1 DEF CardInv
    <3>3. u \in [Cards -> CardRecord] /\ u[c] \in CardRecord
      BY <3>2, UnmappedOwn
    <3>4. card' = [u EXCEPT ![c] =
             [u[c] EXCEPT !.pc = "removing", !.enabled = FALSE, !.regions = FALSE]]
      BY <1>2, <2>1, <3>1, <3>2 DEF BoardCleanup, Live, Backed
    <3> HIDE DEF u
    <3> QED
      BY <3>3, <3>4 DEF CardRecord
  <2>2. CASE FreePriv(c)
    <3> DEFINE lost == card[c].leaked \/ card[c].maps # {}
    <3>1. card' = [card EXCEPT ![c] =
             [card[c] EXCEPT !.pc = "unbound", !.slot = NULL, !.drvdata = NULL,
                             !.maps = {}, !.leaked = lost]]
      BY <2>2 DEF FreePriv
    <3>2. card \in [Cards -> CardRecord] /\ card[c] \in CardRecord
      BY CardTypes
    <3> HIDE DEF lost
    <3> QED
      BY <3>1, <3>2 DEF CardRecord
  <2> QED
    BY <2>1, <2>2 DEF Remove
<1>6. CardQuiet(c)'
  BY <1>1, <1>3, <1>5 DEF CardQuiet
<1>7. FreeSlots' = FreeSlots
  BY <1>1 DEF FreeSlots
<1> QED
  BY <1>1, <1>3, <1>4, <1>6, <1>7, QuietCard

LEMMA QuietInit == Init => QuietInv
<1> SUFFICES ASSUME Init PROVE QuietInv
  OBVIOUS
<1>1. \A c \in Cards : card[c].pc = "unbound"
  BY DEF Init, Detached
<1> QED
  BY <1>1 DEF Init, QuietInv, CardQuiet, QuietFiles, QuietSlots

LEMMA QuietStep ==
  ASSUME DriverInv, QuietInv, [Next]_vars, ~crossed'
  PROVE  QuietInv'
<1> SUFFICES ASSUME quiet' PROVE QuietInv'
  BY DEF QuietInv
<1>1. CASE UNCHANGED vars
  <2>1. /\ UNCHANGED <<module, priv, heap, card, quiet, file, oops>> /\ quiet
    BY <1>1 DEF vars
  <2>2. (\A c \in Cards : CardQuiet(c)') /\ QuietSlots'
    BY <2>1, QuietUntouched
  <2> QED
    BY <2>1, <2>2 DEF QuietInv, QuietFiles, OpenOn, Bound
<1>2. CASE Load
  BY <1>2, QuietLoad
<1>3. ASSUME NEW c \in Cards, Probe(c) PROVE QuietInv'
  <2>1. CASE Scan(c)
    BY <2>1, QuietScan DEF Scan, Scanning
  <2>2. CASE ProbeFails(c)
    BY <2>2 DEF ProbeFails, QuietInv, CardQuiet
  <2> QED
    BY <1>3, <2>1, <2>2, QuietKmalloc, QuietAdopt, QuietBoardInit, QuietPublish
    DEF Probe
<1>4. ASSUME NEW c \in Cards, Remove(c) PROVE QuietInv'
  BY <1>4, QuietRemove
<1>5. ASSUME NEW f \in Files, User(f) PROVE QuietInv'
  BY <1>5, QuietUser
<1> QED
  BY <1>1, <1>2, <1>3, <1>4, <1>5 DEF Next

\* While every call succeeds, no card leaves a loaded module and no two
\* searches cross, no order of loading, probing, opening, reading, mapping,
\* closing and unloading uses freed, unmapped or unregistered memory.
THEOREM NothingUsedAfterFree == Spec => []NoOops
<1> DEFINE QuietKept == ~crossed => DriverInv /\ QuietInv
<1>1. Init => QuietKept
  BY DriverInit, QuietInit
<1>2. QuietKept /\ [Next]_vars => QuietKept'
  BY DriverStep, QuietStep, CrossedStays
<1>3. QuietKept => NoOops
  BY DEF QuietInv, NoOops
<1> QED
  BY <1>1, <1>2, <1>3, PTL DEF Spec
=================================================================================
