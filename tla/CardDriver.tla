------------------------------- MODULE CardDriver -------------------------------
(***************************************************************************)
(* The life cycle of the card's kernel driver: loading and unloading the   *)
(* module, probing and removing cards, and the processes that open a       *)
(* minor, call host_ioctl() on it and close it.  What the kernel does      *)
(* around the driver - when it probes, that it holds an open module, what  *)
(* a failed init leaves - is part of the model.                            *)
(***************************************************************************)
EXTENDS FiniteSets, Integers

CONSTANTS
  Cards,          \* PCI devices with the driver's ids
  Slots,          \* 0 .. MAX_PTP_PCI - 1: the minors, and the array priv
  Objects,        \* what kmalloc() may return
  Files,          \* open files
  NULL,
  Faults,         \* the failures that may happen
  Rebinds         \* TRUE: cards come and go while the module is loaded

AllFaults == {"class", "register", "chrdev", "cdev", "kmalloc", "enable",
              "nobar", "notmem", "small", "regions", "ioremap", "ioremap2",
              "device"}

ASSUME DriverConstantsOK ==
  /\ IsFiniteSet(Cards) /\ IsFiniteSet(Slots) /\ Slots \subseteq Nat
  /\ NULL \notin Objects \union Slots \union Cards
  /\ Faults \subseteq AllFaults
  /\ Rebinds \in BOOLEAN

VARIABLES
  module,       \* out, init, live, exit, undo, or husk: loaded, but its init
                \* ended with "Failed to creating class"
  class,        \* ptp_pci_class exists in the kernel
  chrdev,       \* cdev_host answers for the device numbers
  priv,         \* the array of the cards' host_priv
  heap,         \* the allocated objects: reg, the card whose mapping
                \* m_immrbar has the address of, and their minor
  card,         \* what the kernel and the driver hold for each card
  nodes,        \* the minors that device_create() made a node for
  file,         \* filp->private_data
  oops,         \* freed, unmapped or unregistered memory was used
  quiet,        \* history: no call has failed, and no card left a loaded
                \* module
  crossed       \* history: a probe searched priv[] between another's search
                \* and its filling of the slot it found

vars == <<module, class, chrdev, priv, heap, card, nodes, file, oops, quiet,
          crossed>>

Free == [live |-> FALSE, reg |-> NULL, minor |-> 0]
Fresh == [Free EXCEPT !.live = TRUE]
Closed == "closed"

Mappings == {"m_immrbar", "shm_mem"}

Probing == {"scanned", "filled", "allocated", "mapped", "failed"}
Unbound == {"unbound", "busy"}      \* busy: probe returned -EBUSY

TypeOK ==
  /\ module \in {"out", "init", "live", "exit", "undo", "husk"}
  /\ class \in BOOLEAN /\ chrdev \in BOOLEAN /\ oops \in BOOLEAN
  /\ quiet \in BOOLEAN /\ crossed \in BOOLEAN
  /\ priv \in [Slots -> Objects \union {NULL}]
  /\ heap \in [Objects -> [live : BOOLEAN, reg : Cards \union {NULL},
                           minor : Slots \union {0}]]
  /\ card \in [Cards -> [pc : Probing \union Unbound
                                \union {"waiting", "bound", "removing"},
                         slot : Slots \union {NULL},
                         drvdata : Objects \union {NULL},
                         enabled : BOOLEAN, regions : BOOLEAN,
                         maps : SUBSET Mappings,
                         leaked : BOOLEAN]]     \* one was never unmapped
  /\ nodes \subseteq Slots
  /\ file \in [Files -> Objects \union {NULL, Closed}]

Detached == [pc |-> "unbound", slot |-> NULL, drvdata |-> NULL,
             enabled |-> FALSE, regions |-> FALSE, maps |-> {}, leaked |-> FALSE]

Init ==
  /\ module = "out" /\ class = FALSE /\ chrdev = FALSE /\ oops = FALSE
  /\ priv = [i \in Slots |-> NULL]
  /\ heap = [o \in Objects |-> Free]
  /\ card = [c \in Cards |-> Detached]
  /\ nodes = {}
  /\ file = [f \in Files |-> Closed]
  /\ quiet = TRUE /\ crossed = FALSE

-----------------------------------------------------------------------------
(* host_module_init() and host_module_exit().                              *)

\* class_create() fails when a class of that name is left; then init returns
\* 1, and the kernel keeps a module whose init returns a positive number.
Insmod ==
  /\ module = "out"
  /\ \/ /\ class \/ "class" \in Faults
        /\ module' = "husk" /\ quiet' = FALSE
        /\ UNCHANGED <<class, card, priv>>
     \/ /\ ~class /\ "register" \in Faults
        /\ class' = TRUE /\ quiet' = FALSE
        /\ UNCHANGED <<module, card, priv>>
     \/ /\ ~class
        /\ class' = TRUE
        /\ module' = "init"
        /\ priv' = [i \in Slots |-> NULL]
        /\ card' = [c \in Cards |-> [card[c] EXCEPT !.pc = "waiting"]]
        /\ UNCHANGED quiet
  /\ UNCHANGED <<chrdev, heap, nodes, file, oops, crossed>>

\* pci_register_driver() has probed every card that is there.  The result of
\* cdev_add() is not looked at: the module is live without it.
RegisterChrdev ==
  /\ module = "init"
  /\ \A c \in Cards : card[c].pc \in {"bound"} \union Unbound
  /\ \/ /\ chrdev' = TRUE
        /\ module' = "live"
        /\ UNCHANGED quiet
     \/ /\ "cdev" \in Faults
        /\ module' = "live" /\ quiet' = FALSE
        /\ UNCHANGED chrdev
     \/ /\ "chrdev" \in Faults
        /\ module' = "undo" /\ quiet' = FALSE
        /\ UNCHANGED chrdev
  /\ UNCHANGED <<class, priv, heap, card, nodes, file, oops, crossed>>

\* rmmod is refused while a file is open, since cdev_host.owner is the
\* module.
Rmmod ==
  /\ \/ /\ module = "live" /\ \A f \in Files : file[f] = Closed
        /\ module' = "exit" /\ chrdev' = FALSE
        /\ UNCHANGED oops
     \/ /\ module = "husk"
        /\ oops' = TRUE
        /\ UNCHANGED <<module, chrdev>>
  /\ UNCHANGED <<class, priv, heap, card, nodes, file, quiet, crossed>>

\* pci_unregister_driver() has removed every card; the failing init returns
\* without class_destroy().
Unregister ==
  /\ module \in {"exit", "undo"}
  /\ \A c \in Cards : card[c].pc \in Unbound
  /\ class' = (module = "undo")
  /\ module' = "out"
  /\ UNCHANGED <<chrdev, priv, heap, card, nodes, file, oops, quiet,
                 crossed>>

-----------------------------------------------------------------------------
(* host_probe() and host_board_init().                                     *)

FreeSlots == {i \in Slots : priv[i] = NULL}
First(S)  == CHOOSE i \in S : \A j \in S : i <= j

\* A card may be probed as the driver registers, or when it comes later, and
\* two at once: the kernel locks the card, not the driver.
MayProbe(c) ==
  \/ card[c].pc = "waiting"
  \/ Rebinds /\ module = "live" /\ card[c].pc \in Unbound

\* Between the search and the test of what kmalloc() returned.
Filling(c) ==
  card[c].pc \in {"scanned", "filled"} /\ priv[card[c].slot] = NULL

Scanning(c) ==
  /\ crossed' = (crossed \/ \E d \in Cards \ {c} : Filling(d))
  /\ UNCHANGED <<module, class, chrdev, priv, heap, nodes, file, oops, quiet>>

\* Bug: the index is not compared with MAX_PTP_PCI after the loop.
ScanPast(c) ==
  /\ MayProbe(c)
  /\ card' = [card EXCEPT ![c].pc = "scanned",
                          ![c].slot = IF FreeSlots = {}
                                        THEN Cardinality(Slots)
                                        ELSE First(FreeSlots)]
  /\ Scanning(c)

\* Bug: the cards are counted instead of looking for a free slot.
ScanCounted(c) ==
  /\ MayProbe(c)
  /\ LET bound == {d \in Cards : card[d].pc = "bound"}
     IN  card' = [card EXCEPT ![c].pc = "scanned",
                              ![c].slot = Cardinality(bound)]
  /\ Scanning(c)

\* The first slot that is NULL; -EBUSY, "Too more PCIE device", without one.
Scan(c) ==
  /\ MayProbe(c)
  /\ card' = [card EXCEPT ![c] =
                IF FreeSlots = {}
                  THEN [@ EXCEPT !.pc = "busy"]
                  ELSE [@ EXCEPT !.pc = "scanned", !.slot = First(FreeSlots)]]
  /\ Scanning(c)

\* priv[i] = kmalloc(), which may return what kfree() gave back.
Kmalloc(c) ==
  /\ card[c].pc = "scanned"
  /\ \/ \E o \in {x \in Objects : ~heap[x].live} :
          /\ heap' = [heap EXCEPT ![o] = Fresh]
          /\ priv' = [priv EXCEPT ![card[c].slot] = o]
          /\ UNCHANGED quiet
     \/ /\ "kmalloc" \in Faults /\ quiet' = FALSE
        /\ priv' = [priv EXCEPT ![card[c].slot] = NULL]
        /\ UNCHANGED heap
  /\ card' = [card EXCEPT ![c].pc = "filled"]
  /\ UNCHANGED <<module, class, chrdev, nodes, file, oops, crossed>>

Live(o) == o # NULL /\ heap[o].live

\* What is in priv[i] now is cleared and becomes the card's.  When it is NULL
\* the probe returns 0 all the same, and the card is bound without an object.
Adopt(c) ==
  /\ card[c].pc = "filled"
  /\ LET o == priv[card[c].slot] IN
       IF o = NULL
         THEN /\ card' = [card EXCEPT ![c].pc = "bound", ![c].slot = NULL]
              /\ UNCHANGED <<heap, oops>>
         ELSE /\ card' = [card EXCEPT ![c].pc = "allocated", ![c].drvdata = o]
              /\ heap' = [heap EXCEPT ![o].reg = NULL, ![o].minor = 0]
              /\ oops' = ~Live(o)
  /\ UNCHANGED <<module, class, chrdev, priv, nodes, file, quiet, crossed>>

\* iounmap(priv->m_immrbar), which undoes the mapping found there.
Unmapped(o) ==
  [d \in Cards |-> IF d = heap[o].reg
                     THEN [card[d] EXCEPT !.maps = @ \ {"m_immrbar"}]
                     ELSE card[d]]

\* priv->minor = minor, through the addresses in S.
WithMinor(S, i) ==
  [o \in Objects |-> IF o \in S THEN [heap[o] EXCEPT !.minor = i] ELSE heap[o]]

\* Bug: ioremap() fails and the regions stay requested.
BoardInitKeeps(c) ==
  /\ card[c].pc = "allocated"
  /\ LET o == card[c].drvdata IN
       \/ /\ card' = [card EXCEPT ![c] =
                [@ EXCEPT !.pc = "mapped", !.enabled = TRUE, !.regions = TRUE,
                          !.maps = card[c].maps \union {"m_immrbar"}]]
          /\ heap' = [heap EXCEPT ![o].reg = c]
          /\ oops' = ~Live(o)
          /\ UNCHANGED quiet
       \/ /\ "ioremap" \in Faults /\ quiet' = FALSE
          /\ card' = [card EXCEPT ![c].pc = "failed", ![c].regions = TRUE]
          /\ UNCHANGED <<heap, oops>>
  /\ UNCHANGED <<module, class, chrdev, priv, nodes, file, crossed>>

\* Up to the first ioremap().  Each failure undoes what was done, and one that
\* comes before the mapping undoes it too; but a card without an I/O address
\* is disabled and still bound: retval is 0 there.
BoardInit(c) ==
  /\ card[c].pc = "allocated"
  /\ LET o == card[c].drvdata
         i == card[c].slot
     IN \/ /\ card' = [card EXCEPT ![c] =
                 [@ EXCEPT !.pc = "mapped", !.enabled = TRUE, !.regions = TRUE,
                           !.maps = card[c].maps \union {"m_immrbar"}]]
           /\ heap' = [heap EXCEPT ![o].reg = c]
           /\ oops' = ~Live(o)
           /\ UNCHANGED quiet
        \/ /\ Faults \intersect {"enable", "small", "regions", "ioremap"} # {}
           /\ quiet' = FALSE
           /\ card' = [card EXCEPT ![c].pc = "failed"]
           /\ UNCHANGED <<heap, oops>>
        \/ /\ "notmem" \in Faults /\ quiet' = FALSE
           /\ card' = [Unmapped(o) EXCEPT ![c].pc = "failed"]
           /\ oops' = ~Live(o)
           /\ UNCHANGED heap
        \/ /\ "nobar" \in Faults /\ quiet' = FALSE
           /\ card' = [card EXCEPT ![c].pc = "bound"]
           /\ heap' = WithMinor({priv[i]}, i)
           /\ oops' = ~Live(priv[i])
  /\ UNCHANGED <<module, class, chrdev, priv, nodes, file, crossed>>

\* Bug: the node is created before the last thing that can fail.
PublishEarly(c) ==
  /\ card[c].pc = "mapped"
  /\ LET o == card[c].drvdata
         i == card[c].slot
     IN
       /\ nodes' = nodes \union {i}
       /\ oops' = ~(Live(o) /\ Live(priv[i]))
       /\ \/ /\ card' = [card EXCEPT ![c] =
                   [@ EXCEPT !.pc = "bound",
                           !.maps = card[c].maps \union {"shm_mem"}]]
             /\ heap' = WithMinor({o, priv[i]}, i)
             /\ UNCHANGED quiet
          \/ /\ "ioremap2" \in Faults /\ quiet' = FALSE
             /\ card' = [Unmapped(o) EXCEPT ![c] =
                   [@ EXCEPT !.pc = "failed", !.enabled = FALSE,
                             !.regions = FALSE]]
             /\ UNCHANGED heap
  /\ UNCHANGED <<module, class, chrdev, priv, file, crossed>>

\* device_create(), whose result is not looked at.
MakeNode(i) ==
  \/ nodes' = nodes \union {i} /\ UNCHANGED quiet
  \/ "device" \in Faults /\ quiet' = FALSE /\ UNCHANGED nodes

\* The second ioremap(), of the same range, and device_create(); host_probe()
\* sets the minor once more, through priv[].
Publish(c) ==
  /\ card[c].pc = "mapped"
  /\ LET o == card[c].drvdata
         i == card[c].slot
     IN \/ /\ card' = [card EXCEPT ![c] =
                 [@ EXCEPT !.pc = "bound",
                           !.maps = card[c].maps \union {"shm_mem"}]]
           /\ heap' = WithMinor({o, priv[i]}, i)
           /\ MakeNode(i)
           /\ oops' = ~(Live(o) /\ Live(priv[i]))
        \/ /\ "ioremap2" \in Faults /\ quiet' = FALSE
           /\ card' = [Unmapped(o) EXCEPT ![c] =
                 [@ EXCEPT !.pc = "failed", !.enabled = FALSE,
                           !.regions = FALSE]]
           /\ oops' = ~Live(o)
           /\ UNCHANGED <<heap, nodes>>
  /\ UNCHANGED <<module, class, chrdev, priv, file, crossed>>

\* fail2 of host_probe(): kfree(priv[i]), and priv[i] keeps the address.
ProbeFails(c) ==
  /\ card[c].pc = "failed"
  /\ LET o == priv[card[c].slot] IN
       /\ heap' = [p \in Objects |-> IF p = o THEN Free ELSE heap[p]]
       /\ oops' = (o # NULL /\ ~Live(o))
  /\ card' = [card EXCEPT ![c] =
                [@ EXCEPT !.pc = "unbound", !.slot = NULL, !.drvdata = NULL]]
  /\ UNCHANGED <<module, class, chrdev, priv, nodes, file, quiet, crossed>>

-----------------------------------------------------------------------------
(* host_remove().                                                          *)

MayRemove == (Rebinds /\ module = "live") \/ module \in {"exit", "undo"}

\* host_board_cleanup(): only the first mapping is unmapped.
BoardCleanup(c) ==
  /\ card[c].pc = "bound" /\ MayRemove
  /\ quiet' = (quiet /\ module # "live")
  /\ LET o == card[c].drvdata IN
       IF ~Live(o)
         THEN oops' = TRUE /\ UNCHANGED <<card, nodes>>
         ELSE /\ nodes' = nodes \ {heap[o].minor}
              /\ card' = [Unmapped(o) EXCEPT ![c] =
                   [@ EXCEPT !.pc = "removing",
                             !.enabled = FALSE, !.regions = FALSE]]
              /\ UNCHANGED oops
  /\ UNCHANGED <<module, class, chrdev, priv, heap, file, crossed>>

\* kfree(), and priv[] keeps the address here too.  A mapping that is left
\* can no longer be found.
FreePriv(c) ==
  /\ card[c].pc = "removing"
  /\ heap' = [heap EXCEPT ![card[c].drvdata] = Free]
  /\ oops' = ~Live(card[c].drvdata)
  /\ card' = [card EXCEPT ![c] =
                [@ EXCEPT !.pc = "unbound", !.slot = NULL, !.drvdata = NULL,
                          !.maps = {},
                          !.leaked = card[c].leaked \/ card[c].maps # {}]]
  /\ UNCHANGED <<module, class, chrdev, priv, nodes, file, quiet, crossed>>

-----------------------------------------------------------------------------
(* The file operations.                                                    *)

\* Bug: the slot is not checked.
HostOpenUnchecked(f) ==
  /\ file[f] = Closed
  /\ chrdev /\ module = "live"
  /\ \E i \in Slots : file' = [file EXCEPT ![f] = priv[i]]
  /\ UNCHANGED <<module, class, chrdev, priv, heap, card, nodes, oops, quiet,
                 crossed>>

\* Any minor may be opened: install.sh makes a node by hand.
HostOpen(f) ==
  /\ file[f] = Closed
  /\ chrdev /\ module = "live"
  /\ \E i \in Slots :
       /\ priv[i] # NULL
       /\ file' = [file EXCEPT ![f] = priv[i]]
  /\ UNCHANGED <<module, class, chrdev, priv, heap, card, nodes, oops, quiet,
                 crossed>>

HostRelease(f) ==
  /\ file[f] # Closed
  /\ file' = [file EXCEPT ![f] = Closed]
  /\ UNCHANGED <<module, class, chrdev, priv, heap, card, nodes, oops, quiet,
                 crossed>>

Usable(o) ==
  /\ Live(o) /\ heap[o].reg # NULL
  /\ "m_immrbar" \in card[heap[o].reg].maps

\* host_ioctl() goes through private_data to the mapped registers.
HostIoctl(f) ==
  /\ file[f] # Closed
  /\ oops' = ~Usable(file[f])
  /\ UNCHANGED <<module, class, chrdev, priv, heap, card, nodes, file, quiet,
                 crossed>>

\* host_mmap() takes the physical address from private_data; the mapping then
\* holds the file, so that HostRelease is the last close() or munmap().
HostMmap(f) ==
  /\ file[f] # Closed
  /\ oops' = ~Live(file[f])
  /\ UNCHANGED <<module, class, chrdev, priv, heap, card, nodes, file, quiet,
                 crossed>>

-----------------------------------------------------------------------------

Load    == Insmod \/ RegisterChrdev \/ Rmmod \/ Unregister
Probe(c) == Scan(c) \/ Kmalloc(c) \/ Adopt(c) \/ BoardInit(c) \/ Publish(c)
              \/ ProbeFails(c)
Remove(c) == BoardCleanup(c) \/ FreePriv(c)
User(f)   == HostOpen(f) \/ HostRelease(f) \/ HostIoctl(f) \/ HostMmap(f)

\* After an oops nothing more is said of the system.
Next ==
  /\ ~oops
  /\ \/ Load
     \/ \E c \in Cards : Probe(c) \/ Remove(c)
     \/ \E f \in Files : User(f)

Spec == Init /\ [][Next]_vars
-----------------------------------------------------------------------------
(* What the driver promises.                                               *)

Bound(c) == card[c].pc = "bound"

\* Two cards may be probed at once.  What the driver promises holds as long as
\* no probe searches priv[] between another's search and its filling of the
\* slot: every other interleaving of probes, removals and calls is harmless.

\* While every call succeeds and the cards stay, no order of loading,
\* probing, opening, reading, closing and unloading uses freed, unmapped or
\* unregistered memory.
NoOops == quiet /\ ~crossed => ~oops

\* A card's minor is its own, from the choice of the slot on, however many
\* cards come, fail and go.
EachCardItsNode ==
  ~crossed =>
    \A c, d \in Cards :
      c # d /\ card[c].slot # NULL => card[c].slot # card[d].slot

\* When a card has no driver, nothing is held for it: whichever step of the
\* probe failed, the device is disabled and its regions are released.
ReleasedWhenUnbound ==
  ~crossed =>
    \A c \in Cards : card[c].pc \in Unbound =>
      ~card[c].enabled /\ ~card[c].regions /\ card[c].maps = {}

\* A node the driver made leads to a card that is there: opening it gives
\* that card's object, with its registers mapped.
NodesLeadToCards ==
  ~crossed =>
    \A i \in nodes : \E c \in Cards :
      /\ Bound(c) /\ card[c].slot = i
      /\ priv[i] = card[c].drvdata /\ Usable(priv[i])
=============================================================================
