\* Nothing fails, or anything, and cards that come and go, probed in parallel.
SPECIFICATION Spec
CONSTANTS
  Cards = {c1, c2}
  Slots = {0, 1, 2}
  Objects = {o1, o2}
  Files = {f1, f2}
  NULL = NULL
  Faults <- AllFaults
  Rebinds = TRUE
SYMMETRY Interchangeable
INVARIANTS TypeOK NoOops EachCardItsNode ReleasedWhenUnbound NodesLeadToCards
\* An oops is the end.
CHECK_DEADLOCK FALSE
