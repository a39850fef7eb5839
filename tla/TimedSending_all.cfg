\* Units of ten bytes: messages of 5, reads of up to 6 into 5, of which 3
\* are looked at.
SPECIFICATION FairSpec
CONSTANTS
  c1 = c1
  c2 = c2
  Clients = {c1, c2}
  MsgLen = 5
  ReadLen = 6
  BufLen = 5
  Used = 3
  NoClient = NoClient
  Modes <- AllModes
  MaxTicks <- Ticks
  Faults = {"network", "open", "socket", "fork", "bind", "address", "client", "server"}
INVARIANTS TypeOK WireConsecutive ReferenceNotAhead ReadingsOnWire HeardSinceDrained Attended
PROPERTIES ImplementsStream StreamsDrained EndsNoticed
\* The number of ticks is bounded.
CHECK_DEADLOCK FALSE
