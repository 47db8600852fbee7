SPECIFICATION Spec
CONSTANTS
  a1 = a1  a2 = a2  a3 = a3  b1 = b1  n1 = n1  n2 = n2  q1 = q1  q2 = q2
  ta = ta  tb = tb  tc = tc  p1 = p1  NoPeer = NoPeer
  Envelope = {a1, a2, b1}
  Slot <- Slots
  Sender <- Senders
  QSetHash <- QSets
  TxSetHashes <- SharedTxSets
  QItem = {q1, q2}
  TItem = {ta, tb, tc}
  Sane = {q1}
  Proposed = {tb}
  Peer = {p1}
  Refusals <- OneRefusal
  Quorums <- Members
  MaxSlots = 1
  MaxSlot = 3
INVARIANTS StillAsked
