CONSTANTS
  node = node
  monitor = monitor
  m1 = m1
  m2 = m2
  m3 = m3
  Subs <- MCSubs
  NodeSubs <- MCNodeSubs
  SubOp <- MCSubOp
  SubDocs <- MCSubDocs
  Msgs <- MCMsgs
SPECIFICATION Spec
CHECK_DEADLOCK FALSE
INVARIANT
  RemovedWereProcessed
