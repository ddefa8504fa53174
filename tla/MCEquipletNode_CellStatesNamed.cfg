CONSTANTS
  c1 = c1
  c2 = c2
  Clients <- MCClients
  ReportableStates <- MCOutOfRangeStates
  MaxRegistrations <- MCMaxRegistrations
  IntWidth <- MCIntWidth
SPECIFICATION Spec
SYMMETRY MCSymmetry
INVARIANT
  CellStatesNamed
