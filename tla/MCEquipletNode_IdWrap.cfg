CONSTANTS
  c1 = c1
  c2 = c2
  Clients <- MCClients
  ReportableStates <- MCReportableStates
  MaxRegistrations <- MCWrapRegistrations
  IntWidth <- MCWrapWidth
SPECIFICATION Spec
SYMMETRY MCSymmetry
INVARIANT
  RecordsTrackOwners
