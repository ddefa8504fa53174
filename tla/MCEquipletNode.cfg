CONSTANTS
  c1 = c1
  c2 = c2
  Clients <- MCClients
  ReportableStates <- MCReportableStates
  MaxRegistrations <- MCMaxRegistrations
  IntWidth <- MCIntWidth
SPECIFICATION Spec
SYMMETRY MCSymmetry
INVARIANTS
  TypeOK
  AggregatesCurrent
  RecordsTrackOwners
  SnapshotsInRegistrationOrder
PROPERTY
  ImplementsRegistry
