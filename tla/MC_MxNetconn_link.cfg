SPECIFICATION FairSpec
CONSTANTS
  MaxReports = 5
  PatientServer = TRUE
INVARIANT TypeOK
INVARIANT NoEventStranded
INVARIANT StationUpHasLink
PROPERTY StationUpConnects
