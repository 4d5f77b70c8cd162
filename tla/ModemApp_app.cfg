\* Both SIM settings, every PDP type, one L1 restart, GRR asking for
\* synchronisation twice and three published SIM signals of a one-entry file table.
CONSTANTS
  SimTypes = {"NONE", "CARD"}
  PdpTypes = {"IPV4", "IPV6", "IPV4V6"}
  Versions <- MCVersions
  MaxRestarts = 1
  MaxSyncCalls = 2
  MaxSignals = 3
  SimFiles <- MCSimFiles
  SimMandatory <- MCSimMandatory
SPECIFICATION Spec
INVARIANT TypeOK
INVARIANT AttachTracksGmm
INVARIANT AttachingHasSim
CHECK_DEADLOCK FALSE
