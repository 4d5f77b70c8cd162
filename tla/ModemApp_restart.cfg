\* A reader card, one L1 restart, GRR asking for synchronisation once; the
\* SIM publishes nothing, so the trace holds only the start-up, the
\* synchronisation and the restart.
CONSTANTS
  SimTypes = {"CARD"}
  PdpTypes = {"IPV4V6"}
  Versions <- MCVersions
  MaxRestarts = 1
  MaxSyncCalls = 1
  MaxSignals = 0
  SimFiles <- MCSimFiles
  SimMandatory <- MCSimMandatory
SPECIFICATION Spec
PROPERTY SyncAnswered
CHECK_DEADLOCK FALSE
