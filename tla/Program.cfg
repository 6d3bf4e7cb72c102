CONSTANT CreateFails = TRUE
SPECIFICATION FairSpec
INVARIANTS ProgramInv NoThreadCutOff
PROPERTIES QuitReachesServers
CHECK_DEADLOCK FALSE
