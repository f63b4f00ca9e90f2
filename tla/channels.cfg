SPECIFICATION FairSpec
CONSTANTS
    ComOptions <- MCComOptions
    SutComs <- MCSutComs
    ShCmds = {"c1", "c2"}  ShFetches = {"f1"}  ShMaxSessions = 2
    SsCmds = {"c1", "c2"}  SsProbes = {"c2"}  SsServerMax = 1  SsDefaultMax = 2  SsMaxConns = 2
    QmDirs = {"d1"}  QmMaxCalls = 4
    LtCmds = {"c1", "c2"}  LtProbes = {"c3"}  LtSlots = 1  LtMaxConns = 2  LtLoads <- MCLtLoads
INVARIANTS TypeOK NoOrphan SshWithinLimit SshLostIsNotOk QemuAnswers LtxOwnUnlessStray
PROPERTIES ChannelCallsEnd
CHECK_DEADLOCK FALSE
