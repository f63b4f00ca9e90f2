SPECIFICATION FairSpec
CONSTANTS
    ComOptions <- QemuOnly
    SutComs = {"qemu"}
    ShCmds = {}  ShFetches = {}  ShMaxSessions = 0
    SsCmds = {}  SsProbes = {}  SsServerMax = 1  SsDefaultMax = 2  SsMaxConns = 0
    QmDirs = {"d1"}  QmMaxCalls = 2
    LtCmds = {}  LtProbes = {}  LtSlots = 1  LtMaxConns = 0  LtLoads <- NoLtLoads
PROPERTIES QemuFailedLoginReturns
CHECK_DEADLOCK FALSE
