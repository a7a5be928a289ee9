SPECIFICATION Spec
CONSTANTS
    Configs <- MCConfigs
    Requests <- MCRequests
    WaitStatuses <- MCWaitStatuses
    Protocol = 2
INVARIANTS SingleAnswer ExecPermitted NulOnlyOnStdin 
