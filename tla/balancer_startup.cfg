\* No call fails, the process is not restarted and no initial account is asked for:
\* only registerSelf, for accounts of an earlier start, calls a service node.
SPECIFICATION FairSpec
CONSTANTS
    MaxNodes = 2
    InitialKey = FALSE
    MaxFaults = 0
PROPERTIES
    StartupExposesApi
