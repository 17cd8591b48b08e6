CONSTANTS
    s1 = s1
    s2 = s2
    NoServer = NoServer
    Servers <- MCServers
    DefaultServer = s1
    MaxDevices = 3
    MaxStarts = 3
SPECIFICATION LiveSpec
CHECK_DEADLOCK FALSE
INVARIANTS TypeOK FlagCoversWork RegistrationsRemembered
PROPERTIES RegistersWhereClicked ClicksAndQuitsEnd
