CONSTANTS
    a1 = a1
    a2 = a2
    a3 = a3
    jabber = jabber
    u1 = u1
    u2 = u2
    u3 = u3
    c1 = c1
    c2 = c2
    none = none
    Accounts <- MCAccounts
    Proto <- MCProto
    User <- MCUser
    ChanOf <- MCChanOf
    NoChan = none
    MaxSuffix = 1
    SavedStatus = {TRUE, FALSE}
SPECIFICATION Spec
INVARIANT ServersTrackConnections
