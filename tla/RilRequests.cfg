CONSTANTS
    Serials = {s1}
    Vendors = {v1, v2}
    Binder = binder
    MaxClients = 2
    MaxNews = 2
SPECIFICATION FairSpec
INVARIANT HeardOnce
PROPERTIES NewCallbacksKept RequestEnds
CHECK_DEADLOCK FALSE
