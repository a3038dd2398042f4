CONSTANTS
    Clients = {c1}
    Types = {wifi, mobile}
    Tacs = {t1}
    Screens = {on}
    Locks = {all}
    MaxEvents = 2
    MaxCalls = 2
    MaxAsks = 3
    MaxQueue = 2
SPECIFICATION Spec
INVARIANTS SubscriptionsAgree ReportsAgree EverybodyTold
SYMMETRY TypeSymmetry
CHECK_DEADLOCK FALSE
