SPECIFICATION FairSpec
CONSTANTS
    Callers = {tester, a, b}
    Tester = tester
    Conns = {x, y}
    NoConn = NoConn
    NoCaller = NoCaller
    MaxCalls = 6
INVARIANT NoReservationLost
PROPERTY StatementsOnHeldConnections
PROPERTY OneConnectionPerTransaction
PROPERTY CallsReturn
CHECK_DEADLOCK FALSE
