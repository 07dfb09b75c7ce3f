SPECIFICATION Spec
CONSTANTS
    alice = alice
    bob = bob
    Roles = {alice, bob}
    Public = Public
    Names = {1, 2, 3}
    Policies <- MCPolicies
    Clauses <- MCClauses
    Bases <- MCBases
    MaxEdits = 2
INVARIANT WideningReported
INVARIANT QuietMeansEqual
INVARIANT CounterexamplesLeak
CHECK_DEADLOCK FALSE
