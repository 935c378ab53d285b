\* One host of each kind, two sets of fleet variables, two orders of variables.
CONSTANTS
    Inputs <- MCInputs
    Orders <- MCOrders
    Clash <- Union

SPECIFICATION Spec

INVARIANTS
    Layered
    AllLifted
    TpmFound

PROPERTY
    Resolved
