SPECIFICATION Spec
CONSTANTS
    Jobs = {j1, j2}
    Requests <- MCRequests
    NoRequest = NoRequest
INVARIANTS TypeOK OrdersAccounted ReducesAsPlanned
PROPERTY CancelledSendsNothing
CHECK_DEADLOCK FALSE
