\* Five snapshots that grow, shrink, replace a row, change a quote, the table or
\* the minute; four requests and one restart of the worker.
SPECIFICATION Spec
CONSTANTS
    rowA = rowA
    rowB = rowB
    q1 = q1
    q2 = q2
    t1 = t1
    t2 = t2
    none = none
    Snapshots <- AllSnapshots
    Rows = {rowA, rowB}
    Quotes = {q1, q2}
    Tables = {t1, t2}
    Minutes = {1, 2}
    None = none
    MaxRestarts = 1
    MaxRequests = 4
INVARIANTS TypeOK AnswerFitsSnapshot MirrorsAgree DifferencesApply QueueNeverFull ReadyIsThisWorker
PROPERTIES EveryRequestAnswered
CHECK_DEADLOCK FALSE
