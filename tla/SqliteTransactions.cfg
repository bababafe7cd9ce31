CONSTANTS
    Callers = {t1, t2, t3}
    Databases = {d1, d2}
    NoCaller = noone
    MaxCalls = 1
SPECIFICATION SqliteFairSpec
INVARIANTS
    GuardsSound
    TransactionsClosed
PROPERTY Served
