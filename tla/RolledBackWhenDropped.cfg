CONSTANTS
    Callers = {t1, t2}
    Databases = {d1, d2}
    NoCaller = noone
    MaxCalls = 2
SPECIFICATION SqliteSpec
INVARIANT RolledBackWhenDropped
