CONSTANTS
    Updater = updater
    Invalid = invalid
    Missing = missing
    NoOne = noone
    Paths = {path}
    PathOf <- OnePath
    Handles = {h1, h2}
    Watched = {h1}
    Forcers = {f}
    Valid = {a, b}
    Initial = {a}
    MaxWrites = 2
SPECIFICATION FairSpec
INVARIANTS
    TypeOK
    StoreConsistent
PROPERTIES
    NeverGoesBack
    StaysFresh
