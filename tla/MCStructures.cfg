SPECIFICATION Spec
INVARIANTS
    EncodingsFaithful
    SharedUseSound
PROPERTY
    ImplementsOrderedMap
CHECK_DEADLOCK FALSE
