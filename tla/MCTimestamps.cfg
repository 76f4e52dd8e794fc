SPECIFICATION Spec
INVARIANTS
    TimestampsMatchReference
