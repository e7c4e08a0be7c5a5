SPECIFICATION Spec
INVARIANTS
    UsersGoFirst
    TornDown
    DestroyedUnused
