SPECIFICATION Spec
CONSTANTS
    Entity = {e}
    Content = {c, d}
    Sub = {s}
    Interests = {{c, d}, {d}}
    MaxRequests = 3
INVARIANTS
    TypeOK
    NoMissedRegistration
PROPERTIES
    ImplementsChannel
    EventuallyInformed
CHECK_DEADLOCK FALSE
