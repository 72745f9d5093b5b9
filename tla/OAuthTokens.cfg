SPECIFICATION FairSpec
CONSTANTS
    f1 = f1
    f2 = f2
    Flows = {f1}
    Earlier = earlier
    Loop = loop
    Getter = getter
    User = user
    w1 = w1
    Workers = {w1}
    Nobody = nobody
    NoToken = none
    MaxFailures = 2
    MaxRotations = 1
    MaxRevokes = 1
INVARIANTS
    TypeOK
    SweptNeverReturns
    ReplacedNotSent
PROPERTY RevokeEnds
CHECK_DEADLOCK FALSE
