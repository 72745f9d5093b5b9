SPECIFICATION Spec
CONSTANTS
    Devices = {1, 2}
    s1 = s1
    v1 = v1
    o1 = o1
    Suggestions = {s1, v1}
    Overrides = {o1}
    ServerKeys = {v1}
    Marks = {3}
    NoRow = NoRow
    NoTomb = NoTomb
    NoSet = NoSet
    MaxStamp = 2
    MaxWrites = 3
    MaxDeletes = 1
    MaxRestarts = 0
    MaxActive = 1
INVARIANTS TypeOK TombstoneExcludesRow DeletedOverrideIsOlder
PROPERTIES StatusKept
