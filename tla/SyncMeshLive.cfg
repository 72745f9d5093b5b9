SPECIFICATION FairSpec
CONSTANTS
    Devices = {1, 2}
    s1 = s1
    v1 = v1
    o1 = o1
    Suggestions = {s1}
    Overrides = {}
    ServerKeys = {}
    Marks = {3}
    NoRow = NoRow
    NoTomb = NoTomb
    NoSet = NoSet
    MaxStamp = 2
    MaxWrites = 2
    MaxDeletes = 1
    MaxRestarts = 1
    MaxActive = 1
 
PROPERTIES  Converges
