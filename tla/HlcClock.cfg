SPECIFICATION Spec
CONSTANTS
    CtrMax = 1
    MaxWall = 3
    MaxRows = 2
    Drift = 1
INVARIANTS
    TypeOK
    FloorDominatesLocalRows
    SeededFloorCoversAnchor
PROPERTIES
    FloorOnlyRisesExceptErase
