SPECIFICATION Spec
CONSTANTS
    Candidates = 2
    r1 = r1
    r2 = r2
    Receipts = {r1, r2}
    Producer = producer
    SizeOf <- MCSizeOf
    MaxItems = 2
    MaxBytes = 2
    MaxBatch = 2
    Wrap = 64
    MaxFaults = 1
    MaxRestarts = 1
INVARIANT NoUnderflow
