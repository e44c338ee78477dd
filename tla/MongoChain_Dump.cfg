CONSTANTS
    c1 = c1
    c2 = c2
    Colls <- MCColls
    PerSecond = 2
    MaxLog = 4
    MaxMongoBackups = 3
SYMMETRY CollsSymmetry
SPECIFICATION MongoSpec
INVARIANTS DumpWindowCovered
\* The server stops writing and the destination is full: the bounds end the run.
CHECK_DEADLOCK FALSE
