CONSTANTS
    p1 = p1  p2 = p2
    Proc = {p1, p2}
    Block = {1, 2, 3, 4}
    NBUF = 3
    Data = {0, 1}
    InitialData = 0
    None = None
    WriteBlock = {2}
    Load <- MCLoad
SPECIFICATION FairSpec
INVARIANTS SleepersHaveWaker ShortOnlyWhenAllTaken
PROPERTIES ImplementsRegisters RequestsAnswered
