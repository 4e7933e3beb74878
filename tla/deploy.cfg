SPECIFICATION FairSpec
CONSTANTS
    g1 = g1
    g2 = g2
    b0 = b0
    b1 = b1
    b2 = b2
    b3 = b3
    i1 = i1
    i2 = i2
    Process = {3, 4, 5}
    Job <- Jobs
    ClassGroup = ClassGroup
    DevGroup = DevGroup
    Student = Student
    Teacher = Teacher
    POSITION_NAMES <- Names
    Group = {g1, g2}
    NoGroup = NoGroup
    TargetsOf <- Targets
    Databases <- Start
INVARIANTS
    TypeOK
    NeverGuesses
    ThreadsClosedAtHead
    SeedOutcome
PROPERTIES
    EveryCommandEnds
CHECK_DEADLOCK FALSE
