SPECIFICATION Spec
CONSTANTS
    Categories = {"app", "sys", "tmp"}
    ValidCategories = {"app", "sys"}
    Names = {"p", "q"}
    Versions = {1, 2}
    README = README
    Junk = {README}
    Matchings <- MCMatchings
    Disks <- MCDisks
    VdbPath = VdbPath
    Closed <- MCClosed
    Absent = Absent
    PlainFile = PlainFile
    Unread = Unread
    MaxChanges = 2
INVARIANTS
    CacheIsARead
    UndisturbedAnswer
PROPERTIES
    AnswersFromOneRead
CHECK_DEADLOCK FALSE
