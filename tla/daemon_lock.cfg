\* More concurrent edits than reactor threads.
SPECIFICATION FairSpec
CONSTANTS
    Submitters = {u1, u2}
    Admins = {}
    Ticks = {t1}
    Subs = {}
    Main = Main
    None = None
    NWorkers = 2
PROPERTIES
    WrittenEditEnds
CHECK_DEADLOCK FALSE
