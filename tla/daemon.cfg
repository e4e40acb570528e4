\* Requests, a session, a callback and a stop in every order, a thread for each editor.
SPECIFICATION FairSpec
CONSTANTS
    Submitters = {u1}
    Admins = {}
    Ticks = {t1}
    Subs = {b1}
    Main = Main
    None = None
    NWorkers = 2
INVARIANTS
    NoEditAfterClose
    ClosedOnce
    StoppedIsQuiet
PROPERTIES
    StopCompletes
CHECK_DEADLOCK FALSE
