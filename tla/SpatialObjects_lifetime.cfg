SPECIFICATION FairSpec
CONSTANTS
    Threads = {t1, t2}
    Objects = {o1, o2}
    Types = {front, rear}
    Poller = Poller
    NoOne = NoOne
INVARIANTS ReferencesCounted UsedWhileAlive
PROPERTY ReleasedStreamGoes
CHECK_DEADLOCK FALSE
