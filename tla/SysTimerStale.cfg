\* A timer is stopped between its interrupt and the handler.
SPECIFICATION Spec
CONSTANTS
    t2 = t2
    t1 = t1
    Timers = {t1, t2}
    Intervals = {1, 3}
    Reload = {}
    May = {"posted"}
    MaxLag = 1
    MaxPosted = 2
INVARIANTS
    FirstItemExpired
