\* Every interleaving the code leaves open, but no message lost.
SPECIFICATION Spec
CONSTANTS
    t3 = t3
    t2 = t2
    t1 = t1
    Timers = {t1, t2, t3}
    Intervals = {1, 3}
    Reload = {t1}
    May = {"posted", "callback", "inside", "zero"}
    MaxLag = 1
    MaxPosted = 2
INVARIANTS
    TypeOK
    AlwaysArmed
    NeverLate
