CONSTANTS
    Threads = {t1, t2}
    Objects = {o1, o2}
    Names = {animdone, death}
    Delays = {0, 1}
    MaxCommands = 1
SYMMETRY Symmetry
SPECIFICATION Spec
INVARIANT NoThreadForgotten OnlyLivingThreads DueIsDirty PausedScriptsWait TimeoutOfThisWait
PROPERTY TimeRunsForward
