\* Two threads judging while reinsertions add one or two bytes, up to four.
CONSTANTS
    Threads = {t1, t2}
    Increments = {1, 2}
    MaxBytes = 4
SPECIFICATION Spec
INVARIANT ReinsertedBytesCharged
