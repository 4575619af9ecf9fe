\* A process and the legacy namespace share four ids, two of which CodeLLDB
\* may use as well: ids run out, collide and are searched past.
CONSTANTS
    Processes = {p1}
    Threads = {t1, t2}
    Keys = {k1}
    NativeIds = {2, 3}
    None = None
    MaxId = 4
    MaxEpoch = 1
SPECIFICATION Spec
INVARIANTS
    IndicesAgree
PROPERTIES
    NeverReissued
