\* Three processes: every shape of tree, and stops of both engines of any two of them.
CONSTANTS
    Processes = {p1, p2, p3}
    Threads = {t1}
    None = None
    MaxGeneration = 2
SPECIFICATION Spec
SYMMETRY Symmetry
CONSTRAINT ThreadsOfTwo
INVARIANTS
    LeaseOfRegistered
    ChildrenNameTheirParent
PROPERTIES
    OwnershipSpec
