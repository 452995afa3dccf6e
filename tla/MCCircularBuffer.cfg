SPECIFICATION Spec
CONSTANTS
    Capacity = 3
    Elements = {e1, e2}
    NoElement = NoElement
    Producers = {p1, p2}
    Consumer = main
    NoTask = NoTask
SYMMETRY Alike
INVARIANTS TypeOK MutexSound TailSound CheckedGetFinds
PROPERTIES IsQueue
