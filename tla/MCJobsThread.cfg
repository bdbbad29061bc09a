\* A documented claim the registry does not keep.
CONSTANTS
    Job = {p, t}
    Waiter = {w1}
    Stubborn = {}
    Faulty = {}
    Threaded = {t}
SPECIFICATION Spec
INVARIANT GrantedIsCanceled
CHECK_DEADLOCK FALSE
