SPECIFICATION Spec
CONSTANTS
    r1 = r1
    r2 = r2
    n1 = n1
    Reqs = {r1, r2}
    Names = {n1}
    NoReq = NoReq
    MaxRev = 1
INVARIANT FallbackWorks
CHECK_DEADLOCK FALSE
