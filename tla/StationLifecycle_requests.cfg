SPECIFICATION Spec
CONSTANTS
    Stations = {s1}
    Enrollment = {t1, t2}
    Provisioning = {p1}
    Requests = {r1, r2}
    None = None
SYMMETRY Symmetry
INVARIANT TokenBuysOneCredential
 
 
CHECK_DEADLOCK FALSE
