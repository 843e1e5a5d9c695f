SPECIFICATION Spec
CONSTANTS
    Keys = {k1, k2}
    Ids = {i1, i2}
    Certs = {c1, c2, c3}
    Workers = {w1, w2}
    KeyTTL = 1
    ActivationTTL = 1
    CertTTL = 2
    Overlap = 1
    MaxTime = 3
SYMMETRY Symmetry
INVARIANTS
    SingleUse
    OneCurrentCertificate
    RevokedIsInert
PROPERTIES
    LastAdminKept
CHECK_DEADLOCK FALSE
