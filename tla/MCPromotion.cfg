SPECIFICATION TrialSpec
CONSTANTS
    Plans = {p1}
    Occasions = {o1, o2}
    Agents = {a1, a2}
    Certifiers = {c1}
    Gates = {g1}
    MaxRows = 2
    MaxCerts = 2
INVARIANTS CertificateSound NothingPending
 
