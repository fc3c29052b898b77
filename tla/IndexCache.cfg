SPECIFICATION Spec
CONSTANTS
    Mutation = {m1, m2, m3}
    Reader = {q1, q2, q3}
    MaxRestarts = 1
SYMMETRY Symmetry
INVARIANTS
    FreshResponse
    CacheCurrent
