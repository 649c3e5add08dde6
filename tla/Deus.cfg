CONSTANTS
    k1 = k1
    a1 = a1
    a2 = a2
    a3 = a3
    other = other
    same = same
    different = different
    Keys = {k1}
    Contents = {same, different}
    Generations = {a1, a2, a3, other}
    Attempts = {a1, a2, a3, other}
    Key <- MCKey
    Content <- MCContent
    Nobody = Nobody
SPECIFICATION DeusSpec
INVARIANTS
    DeusInvariant
CHECK_DEADLOCK FALSE
