SPECIFICATION Spec
CONSTANTS
    p = p
    l1 = l1
    t1 = t1
    Logins = {l1, l2}
    Passwords = {p, q}
    Tokens = {t1, t2}
    SessionIds = {s1, s2}
    Timeouts = {0}
    DefaultTimeout = 1
    Unset = Unset
    Kept = Kept
    Nobody = Nobody
    Files <- CurrentFiles
SYMMETRY Sessions
INVARIANT SessionsOfThisPassword
PROPERTIES AdminRemains OffOnlyByLastDeletion
