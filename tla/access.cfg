SPECIFICATION Spec
CONSTANTS
    t1 = t1
    t2 = t2
    e1 = e1
    e2 = e2
    None = None
    Tenants = {t1, t2}
    Emails = {e1, e2}
    Requests = {r1, r2, r3}
    Standing = {t1}
    StandingEmail <- MCStandingEmail
SYMMETRY Symmetric
CHECK_DEADLOCK FALSE
INVARIANTS
    TypeOK
    AccessNeedsTenancy
    RegistrationIsWhole
    OneLinkWins
    ErasedTenancyIsGone
