SPECIFICATION Spec
CONSTANTS
    Calls = {c1, c2, c3}
    Emails = {a, b}
    Identities = {google}
    Passwords = {secret}
    NoIdentity = NoIdentity
    NoPassword = NoPassword
    NoUser = NoUser
    Blank = Blank
    Null = Null
    OtpTTL = 1
    MaxTime = 2
    MaxFailures = 1
SYMMETRY CallAndAddressSymmetry
CHECK_DEADLOCK FALSE
INVARIANTS
    TypeOK
    AcceptedCodeIsCurrent
    RefusedCodeHasReason
    SharedIdentityOnlyByOverlap
    RefusedLoginHasReason
