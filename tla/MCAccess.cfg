\* Sessions: the admin and one more user, two roles, tokens of two ticks, two
\* at a time.  Writes: two requests at a time of three, two addresses, two
\* passwords, a history of one.  Keys: two connectors, three entries, two
\* rotations.  Limiter: two requests per window of two ticks, five requests.
\* Policy: two kinds of characters, lengths and counts up to two.
CONSTANTS
    u1 = u1
    u2 = u2
    r1 = r1
    r2 = r2
    e1 = e1
    e2 = e2
    c1 = c1
    c2 = c2
    Users <- TwoUsers
    Admin = u1
    Roles <- TwoRoles
    AccessLife = 2
    MaxTokens = 2
    Requests <- TwoRequests
    Emails <- TwoEmails
    Passwords <- TwoPasswords
    HistoryCount = 1
    MaxRequests = 3
    Connectors <- TwoConnectors
    MaxEntries = 3
    MaxRotations = 2
    Limit = 2
    Window = 2
    MaxAsked = 5
    MaxLength = 2
    Flags <- TwoFlags
SPECIFICATION Spec
INVARIANTS
    TokensSound
    AccountsSound
    KeysSound
    LimiterSound
PROPERTY
    LockedOut
CHECK_DEADLOCK FALSE
