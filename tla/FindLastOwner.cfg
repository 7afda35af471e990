SPECIFICATION Spec
CONSTANTS
    Accounts = {acct}
    AppleAccounts = {acct}
    Emails = {e1, e2}
    Challenges = {ch1}
    Sessions = {s1, s2}
    Requests = {r1}
    MaxAttempts = 1
CHECK_DEADLOCK FALSE
PROPERTIES
    OwnerRemains
