SPECIFICATION Spec
CONSTANTS
    a1 = a1
    p1 = p1
    BounceBox = BounceBox
    NoPk = NoPk
    Accounts = {a1}
    Pks = {p1}
    Mails <- MCMails
    Via = {"command"}
    Deployments <- MCDeployments
    MaxArrivals = 2
    MaxValidity = 1
    MaxTroubles = 0
INVARIANTS EventsFindTheirMessage
CHECK_DEADLOCK FALSE
