SPECIFICATION FairSpec
CONSTANTS
    a1 = a1
    p1 = p1
    BounceBox = BounceBox
    NoPk = NoPk
    Accounts = {a1}
    Pks = {p1}
    Mails <- MCMails
    Via = {"command", "header"}
    Deployments <- MCDeployments
    MaxArrivals = 2
    MaxValidity = 2
    MaxTroubles = 1
INVARIANTS TypeOK NothingSkipped DeclassifiedIsReported
PROPERTIES ImplementsIntake TimeoutOnlyIfUnanswered EveryMailRecorded
CHECK_DEADLOCK FALSE
