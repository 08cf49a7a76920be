SPECIFICATION Spec
CONSTANTS
    NTickets = 3
    Done = {1, 3}
    LABELS <- MCLabels
    MILESTONES <- MCMilestones
    LabelsOf <- MCLabelsOf
    MilestoneOf <- MCMilestoneOf
    ListLimit = 4
    MaxIssues = 5
    MaxFailures = 3
    lShared = lShared
    lOwn = lOwn
    mOne = mOne
CHECK_DEADLOCK FALSE
INVARIANTS
    TypeOK
    OneIssuePerTicket
    CompletedRunSeedsAll
    FailedRunsLeaveOneOpen
