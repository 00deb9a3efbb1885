SPECIFICATION Spec
CONSTANTS
    Tools <- MCTools
    HighRisk <- MCHighRisk
    SendTool = "send"
    DraftTool = "draft"
    Fields <- MCFields
    MaxItems = 2
    Drafts <- MCDrafts
    Approvals <- MCApprovals
INVARIANTS
    TypeOK
    PlansBeforeActing
    RiskIsApproved
    CommitsInOrder
    EveryStepAccounted
    NothingFoundNothingDone
PROPERTIES
    Terminates
    WalksThePlan
