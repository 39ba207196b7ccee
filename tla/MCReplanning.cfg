SPECIFICATION EvaluatorSpec
CONSTANTS
    Plans <- MCPlans
    Snapshots <- MCSnapshots
    Policy <- MCPolicy
    Unknown = Unknown
INVARIANTS
    KeptPlanStillFits
PROPERTIES
    NoEndlessReplanning
    RevisionsKeepInputs
