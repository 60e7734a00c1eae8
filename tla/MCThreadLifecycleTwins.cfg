SPECIFICATION Spec
CONSTANTS
    Approvals = {a1}
    NativeQuestions = {}
    Parking = {}
    AsyncQuestions = {q1}
    MaxReplies = 2
    MaxIntents = 2
    Upsets = {}
    MaxUpsets = 0
INVARIANTS
    ClearShellIsSettleable
