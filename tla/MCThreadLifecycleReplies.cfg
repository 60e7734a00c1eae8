SPECIFICATION Spec
CONSTANTS
    Approvals = {a1}
    NativeQuestions = {}
    Parking = {}
    AsyncQuestions = {}
    MaxReplies = 3
    MaxIntents = 2
    Upsets = {}
    MaxUpsets = 0
INVARIANTS
    SettledHidesNothing
