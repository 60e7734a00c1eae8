SPECIFICATION Spec
CONSTANTS
    Approvals = {a1}
    NativeQuestions = {}
    Parking = {}
    AsyncQuestions = {q1}
    MaxReplies = 2
    MaxIntents = 2
    Upsets = {"restart"}
    MaxUpsets = 1
INVARIANTS
    SettledHidesNothing
