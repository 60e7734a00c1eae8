SPECIFICATION Spec
CONSTANTS
    Approvals = {a1}
    NativeQuestions = {}
    AsyncQuestions = {}
    Parking = {"snooze"}
    MaxReplies = 3
    MaxIntents = 2
    Upsets = {"roll"}
    MaxUpsets = 1
INVARIANTS
    TypeOK
    HidesOnlyForgotten
    NoRequestLost
