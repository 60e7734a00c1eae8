SPECIFICATION Spec
CONSTANTS
    Approvals = {}
    NativeQuestions = {}
    AsyncQuestions = {q1}
    Parking = {"archive", "pin"}
    MaxReplies = 2
    MaxIntents = 2
    Upsets = {"restart", "revert", "loss"}
    MaxUpsets = 1
INVARIANTS
    AsyncAnsweredOnce
    SettledHasNoLiveSession
    PinnedIsNotSettled
PROPERTIES
    CleanupSparesLaterTurns
