SPECIFICATION LadderSpec
CONSTANTS
    N = 2
    Steps = 2
CHECK_DEADLOCK FALSE
INVARIANTS LadderTypeOK TradesOnce AnswerIsTrue
