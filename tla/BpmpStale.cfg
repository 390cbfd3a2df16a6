CONSTANTS
    Ids = 5
    MaxTimeouts = 1
    MaxResets = 0
SPECIFICATION CallSpec
INVARIANT AnswerMatches
