\* One connection; an error, one partial result, any verdict of the check.
SPECIFICATION FairSpec
CONSTANTS
    MaxErrors = 1
    MaxPartials = 1
    Verdicts = {"valid", "invalid", "error"}
INVARIANTS
    TypeOK
    AnswersAreSerial
    CompletedIsFinal
    AnswerBeforeClose
PROPERTIES
    ConsumerEnds
    HandlerReturns
\* One connection: the instance ends when its handler returned.
CHECK_DEADLOCK FALSE
