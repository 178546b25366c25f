CONSTANTS
    Client = {c1, c2}
    Task = {t1, t2}
SPECIFICATION FairSpec
INVARIANTS DoneIsFinal RunningIsFound
PROPERTIES DoneIsReported AnswersAreOrdered
CHECK_DEADLOCK FALSE
