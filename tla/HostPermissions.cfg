\* Two pairs, two timer objects, start-up with and without errors.
SPECIFICATION FairSpec
CONSTANTS
    Pairs = {p1, p2}
    Timers = {t1, t2}
    NoTimer = NoTimer
    MaxPosted = 2
    StartupErrors = TRUE
INVARIANTS
    TypeOK
    UnsavedHasTimer
    NothingBelievedSavedIsLost
PROPERTIES
    AnswersNeverWeaken
    WritesKeepStoredAnswers
    ImplementsStore
    SavedEventually
