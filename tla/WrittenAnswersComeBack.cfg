\* Two pairs, two timer objects; start-up without errors, several sessions.
SPECIFICATION Spec
CONSTANTS
    Pairs = {p1, p2}
    Timers = {t1, t2}
    NoTimer = NoTimer
    MaxPosted = 2
    StartupErrors = FALSE
PROPERTY WrittenAnswersComeBack
