\* One interactive run that makes two requests.
SPECIFICATION Spec
CONSTANTS
    Requests = {1, 2}
    Budget <- Troubles
INVARIANTS TypeOK AnswersAreTheirOwn SilentOnlyIfRefused
PROPERTIES NobodyIsLeftWaiting
CHECK_DEADLOCK FALSE
