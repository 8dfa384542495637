SPECIFICATION FairSpec
CONSTANTS
    p1 = p1
    p2 = p2
    p3 = p3
    Workers = {p1, p2, p3}
    Kinds = {"hiddify", "connectix", "other"}
    MaxDeliveries = 4
CHECK_DEADLOCK FALSE
INVARIANTS AtMostOneAccount  RetryIsSafe
PROPERTIES RunsAreSettled ServedIsCompleted CompletedIsFinal
