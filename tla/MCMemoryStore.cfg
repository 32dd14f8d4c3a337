\* Two processes, three topics for two places, a change by the user, a fault, an expiry.
CONSTANTS
    Process <- MCProcess
    Caller <- MCCaller
    ProcessOf <- MCProcessOf
    Extractor <- MCExtractor
    Topic = {t1, t2, t3}
    Content = {c1, c2, c3}
    Temporary = {c1, c2, c3}
    Nothing = Nothing
    MaxFiles = 3
    Limits <- MCLimits
SPECIFICATION Spec
SYMMETRY TopicsAndContents
INVARIANTS
    IndexAgrees
    AgentsKeepTheStoreValid
    CleanCheckIsTrue
PROPERTIES
    EditsKeepOthersWork
CHECK_DEADLOCK FALSE
