\* Two messages overlap in any way, in a role of the client's choice that is also the answers';
\* channels overflow, timeouts strike at any time, one statement fails.
CONSTANTS
    Msgs = {1, 2}
    Clients = {c1}
    Roles = {"assistant"}
    ChanCap = 1
    HistoryLimit = 4
    MaxDeltas = 2
    TotalDeltas = 2
    FaultBudget = 1
SPECIFICATION FairSpec
CHECK_DEADLOCK FALSE
INVARIANTS
    TypeOK
    AnswerSaved
    QuestionSent
PROPERTIES
    KeepsTranscript
    ClientCloses
