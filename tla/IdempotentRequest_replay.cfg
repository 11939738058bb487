SPECIFICATION GateSpec
CONSTANTS
    c1 = c1
    c2 = c2
    p1 = p1
    Clients <- TwoClients
    Payloads <- OnePayload
    Outcomes <- Answers
    NoOutcome = NoOutcome
    Retention = 1
    MaxHour = 1
    MaxAnswers = 2
INVARIANT ReplaysOriginal
CHECK_DEADLOCK FALSE
