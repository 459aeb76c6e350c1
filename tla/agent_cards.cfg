\* Two runs that fetch the cards of one agent while it moves.
SPECIFICATION Spec
CONSTANTS
    r1 = r1
    r2 = r2
    e1 = e1
    e2 = e2
    c1 = c1
    c2 = c2
    Runs <- TwoRuns
    Agents <- OneAgent
    Events <- TwoEvents
    Agent <- AgentOf
    Uri <- UriOf
    Block <- BlockOf
    Fetchable <- Both
    Cards <- TwoCards
    MaxRedirects = 1
    ChurnWindow = 1
    ChurnThreshold = 2
    NewbornAge = 1
    MaxTime = 2
    MaxStarts = 3
PROPERTIES
    ChurnIsReal
    NewbornGrowsUp
    RunsEnd
CHECK_DEADLOCK FALSE
