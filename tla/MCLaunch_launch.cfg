SPECIFICATION LiveSpec
CONSTANTS
    Agent = "agent"
    Terminal = {"t1", "t2"}
    Onboarding = {"o1", "o2"}
    GracePolls = 1
    AnswerPolls = 1
    MaxStarts = 2
    MaxEnds = 2
    None = None
PROPERTIES
    LookedMeansKeptOff
    DaemonComesUp
CHECK_DEADLOCK FALSE
