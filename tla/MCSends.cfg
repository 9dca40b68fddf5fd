CONSTANTS
    a = a b = b k1 = k1 k2 = k2
    NoRuntime = NoRuntime
    Sends = {a, b}
    Texts = {a}
    List <- MCList
    Tries = 2
    Runtimes = {k1, k2}
    Tasks <- MCTasks
    Concurrency = 1
    MinDelay = 1
    MaxRetries = 1
    RetryDelay = 1
SPECIFICATION SendsFairSpec
INVARIANTS LimiterSound SendsSound CopiesExplained OvertakenOnlyByRetry
PROPERTIES DeathsExplained Spaced ImplementsPool SendsEnd
CHECK_DEADLOCK FALSE
