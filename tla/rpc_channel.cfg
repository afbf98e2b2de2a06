SPECIFICATION FairSpec
CONSTANTS
    Mailboxes = {m1}
    MaxCalls = 2
    None = None
INVARIANTS ChannelSound AnswersOwnCall
PROPERTIES KeepsPromise ChannelSettles
CHECK_DEADLOCK FALSE
