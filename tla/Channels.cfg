SPECIFICATION OneCommandSpec
CONSTANTS
    m1 = m1
    m2 = m2
    Message <- Messages
    Conversation = {c1}
    ConversationOf <- OneConversation
    MaxConcurrency = 2
    MaxDeliveries = 3
    MaxFaults = 2
ACTION_CONSTRAINT InOrder
ACTION_CONSTRAINT SecondFailureEnds
INVARIANT DedupeOK
INVARIANT RegistryOK
INVARIANT OneThreadPerChat
PROPERTY AnsweredUnlessSilenced
CHECK_DEADLOCK FALSE
