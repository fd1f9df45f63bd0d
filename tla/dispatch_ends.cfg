SPECIFICATION FairDispatch
CONSTANTS
    m1 = m1
    m2 = m2
    m3 = m3
    chat = chat
    alice = alice
    NoMessage = NoMessage
    Messages = {m1, m2}
    Conversations = {chat}
    Scopes = {alice}
    ConversationOf <- OneChat
    ScopeOf <- OneSender
    Interruptible = {m1, m2}
    MaxInFlight = 2
    GatewayHoldsSender = FALSE
PROPERTIES
    ShutdownStops
    EveryMessageSettles
