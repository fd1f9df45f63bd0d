SPECIFICATION ApprovalsSpec
CONSTANTS
    r1 = r1
    r2 = r2
    a1 = a1
    a2 = a2
    chatA = chatA
    chatB = chatB
    git = git
    NoChat = NoChat
    Requests = {r1, r2}
    Replies = {a1, a2}
    Names = {git}
    Chats = {chatA, chatB}
    NameOf <- OneName
    ChatOf <- TwoChats
    ScopeOf <- NoScope
    HasDeadline = TRUE
    ToolQueue = TRUE
CHECK_DEADLOCK FALSE
INVARIANTS
    OnlyFirstResolverWins
    NoPhantomRequests
    ToolRepliesStayInTheirChat
