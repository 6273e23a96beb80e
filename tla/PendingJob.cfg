SPECIFICATION WorkspacePageSpec
CONSTANTS
    Conversations = {"a", "b", "c"}
    ProjectOf <- ThreeConversations
    FirstConversations = {"a", "c"}
    NoConversation = "none"
    MaxPageJobs = 2
    MaxPageRequests = 3
PROPERTIES PendingJobIsKept
CHECK_DEADLOCK FALSE
