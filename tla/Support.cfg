CONSTANTS
  Client = c
  Admins = {a1, a2}
  ConversationIds = {1, 2}
  MessageIds = {1}
  Requests = {1, 2}
  Conflicts <- OneClaimOneCreate
  NULL = NULL
SPECIFICATION FairSpec
INVARIANTS ClosedIsUnassigned OneConversation
PROPERTIES AdminKeepsConversation SilentConversationsClose MessagesAreNotified
