CONSTANTS
    k1 = k1
    k2 = k2
    e1 = e1
    q1 = q1
    q2 = q2
    Keys = {k1, k2}
    EarlierKeys = {e1}
    Requests = {q1, q2}
    Limit = 1
    Stamps = {1, 2}
    MaxConversations = 3
SPECIFICATION ConversationsSpec
SYMMETRY Symmetric
INVARIANT ConversationsTypeOK
INVARIANT CreatedOnce
INVARIANT PagesComplete
CHECK_DEADLOCK FALSE
