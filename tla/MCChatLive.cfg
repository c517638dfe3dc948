CONSTANTS
    c1 = c1
    q1 = q1
    q2 = q2
    q3 = q3
    r1 = r1
    r2 = r2
    east = east
    west = west
    Conversations = {c1}
    Guest = Guest
    User = User
    Requests = {q1, r1}
    Retries = {r1}
    ConversationOf <- MCConversationOf
    KeyOf <- MCKeyOf
    Replicas = {east, west}
    ReplicaOf <- MCReplicaOf
    NoRequest = NoRequest
    MaxChunks = 1
    MaxDisturbances = 1
SPECIFICATION FairSpec
PROPERTY ConversationUnlocks
PROPERTY ImplementsLifecycle
CONSTRAINT Bounded
CHECK_DEADLOCK FALSE
