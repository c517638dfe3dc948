CONSTANTS
    c1 = c1
    q1 = q1
    q2 = q2
    q3 = q3
    r1 = r1
    r2 = r2
    east = east
    west = west
    Conversations = {c1}
    Guest = Guest
    User = User
    Requests = {q1, q3, r1}
    Retries = {r1}
    ConversationOf <- MCConversationOf
    KeyOf <- MCKeyOf
    Replicas = {west}
    ReplicaOf <- MCReplicaOf
    NoRequest = NoRequest
    MaxChunks = 1
    MaxDisturbances = 1
SPECIFICATION Spec
INVARIANT TypeOK
INVARIANT OneAtATime
INVARIANT StateHonest
INVARIANT Settled
INVARIANT RetryContinues
CONSTRAINT Bounded
SYMMETRY Symmetry
CHECK_DEADLOCK FALSE
