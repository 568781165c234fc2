SPECIFICATION Spec
CONSTANTS
    u1 = u1
    u2 = u2
    u3 = u3
    x = x
    y = y
    m1 = m1
    m2 = m2
    m3 = m3
    c1 = c1
    c2 = c2
    Uploads = {u1, u2, u3}
    Contents = {x, y}
    NoContent = NoContent
    Content <- UploadedContent
    Size <- ContentSize
    Messages = {m1, m2, m3}
    NoMessage = NoMessage
    Chats = {c1, c2}
    ChatOf <- MessageChat
    MaxStoreBytes = 3
    Limit = 3
    MaxFaults = 2
INVARIANTS
    AttachedIsKept
    SentOnce
    NoTrace
CHECK_DEADLOCK FALSE
