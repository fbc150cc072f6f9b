CONSTANTS
    p = p
    q = q
    Conns = {1, 2}
    Passwords = {p, q}
    FirstPasswords <- OneOrNone
    MaxSlots = 2
    MaxAttempts = 2
    MaxReconnects = 1
    MaxEvents = 4
    None = None
SPECIFICATION Spec
INVARIANTS TypeOK IdeIsLive PromptIsLive OneSelf RoleShown RequestPending SlotsCounted
PROPERTY Settles
CHECK_DEADLOCK FALSE
