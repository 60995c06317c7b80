\* A server is restarted while a call is under way.
SPECIFICATION Spec
CONSTANTS
    N = 3
    Calls = {c1}
    MaxInstances = 2
    MaxReplaced = 1
    Nil = Nil
INVARIANT PositiveReplyPersisted
PROPERTY OldInstanceCannotSend
