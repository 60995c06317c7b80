\* A call on a server that is replaced once.  Calls do not influence each other.
SPECIFICATION FairSpec
CONSTANTS
    End = {e1}
    Server = {s1}
    Calls = {c1}
    MaxInstances = 2
    Nil = Nil
INVARIANT TrueRepliesAreLive
PROPERTY CallReturns
PROPERTY HandlersEnd
