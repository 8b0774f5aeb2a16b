\* A coroutine that returns more values than fit in the frame of resume().
SPECIFICATION Spec
CONSTANTS
    Main = Main
    Co = {c1}
    Value <- Values
    Lists <- ManyResults
    LUAI_MAXCCALLS = 3
    ErrorCalls = 2
    LUAI_MAXCSTACK = 4
    MaxFrames = 3
PROPERTY DeadWhenFinished
