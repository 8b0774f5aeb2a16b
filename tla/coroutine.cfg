\* Two coroutines and the main thread.
SPECIFICATION Spec
CONSTANTS
    Main = Main
    Co = {c1, c2}
    Value <- Values
    Lists <- AllLists
    LUAI_MAXCCALLS = 3
    ErrorCalls = 2
    LUAI_MAXCSTACK = 8
    MaxFrames = 3
SYMMETRY Alike
INVARIANTS CallsCounted FramesConsistent
PROPERTY ImplementsCoroutines
