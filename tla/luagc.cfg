\* Four objects; two values on the stack.
SPECIFICATION Spec
CONSTANTS
    a1 = a1
    a2 = a2
    a3 = a3
    a4 = a4
    Addr <- Addrs
    Main = Main
    Nil = Nil
    Num = Num
    Programs <- AllPrograms
    MaxHeld = 2
CHECK_DEADLOCK FALSE
INVARIANTS ListsConsistent NoDangling NoBlackToWhite GarbageCollected FinalizedOnce
