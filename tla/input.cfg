\* Three keys pressed, held, repeated and released in both modes; two slots.
SPECIFICATION Spec
CONSTANTS
    k1 = k1
    k2 = k2
    k3 = k3
    Key <- Keys
    Esc = Esc
    NoKey = NoKey
    KEY_MAX = 2
    KEY_REPEAT_PERIOD = 2
    KEY_REPEAT_DELAY = 1
    MaxWaiting = 2
SYMMETRY Alike
INVARIANTS SlotsConsistent StuckOnlyIfLost PressedMeansHeld FastPressNoticed PressActs
