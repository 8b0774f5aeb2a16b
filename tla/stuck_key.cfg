\* A key whose release play mode took; two keys and one SDL does not know, two slots.
SPECIFICATION Spec
CONSTANTS
    k1 = k1
    k2 = k2
    k3 = k3
    Key <- KeysAndUnknown
    Esc = Esc
    NoKey = NoKey
    KEY_MAX = 2
    KEY_REPEAT_PERIOD = 2
    KEY_REPEAT_DELAY = 1
    MaxWaiting = 2
INVARIANT CurrentlyPressed
