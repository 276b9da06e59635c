\* Two turns of one conversation, two helpers or daemons, up to three tabs.
SPECIFICATION HostSpec
CONSTANTS
    a = a
    b = b
    k = k
    Traces = {a, b}
    Helpers = {h1, h2}
    TabIds = {i1, i2, i3}
    MaxTabs = 3
    ManualTraces = {a, b}
    Owners = {h1, h2}
    ManualTabIds = {i1, i2}
    Nothing = none
    keyOf <- KeyOf
    None = none
INVARIANTS
    TabsHold
    ManualTabsHold
PROPERTIES
    LeasesHold
SYMMETRY Sym
CHECK_DEADLOCK FALSE
