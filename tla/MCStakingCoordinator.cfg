CONSTANTS
    MaxHeight = 3
    AlertCap = 2
    MinuteSkips = FALSE
    NoSPR = NoSPR
SPECIFICATION Spec
INVARIANT TemplateCurrent
PROPERTY ListenerDrained
