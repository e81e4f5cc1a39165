CONSTANTS
    MaxHeight = 3
    AlertCap = 2
    MinuteSkips = TRUE
    NoSPR = NoSPR
SPECIFICATION Spec
INVARIANT TemplateCurrent
