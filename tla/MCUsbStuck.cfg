SPECIFICATION Spec
CONSTANTS
    EventRingTrbs = 4
    InterruptRingUsable = 2
    UsbKey = {1, 2}
    UsbModifier = {1}
    UsbButton = {3}
    BadReports = TRUE
PROPERTY Rearmed
