SPECIFICATION Spec
CONSTANTS
    Names = {a, b}
    None = None
    MaxWindows = 3
INVARIANTS TypeOK TablesAgree WindowsAreHeld MarksAreCurrent
PROPERTIES ToldWindowsEnd EndedWindowsAreForgotten
CHECK_DEADLOCK FALSE
