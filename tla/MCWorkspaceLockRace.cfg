CONSTANTS
    Servers = {a, b}
    Recycled = {}
SPECIFICATION Spec
CHECK_DEADLOCK FALSE
PROPERTIES RepairSparesTheLiving
