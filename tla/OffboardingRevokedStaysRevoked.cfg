CONSTANTS
    Departments <- MCDepartments
SPECIFICATION Spec
CHECK_DEADLOCK FALSE
PROPERTIES
    RevokedStaysRevoked
