SPECIFICATION Spec
CONSTANTS
    Absences <- MCAbsences

    
PROPERTIES
    StaffOnly
    WayHome
CHECK_DEADLOCK FALSE
