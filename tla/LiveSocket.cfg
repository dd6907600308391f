SPECIFICATION Spec
CONSTANTS
    Processes = {"one", "two"}
    Releases = {16}
    Inodes = {1, 2, 3}
    None = None
PROPERTIES
    LiveSocketKept
CHECK_DEADLOCK FALSE
