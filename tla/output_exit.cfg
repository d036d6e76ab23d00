SPECIFICATION Spec
CONSTANTS
    stdout = stdout
    stderr = stderr
    r1 = r1
    r2 = r2
    s1 = s1
    Writer = {stdout, stderr}
    Reader = {r1, r2}
    Session = {s1}
    SessionOf <- Shared
    Until <- Untils
    Buffer = 1
    MaxReturned = 1
    MaxLines = 2
    MaxCalls = 2
CHECK_DEADLOCK FALSE
PROPERTY ExitWanted
