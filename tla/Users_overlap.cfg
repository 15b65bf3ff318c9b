CONSTANTS
    Requests = {r1, r2, r3, r4}
    Names = {"ana", "bia"}
    NotAnEmail = "no@"
    Passwords = {"Good1", "Good2", "weak"}
    Strong = {"Good1", "Good2"}
    Commands <- CommandsOverlap
    MaxInFlight = 2
    None = None
SPECIFICATION Spec
SYMMETRY Symmetric
INVARIANTS
    OneUserPerEmail
    RegistrationsAreTrue
    LoginIsEarned
    RightPasswordGetsIn
CHECK_DEADLOCK FALSE
