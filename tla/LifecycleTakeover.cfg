\* Two starts at the same time, no other disturbance.
CONSTANTS
    Daemon = {d1, d2}
    Cli = {c1, c2}
    None = None
    MaxFaults = 0
SPECIFICATION Spec
INVARIANT
    ServerReachable
SYMMETRY
    ProcessSymmetry
