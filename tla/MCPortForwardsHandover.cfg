SPECIFICATION Spec
CONSTANTS
    a = a
    b = b
    lan = lan
    wan = wan
    None = None
    Services = {a, b}
    Ports = {1, 2}
    Ips = {lan, wan}
    Gateways = {lan, wan}
    Targets = {"ta", "tb"}
    Counts = {1, 2}
    Nets <- MCNets
    Reqs = {1, 2}
    Requirement <- MCRequirement
    SecureGateways = {lan}
    Specs <- MCSpecs
    Rcs = {1, 2, 3, 4, 5}
    MaxChanges = 3
    MaxFailures = 0
    MaxRestarts = 0
CHECK_DEADLOCK FALSE
INVARIANT LeaseKnown
