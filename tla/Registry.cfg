SPECIFICATION RegistrySpec
CONSTANTS
    Owners = {o1, o2, o3}
    Addresses = {a1, a2, zero}
    Zero = zero
    Pairs = {p1, p2}
    Contracts = {c1, c2}
    MaxHint = 2
SYMMETRY RegistrySymmetry
INVARIANTS
    MembersRegistered
PROPERTIES
    ImplementsDirectory
