SPECIFICATION Spec
CONSTANTS
    Kpis = {}
    Templates = {form}
    Frameworks = {}
    NoCode = NoCode
    MaxVersion = 3
    Sessions = {s1, s2}
INVARIANT DeniedMayNot
