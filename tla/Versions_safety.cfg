SPECIFICATION Spec
CONSTANTS
    Kpis = {kpi}
    Templates = {form}
    Frameworks = {framework}
    NoCode = NoCode
    MaxVersion = 3
    Sessions = {s1, s2}
PROPERTIES
    ImplementsRegister
    PublishedOverWhatWasRead
