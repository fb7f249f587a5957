SPECIFICATION ImportSpec
CONSTANTS
    a = a
    b = b
    c = c
    hcm = hcm
    hiring = hiring
    health = health
    H = H
    HS = HS
    Names = {hcm, hiring, health}
    Codes = {H, HS}
    CodeOf <- CodesByName
    People = {a, b, c}
    Nil = Nil
    Files <- StaffFiles
    Levels = {"department", "branch"}
    Updates = {s1, s2}
    MaxImports = 2
    MaxChanges = 3
SYMMETRY Symmetry
INVARIANTS CyclesSpanImports ForestUnlessRaced ClosedUnlessAdmitted
PROPERTIES Repeatable LinkedAsNamed
CHECK_DEADLOCK FALSE
