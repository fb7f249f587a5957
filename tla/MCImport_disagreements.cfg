\* What documents say of this module and the code does not do: each of these is
\* violated. Run with -continue, or with all but one of them taken out.
SPECIFICATION ImportSpec
CONSTANTS
    a = a
    b = b
    c = c
    hcm = hcm
    hiring = hiring
    health = health
    H = H
    HS = HS
    Names = {hcm, hiring, health}
    Codes = {H, HS}
    CodeOf <- CodesByName
    People = {a, b, c}
    Nil = Nil
    Files <- StaffFiles
    Levels = {"department", "branch"}
    Updates = {s1, s2}
    MaxImports = 2
    MaxChanges = 2
SYMMETRY Symmetry
INVARIANTS NobodyReportsInACircle UnitsFormForest LevelsDescend ClosedAreEmpty
PROPERTIES PlacedWhereNamed CorrectionStands ClosedTakeNobody LinkedWhateverLevels
CHECK_DEADLOCK FALSE
