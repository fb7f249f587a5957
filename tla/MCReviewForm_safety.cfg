SPECIFICATION FormSpec
CONSTANTS
    Nothing = Nothing
    Unnamed = Unnamed
    Forms <- MCForms
    Fine = 10
    Classifications = {Nothing, "technical", "admin", "contractor"}
    Calls = {c1, c2}
    MaxTyped = 2
SYMMETRY Symmetry
INVARIANTS ScoredAsShown SavedMeansStored ScoresOutOfTotal
CHECK_DEADLOCK FALSE
