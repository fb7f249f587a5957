\* What documents say of this module and the code does not do: each of these is
\* violated. Run with -continue, or with all but one of them taken out.
SPECIFICATION FormSpec
CONSTANTS
    Nothing = Nothing
    Unnamed = Unnamed
    Forms <- MCForms
    Fine = 10
    Classifications = {Nothing, "technical", "admin", "contractor"}
    Calls = {c1, c2}
    MaxTyped = 2
SYMMETRY Symmetry
INVARIANTS SubmittedAsClicked SavedLabel BlankLowersAvailable BestEarnTotal WithinAvailable ScoredByColumn
CHECK_DEADLOCK FALSE
