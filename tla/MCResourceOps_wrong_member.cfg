\* A write to "the" system after one of two systems could not be read.
CONSTANTS
    Members = {1, 2}
    Recipes <- ClientRecipe
    Forgetful <- ForgetfulOps
    None = None
SPECIFICATION Spec
INVARIANTS RightMember
\* The call ends.
CHECK_DEADLOCK FALSE
