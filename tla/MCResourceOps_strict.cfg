\* Operations that answer in strict mode although a member failed.
CONSTANTS
    Members = {1, 2}
    Recipes <- ClientRecipe
    Forgetful <- ForgetfulOps
    None = None
SPECIFICATION Spec
INVARIANTS StrictRaises
\* The call ends.
CHECK_DEADLOCK FALSE
