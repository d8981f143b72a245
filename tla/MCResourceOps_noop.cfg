\* change_boot_source with the target in place, but not the rest.
CONSTANTS
    Members = {1, 2}
    Recipes <- ClientRecipe
    Forgetful <- ForgetfulOps
    None = None
SPECIFICATION Spec
INVARIANTS NoOpMeansDone
\* The call ends.
CHECK_DEADLOCK FALSE
