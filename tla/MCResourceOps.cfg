\* Every operation of the client, with up to three members in a listing.
CONSTANTS
    Members = {1, 2, 3}
    Recipes <- ClientRecipe
    Forgetful <- ForgetfulOps
    None = None
SPECIFICATION Spec
INVARIANTS WritesWhatWasMeant OneEffect HonestAnswer
\* The call ends.
CHECK_DEADLOCK FALSE
