SPECIFICATION Spec
CONSTANTS
    Handlers = {h1, h2, h3}
    Emails = {e1, e2}
    Usernames = {n1, n2}
    twoSum = twoSum
    palindrome = palindrome
    Defaults <- MCDefaults
    OtherSlugs = {mine, uuid}
    UuidSlugs = {uuid}
    Members = {m1, m2}
SYMMETRY Symmetry
INVARIANTS
    FailuresAreRaces
    SeedIsAllOrNothing
    NoCircularWait
CHECK_DEADLOCK FALSE
