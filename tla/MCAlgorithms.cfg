\* Token strings of up to five tokens over the numbers 0 and 2; every
\* detail level against every message level, message texts of up to
\* four characters.
CONSTANTS
    Numbers = {0, 2}
    MaxLen = 5
    MaxText = 4
SPECIFICATION Spec
INVARIANT ParseMatchesUsage
INVARIANT DescriptionFetchIsCeiling
INVARIANT InitLevelMatchesEnv
INVARIANT VlogMatchesLines
