SPECIFICATION FairSpec
CONSTANTS
    MAX_MESSAGES = 3
    MaxKills = 5
INVARIANTS TypeOK TestsSucceed TokensConserved MessagesHaveTokens SectionExclusive
PROPERTIES NobodyStarves
CHECK_DEADLOCK FALSE
