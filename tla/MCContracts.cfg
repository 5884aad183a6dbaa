SPECIFICATION MCSpec
CONSTANTS
    LowerCase <- LowerNames
    Reads <- ReadsTexts
    Operations <- AllOperations
    RawSteps <- AllRawSteps
    Variables <- AllVariables
    Environment <- AllEnvironment
    Contracts <- AllContracts
    Steps <- AllSteps
    Answers <- AllAnswers
    Characters <- AllCharacters
    Documents <- AllDocuments
    Pointers <- AllPointers
    Values <- AllValues
INVARIANTS
    SentMeansValid
    PathIntact
    PassedConforms
    PreflightSuffices
    OnlyCyclesRaise
    AssertionsSound
CHECK_DEADLOCK FALSE
