SPECIFICATION AssertionSpec
CONSTANTS
    LowerCase <- LowerNames
    Reads <- ReadsTexts
    Operations <- AllOperations
    RawSteps <- AllRawSteps
    Variables <- AllVariables
    Environment <- AllEnvironment
    Contracts <- AllContracts
    Steps <- AllSteps
    Answers <- AllAnswers
    Characters <- AllCharacters
    Documents <- AllDocuments
    Pointers <- AllPointers
    Values <- AllValues
INVARIANT TypesStrict
CHECK_DEADLOCK FALSE
