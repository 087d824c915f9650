CONSTANTS
    Classes <- SomeClasses
    Maps <- SomeMaps
    Word = 8
SPECIFICATION Spec
INVARIANTS HeaderIsCSharp NoCommentLeftOpen RvaIsModuleOffset ModifiersFollowMetadata
PROPERTIES RendersClass
CHECK_DEADLOCK FALSE
