\* The client looks for a field in a ServerInfo.
CONSTANTS
    Names <- SomeNames
    Plain <- SomePlain
    Messages <- SomeMessages
    Jsons <- SomeJsons
    Key <- KeyK
    GameName <- Name
    GameVersion <- Version
    MaxPackets = 1
SPECIFICATION Spec
INVARIANT FieldFound
CHECK_DEADLOCK FALSE
