\* A client and a server exchange two packets.
CONSTANTS
    Names <- SomeNames
    Plain <- SomePlain
    Messages <- SomeMessages
    Jsons <- SomeJsons
    Key <- KeyK
    GameName <- Name
    GameVersion <- Version
    MaxPackets = 2
SPECIFICATION Spec
INVARIANTS TypeOK InitHasItsSize NextArrives LocaleArrives TextsArrive
CHECK_DEADLOCK FALSE
