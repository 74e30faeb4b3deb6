SPECIFICATION IfaceSpec
CONSTANTS
    Urls <- ExampleUrls
    DevFiles <- PlainPort
    StartFaults = FALSE
    Sources <- OneSource
    SlaveValues <- OneValue
INVARIANTS
    DocumentedUrlStarts
