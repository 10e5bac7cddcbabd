SPECIFICATION ParserSpec
CONSTANTS
    Inputs <- AllTexts
    Fails = TRUE
    Lasting = FALSE
INVARIANTS QueryMeaning CookieRoundTrip ContentTypeRead BodyLines
PROPERTY ParseEnds
