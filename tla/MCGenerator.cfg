\* Five types, two of them filled in; two saves; the encoder over short texts.
CONSTANTS
    Chars <- MCChars
    Types = {"url", "wifi", "vcard", "email", "text"}
    Samples <- MCSamples
    Specimens <- MCSpecimens
    Saves = {k1, k2}
    Link = Link
    Absent = Absent
SPECIFICATION Spec
INVARIANTS
    TypeOK
    PreviewTellsTheForm
    SavingIsReal
    SavedOnce
    SheetReads
    CodecsAgree
PROPERTIES
    DraftSurvives
