SPECIFICATION ExtractionSpec
CONSTANTS
    UINT = 65536
    Inputs <- MCInputs
    Running = {"requests", "responses"}
    ResponseExtractors <- MCResponseExtractors
    Alphabet <- MCAlphabet
    MaxResponse <- MCMaxResponse
    Width = 32
INVARIANTS
    CutSound
    SavedMessagesComeBack
    ResponsesGrow
PROPERTY
    ExtractorsEnd
CHECK_DEADLOCK FALSE
