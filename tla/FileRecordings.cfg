SPECIFICATION TurnsSpec
CONSTANTS
    r1 = r1
    r2 = r2
    s1 = s1
    Recording = {r1, r2}
    SessionID = {s1}
    SidOf <- MCSidOf
    FormatOf <- MCFormatOf
    Samples <- MCSamples
    MaxMessages = 2
    WordSize = 3
    Transcription = "heard"
    Exchanges <- MCExchanges
    None = None
INVARIANTS
    TypeOK
    AudioSurvives
    AnswerIsCorrection
PROPERTY StopFindsItsAudio
\* Every recording is made once: the instance ends when all have been.
CHECK_DEADLOCK FALSE
