SPECIFICATION Spec
CONSTANTS
    k1 = k1
    Radix = 16
    EncodeMap <- encode_map
    DecodeMap <- decode_map
    MaxVarint = 4
    LenModulus = 1024
    Wide = 6
    MAX_PAYLOAD_SIZE = 40
    MAX_DECODE_DEPTH = 3
    Milli = 10
    MAX_FRAME_SIZE = 100
    U32 = 160
    KeyChoices <- MCKeyChoices
    Opcode = 18
    Seq0 = 300
    Payloads <- MCPayloads
    Answers <- MCAnswers
    ForeignRequests = {}
    ForeignAnswers = {}
INVARIANTS
    EmptyIfNoneSent
CHECK_DEADLOCK FALSE
