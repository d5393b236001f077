SPECIFICATION Spec
CONSTANTS
    Caps = {0, 1, 2, 3, 4, 5, 6, 7, 8, 9, 10, 11, 12, 13, 14, 15, 16, 17, 18, 19}
    Flavours = {"default", "null", "many"}
    Probes = {"null", "many"}
INVARIANTS
    NegotiatedIsAdvertised
    RequestArrives
    AnswerArrives
    CutIsRefused
    RecordSetsAreExact
    MembersUnderstandEachOther
