\* The bounds of Inference are in MCModel.tla.
CONSTANTS
    Vocabs <- MCVocabs
    Texts <- MCTexts
    Rooms = {1, 3, 5}
    MaxPreproc = 7
    MaxConcat = 4
    DecodeRoom = 3
SPECIFICATION MCSpec
INVARIANT EncodingAsTrained
INVARIANT LogitsFaithful
\* A model stops after its last conversation.
CHECK_DEADLOCK FALSE
