SPECIFICATION Spec
CONSTANTS
    Chats = {c1, c2}
    Openings <- MCOpenings
    FollowUps = {"go on"}
    Answers <- MCAnswers
    MaxRows = 3
    MaxLength = 5
    Null = Null
    Absent = Absent
    Empty = ""
INVARIANTS
    TypeOK
    TreeOfWhatWasSaid
    EveryRequestIsCountedOnce
    FollowUpsJoinTheirConversation
SYMMETRY MCSymmetry
CHECK_DEADLOCK FALSE
