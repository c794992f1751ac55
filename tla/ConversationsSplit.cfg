SPECIFICATION Spec
CONSTANTS
    Chats = {c1, c2}
    Openings <- MCOpenings
    FollowUps = {"go on"}
    Answers <- MCAnswers
    MaxRows = 2
    MaxLength = 5
    Null = Null
    Absent = Absent
    Empty = ""
INVARIANTS
    SameConversationSameGroup
CHECK_DEADLOCK FALSE
