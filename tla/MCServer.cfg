SPECIFICATION Spec
CONSTANTS
    Words = {"info", "init", "mode", "horizontal", "setup array", "stop", "reset timestamps", "0.255"}
    MaxPayload = 3
INVARIANTS
    ConversationIsAnsweredOnce
    ErrorIsNoSecondReply
