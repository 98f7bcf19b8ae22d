SPECIFICATION Spec
CONSTANTS
    Sessions <- UnusableSessions
INVARIANTS
    AnswersOwnGo
