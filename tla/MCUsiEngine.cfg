SPECIFICATION FairSpec
CONSTANTS
    Sessions <- MCSessions
INVARIANTS
    AnswersOwnGo
    BarrierResynchronises
    DeadEngineIsReported
PROPERTIES
    AlarmsAreTrue
    Returns
