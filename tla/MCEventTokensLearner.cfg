\* The claim that the learner learns from every event.
CONSTANTS
    Thresholds <- MCThresholds
    Modulus = 64
    MaxSkew = 2
    MaxNesting = 3
    MaxTime = 2
    MaxEvents = 4
SPECIFICATION Spec
INVARIANT EveryEventLearnt
\* The bounds on events and time end every behaviour.
CHECK_DEADLOCK FALSE
