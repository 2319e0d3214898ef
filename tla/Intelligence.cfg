\* Two feedbacks race each other; a report takes longer than the window or not.
SPECIFICATION Spec
CONSTANTS
    c1 = c1
    c2 = c2
    g1 = g1
    Feedback <- MCFeedback
    Report <- MCReport
    Metrics <- MCMetrics
    Window = 2
    MaxTime = 2
    MaxErrors = 1
SYMMETRY FeedbackSymmetry
INVARIANT TypeOK
INVARIANT CountersTrackFeedback
INVARIANT AckedIsLearntOrReplaced
INVARIANT OutdatedOnlyIfLate
CHECK_DEADLOCK FALSE
