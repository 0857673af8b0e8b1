\* An honest peer; one that sends anything, on a bad network; one that stops
\* reading.  Five pieces do not fit the first pipeline.
SPECIFICATION FairSpec
CONSTANTS
    N = 5
    MaxPipeline = 3
    Reqqs = {0, 1, 2, 9}
    Environments = {{}, {"liar", "timeout", "disconnect", "cancel"},
                    {"timeout", "cancel", "stall"}}
CHECK_DEADLOCK FALSE
INVARIANT CancelNotSwallowed
PROPERTIES SessionEnds HonestSucceeds
