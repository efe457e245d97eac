--------------------------- MODULE MCPushScenario ---------------------------
EXTENDS PushScenario

\* testCase5's loop runs five times, as in the code: cases 5 and 10 each
\* start goroutines on one conn, so readers race for its items.
MCCase5Rounds == 5

=============================================================================
