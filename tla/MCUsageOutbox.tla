--------------------------- MODULE MCUsageOutbox ---------------------------
(* UsageOutbox with two processes, each running one of the commands.        *)
EXTENDS UsageOutbox

\* The upload after an application run; analytics-backfill --clear-queue.
CommandLines == {<<"sync", "run">>, <<"clear", "backfill">>}
=============================================================================
