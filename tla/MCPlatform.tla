----------------------------- MODULE MCPlatform -----------------------------
EXTENDS Platform, TLC

\* Limits may be zero, the watchdog may not, and is not below its minimum.
MCField == {"retryLimit", "retryLimitMissing", "watchdog", "minWatchdog"}
MCAllowed == [f \in MCField |-> IF f \in {"watchdog", "minWatchdog"} THEN 1..3 ELSE 0..2]
MCStartup == ("retryLimit" :> 1 @@ "retryLimitMissing" :> 2 @@ "watchdog" :> 2 @@ "minWatchdog" :> 1)

\* Valid ones that set different fields, one out of range, and one that is
\* invalid over the startup values only.
MCSpecs ==
  {"retryLimit" :> 0, "retryLimit" :> 0 @@ "retryLimitMissing" :> 1, "watchdog" :> 3,
   "watchdog" :> 0, "minWatchdog" :> 3}
=============================================================================
