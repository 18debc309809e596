-------------------------- MODULE MCCollectorSync --------------------------
(* Gateway builds for the model checker: the sets of methods a hello may    *)
(* announce.  Unavailable sources, and a default agent that is not asked    *)
(* for, take part in the safety run; the liveness run has one pass, as the  *)
(* passes do not touch each other's state.                                  *)
EXTENDS CollectorSync

AllMethods == {"tasks", "sessions", "subscribe", "cron", "roster"}
MCFull     == {AllMethods}
MCBuilds   == {AllMethods, {"sessions", "cron", "roster"}, {"tasks", "cron"}, {"subscribe"}}
MCOnePass  == {{"tasks", "subscribe", "cron"}}
=============================================================================
