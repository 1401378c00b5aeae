----------------------------- MODULE MCMcuNode -----------------------------
EXTENDS McuNode

\* The node reads the clock only as a distance to a deadline it waits for, so
\* states that differ by a rotation of the clock, or in a deadline nobody
\* waits for, have the same future.  No step reads the last response; of it
\* the view keeps whether the invariants about it hold.
Distance(t) == (t - now) % TimeModulus

ClockView ==
    <<machine,
      [watchdog EXCEPT
         !.link_deadline_us = IF watchdog.link_watchdog_armed
                              THEN Distance(@) ELSE 0,
         !.stop_deadline_us = IF watchdog.stop_ack_pending
                              THEN Distance(@) ELSE 0,
         !.stop_command_id = IF watchdog.stop_ack_pending THEN @ ELSE 0,
         !.stop_retry_count = IF watchdog.stop_ack_pending THEN @ ELSE 0],
      dedup, Distance(timer_at), hw_fed, quiet,
      response \in WireFrames, AnswersAreTruthful>>
=============================================================================
