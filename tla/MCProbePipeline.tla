-------------------------- MODULE MCProbePipeline --------------------------
(* One monitor with the thresholds of the source: monitors share nothing in *)
(* ProbePipeline, so a second one would only square the state space.        *)
EXTENDS ProbePipeline

\* One hour short of CertWarnDays, the boundary itself, and an expired one.
MCHours == {24 * CertWarnDays - 1, 24 * CertWarnDays, -1}
=============================================================================
