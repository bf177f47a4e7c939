-------------------------- MODULE MCMetricsRecorder --------------------------
EXTENDS MetricsRecorder
CONSTANTS c1, c2, c3, c4
=============================================================================
