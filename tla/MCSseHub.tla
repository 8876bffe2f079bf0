------------------------------- MODULE MCSseHub -------------------------------
EXTENDS SseHub
CONSTANTS s1, s2, s3

ThreeStreams == {s1, s2, s3}
OneStream == {s1}
==============================================================================
