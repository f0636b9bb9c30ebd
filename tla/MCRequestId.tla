---------------------------- MODULE MCRequestId ----------------------------
EXTENDS RequestId, Bitwise

Xor16(a, b) == a ^^ b

\* Around the wrap of the low half, one window apart, around the smallest
\* clock whose high half no millisecond reaches, and a clock of this decade.
MCClock ==
  {0, 1, 43200, 43201, 65535, 65536, 65537, 65536 + 43200, 131072,
   65535999, 65536000, 65536001, 1780000000, 1780000001, 1780043200}

=============================================================================
