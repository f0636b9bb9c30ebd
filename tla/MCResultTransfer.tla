-------------------------- MODULE MCResultTransfer --------------------------
EXTENDS ResultTransfer

\* The code units on either side of every comparison in utf8ByteLength.
EdgeUnits == {1, 127, 128, 2047, 2048, 55295, 55296, 56319, 56320, 57343, 57344, 65535}

\* Units of one, two and three bytes and the halves of a pair, in every order.
Letters == {97, 233, 8364, 55357, 56960}

\* Responses that hold a NUL, in one chunk or several.
NulResponses == [1 .. 3 -> {0, 97}] \cup {<<97, 97, 97, 97, 97, 0>>, <<0, 97, 97, 97, 233>>}

MCResponses ==
  UNION {[1 .. n -> EdgeUnits] : n \in 0 .. 2} \cup UNION {[1 .. n -> Letters] : n \in 3 .. 5}
    \cup [1 .. 8 -> {97, 233}] \cup NulResponses

=============================================================================
