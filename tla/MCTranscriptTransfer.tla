------------------------ MODULE MCTranscriptTransfer ------------------------
EXTENDS TranscriptTransfer

\* The bytes on either side of every comparison in prv_utf8_codepoint_size.
EdgeBytes ==
  {1, 127, 128, 143, 144, 159, 160, 191, 192, 193, 194, 223, 224, 225, 236,
   237, 238, 239, 240, 241, 243, 244, 245, 255}

EdgeStrings ==
  UNION {[1 .. n -> EdgeBytes] : n \in 1 .. 2}
    \cup {<<lead, second, third>> :
            lead \in {223, 224, 225, 236, 237, 238, 239, 240},
            second \in EdgeBytes, third \in {127, 128, 191, 192}}
    \cup {<<lead, second, third, fourth>> :
            lead \in {239, 240, 241, 243, 244, 245},
            second \in {127, 128, 143, 144, 191, 192},
            third \in {127, 128, 191, 192}, fourth \in {127, 128, 191, 192}}

\* Texts of characters of every size; the last of them is cut short.
Characters == {<<97>>, <<195, 169>>, <<226, 130, 172>>, <<240, 159, 154, 128>>,
               <<226, 130>>}

Sentences ==
  UNION {{Joined(s) : s \in [1 .. n -> Characters]} : n \in 1 .. 3}
    \cup {Joined(s) : s \in [1 .. 5 -> {<<97>>, <<195, 169>>}]}

MCTranscripts == EdgeStrings \cup Sentences

=============================================================================
