---- MODULE MCMcsParser ----
EXTENDS McsParser
\* An empty body, and bodies whose lengths take one byte to four; their bytes could be
\* tags and lengths.  One does not decode, one is too long.
MCMalformed == {[tag |-> 1, body |-> <<3>>]}
MCFrames ==
  {[tag |-> 0, body |-> <<>>], [tag |-> 3, body |-> <<0, 2>>], [tag |-> 2, body |-> <<1, 3, 0, 2>>],
   [tag |-> 1, body |-> <<3, 2, 1, 0, 3, 3, 3, 3>>], [tag |-> 3, body |-> <<0, 0, 0, 0, 0, 0, 0, 0, 0>>]}
  \cup MCMalformed
====
