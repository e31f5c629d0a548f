----------------------------- MODULE MCFountain -----------------------------
\* The elimination, on the parts of MCFountainParts.
EXTENDS FountainDecoder, MCFountainParts
=============================================================================
