------------------------------ MODULE MCChooser -----------------------------
\* Streams of one to five fragments (from five on, two weights are above the mean);
\* up to two unit errors in a table.
EXTENDS Chooser

MCErrors == {-1, 0, 1}

\* The least common multiple of 1 .. K.
MCUnit == <<1, 2, 6, 12, 60>>
=============================================================================
