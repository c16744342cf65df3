----------------------------- MODULE MCOutreach -----------------------------
\* The 20, 24 and 72 hours of the code, its window of 24 and its offer of 48, brought
\* down to minutes: the first nudge falls inside the window and the second after it,
\* and an offer lapses at the first nudge or any time later.
EXTENDS Outreach

Cadence == <<1, 2>>

=============================================================================
