----------------------------- MODULE MCScrollMode -----------------------------
EXTENDS ScrollMode
\* The second slide's content is of two heights: an image that comes late.
Heights == <<{2}, {2, 3}, {2}>>
=============================================================================
