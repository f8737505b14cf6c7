----------------------------- MODULE MCSlideShow -----------------------------
EXTENDS SlideShow
\* Slide 3 has no dot of its own: it is a part of slide 2.
Dots == <<1, 2, 2>>
=============================================================================
