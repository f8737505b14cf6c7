-------------------------------- MODULE Dialog --------------------------------
(***************************************************************************)
(* The dialogs of the page (slides.js): shown by a trigger or after a delay, *)
(* closed by the user or after a delay, and kept closed over loads of the    *)
(* page by a cookie.  Sliding up and down takes 500 ms, one slide of a       *)
(* dialog after the other; delays are not counted.                          *)
(***************************************************************************)
EXTENDS Integers, Sequences, FiniteSets, SequencesExt

CONSTANTS
    Dialogs,
    Hidden,      \* those of class "hidden", which a page does not show at first
    Delayed,     \* those of Hidden that are revealed after a delay
    HideDelayed, \* those hidden after a delay
    WithCookie,  \* those with data-set-cookie
    MaxQueue     \* bound: slides of one dialog that wait for each other

DialogAssumption ==
    /\ {Hidden, HideDelayed, WithCookie} \subseteq SUBSET Dialogs
    /\ Delayed \subseteq Hidden
    /\ MaxQueue \in Nat

VARIABLES
    visible,    \* the dialogs that are displayed
    queue,      \* of each, the slides under way and waiting: "down", "up", or
                \* "close" for an up whose end sets the cookie
    reveals,    \* the dialogs whose delay of revealing is running
    hides,      \* the dialogs whose delay of hiding is running
    cookies,    \* the dialogs whose cookie the browser keeps
    dismissed,  \* history: those the user has closed for good, and not shown since
    interrupted \* history: those whose last such closing a load of the page cut off
                \* before its cookie was written

vars == <<visible, queue, reveals, hides, cookies, dismissed, interrupted>>

TypeOK ==
    /\ {visible, reveals, hides, cookies, dismissed, interrupted} \subseteq SUBSET Dialogs
    /\ queue \in [Dialogs -> Seq({"down", "up", "close"})]

\* What the code run at ready makes of the page.
Loaded ==
    /\ visible' = Dialogs \ (Hidden \cup (cookies' \cap WithCookie))
    /\ queue' = [d \in Dialogs |-> << >>]
    /\ reveals' = Delayed
    /\ hides' = HideDelayed

Init ==
    /\ visible = Dialogs \ Hidden
    /\ queue = [d \in Dialogs |-> << >>]
    /\ reveals = Delayed /\ hides = HideDelayed
    /\ cookies = {} /\ dismissed = {} /\ interrupted = {}

\* slideDown and slideUp: a dialog is displayed when it begins to slide down.
Slide(d, way) ==
    /\ Len(queue[d]) < MaxQueue
    /\ queue' = [queue EXCEPT ![d] = Append(@, way)]
    /\ visible' = IF way = "down" /\ queue[d] = << >> THEN visible \cup {d} ELSE visible

\* showDialog.
ShowDialog(d) ==
    /\ \/ /\ d \in visible
          /\ UNCHANGED <<queue, visible, dismissed>>
       \/ /\ d \notin visible
          /\ Slide(d, "down")
          /\ dismissed' = dismissed \ {d}
    /\ UNCHANGED <<reveals, hides, cookies, interrupted>>

\* The button data-dialog-action="close" of a dialog that keeps a cookie: it is
\* closed for good from the click on.
CloseForGood(d) ==
    /\ d \in visible \cap WithCookie
    /\ Slide(d, "close")
    /\ dismissed' = dismissed \cup {d}
    /\ interrupted' = interrupted \ {d}
    /\ UNCHANGED <<reveals, hides, cookies>>

\* The button "hide", and "close" of another dialog.
HideDialog(d) ==
    /\ d \in visible
    /\ Slide(d, "up")
    /\ UNCHANGED <<reveals, hides, cookies, dismissed, interrupted>>

DelayedReveal(d) ==
    /\ d \in reveals
    /\ reveals' = reveals \ {d}
    /\ Slide(d, "down")
    /\ UNCHANGED <<hides, cookies, dismissed, interrupted>>

DelayedHide(d) ==
    /\ d \in hides
    /\ hides' = hides \ {d}
    /\ Slide(d, "up")
    /\ UNCHANGED <<reveals, cookies, dismissed, interrupted>>

\* Mutant: the cookie of a dialog is set when it is hidden, too, but not closed.
CookiesAfterMutant(d, way) == IF way = "up" THEN cookies \cup {d} ELSE cookies

CookiesAfter(d, way) == IF way = "close" THEN cookies \cup {d} ELSE cookies

SlideEnds(d) ==
    /\ queue[d] # << >>
    /\ LET way == Head(queue[d])
           rest == Tail(queue[d])
           left == IF way = "down" THEN visible ELSE visible \ {d}
       IN  /\ queue' = [queue EXCEPT ![d] = rest]
           /\ visible' = IF rest # << >> /\ Head(rest) = "down" THEN left \cup {d}
                                                               ELSE left
           /\ cookies' = CookiesAfter(d, way)
    /\ UNCHANGED <<reveals, hides, dismissed, interrupted>>

\* A closing for good is under way, or waits for another slide of the dialog.
IsClosing(d) == Contains(queue[d], "close")

\* The page is left at any moment, and loaded again.
Reload ==
    /\ interrupted' = interrupted \cup {d \in Dialogs \ cookies : IsClosing(d)}
    /\ UNCHANGED <<cookies, dismissed>>
    /\ Loaded

Next ==
    \/ \E d \in Dialogs :
          \/ ShowDialog(d) \/ CloseForGood(d) \/ HideDialog(d)
          \/ DelayedReveal(d) \/ DelayedHide(d) \/ SlideEnds(d)
    \/ Reload

Spec == Init /\ [][Next]_vars

\* A dialog the user has closed for good, from the click on and however often the page
\* is loaded, is displayed again only while its closing still slides or waits, or when
\* the user shows it; but for the two ways in which the code brings it back: a delay
\* reveals it without a look at the cookie (Delayed, line 1984), or the page was left
\* before the end of the slide wrote the cookie (interrupted, line 1957).
StaysDismissed ==
    \A d \in dismissed \cap visible :
        IsClosing(d) \/ d \in Delayed \/ d \in interrupted

-----------------------------------------------------------------------------
(* What the code does not do.                                              *)

\* What one would expect of a dialog closed for good: neither a delay nor a load of the
\* page brings it back.
ClosedStaysClosed == \A d \in dismissed \cap visible : IsClosing(d)
=============================================================================
