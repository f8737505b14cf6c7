-------------------------------- MODULE Slider --------------------------------
(***************************************************************************)
(* A slider of the page with its controller and its buttons (slides.js): a  *)
(* list of items of which one is shown, by the user's clicks or by autoplay. *)
(* The same change is written out three times in the code, for the slider,  *)
(* the controller and the buttons, and each writes both lists.             *)
(***************************************************************************)
EXTENDS Integers

CONSTANT Items   \* the number of items, of the slider and of its controller

SliderAssumption == Items \in Nat \ {0, 1}

VARIABLES
    selected,   \* the slider's items of class "selected"
    hide,       \* those of class "hide"
    ending,     \* those whose end of transition is waited for
    pointed,    \* the controller's items of class "selected"
    pointedHide,\* those of class "hide"
    autoplay    \* the interval of autoplay is set

vars == <<selected, hide, ending, pointed, pointedHide, autoplay>>

All == 1 .. Items

TypeOK ==
    /\ selected \subseteq All /\ hide \subseteq All /\ ending \subseteq All
    /\ pointed \subseteq All /\ pointedHide \subseteq All
    /\ autoplay \in BOOLEAN

Init ==
    /\ selected = {1}
    /\ hide = {} /\ ending = {}
    /\ pointed = {1} /\ pointedHide = {}
    /\ autoplay \in BOOLEAN

nextOrFirst(i) == IF i = Items THEN 1 ELSE i + 1
prevOrLast(i) == IF i = 1 THEN Items ELSE i - 1

\* The item shown leaves with a transition, at whose end it is not hidden.
Leave(to) ==
    /\ selected' = to
    /\ hide' = (hide \cup selected) \ to
    /\ ending' = ending \cup selected

\* A click on the slider, or next, which autoplay triggers.
ClickNext ==
    LET to == {nextOrFirst(i) : i \in selected}
    IN  /\ Leave(to)
        /\ pointed' = to
        /\ UNCHANGED pointedHide

\* Mutant: the slider follows only when it is not in a transition.
ClickControllerMutant(i) ==
    /\ IF i \notin pointed /\ ending = {} THEN Leave({i})
                                          ELSE UNCHANGED <<selected, hide, ending>>
    /\ pointed' = {i}
    /\ UNCHANGED pointedHide

\* A click on an item of the controller.
ClickController(i) ==
    /\ IF i \notin pointed THEN Leave({i}) ELSE UNCHANGED <<selected, hide, ending>>
    /\ pointed' = {i}
    /\ UNCHANGED pointedHide

\* A button: next, previous, or a number.  The item of the controller that is
\* left is hidden for good: the end of its transition is not its own callback's.
ClickAction(to) ==
    /\ selected' = to
    /\ hide' = hide \ to
    /\ pointed' = to
    /\ pointedHide' = pointedHide \cup pointed
    /\ UNCHANGED ending

Actions ==
    {{nextOrFirst(i) : i \in selected}, {prevOrLast(i) : i \in selected}}
    \cup {{i} : i \in All}

\* The user; pressed: with the mouse or a finger, which stops autoplay, not by
\* the keyboard.
UserActs(pressed) ==
    /\ \/ ClickNext
       \/ \E i \in All : ClickController(i)
       \/ \E to \in Actions : ClickAction(to)
    /\ autoplay' = (autoplay /\ ~pressed)

Autoplay ==
    /\ autoplay
    /\ ClickNext
    /\ UNCHANGED autoplay

TransitionEnds(i) ==
    /\ i \in ending
    /\ ending' = ending \ {i}
    /\ hide' = hide \ {i}
    /\ UNCHANGED <<selected, pointed, pointedHide, autoplay>>

Next ==
    \/ \E pressed \in BOOLEAN : UserActs(pressed)
    \/ Autoplay
    \/ \E i \in All : TransitionEnds(i)

Spec == Init /\ [][Next]_vars

\* Whichever way the user goes, and autoplay in between, one item is selected,
\* it is not one that is being hidden, the controller points to it, and no item
\* stays hidden.
InStep ==
    /\ \E i \in All : selected = {i}
    /\ pointed = selected
    /\ selected \cap hide = {}
    /\ hide \subseteq ending
=============================================================================
