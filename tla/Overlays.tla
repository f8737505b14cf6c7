------------------------------- MODULE Overlays -------------------------------
(***************************************************************************)
(* The sidebars, popups and dropdowns of the served page (slides.js), and   *)
(* what they share with the slide manager: allowSlide, which swipes and the *)
(* wheel obey, and the cleanup showSlide makes.                             *)
(*                                                                         *)
(* One action per event or callback of setTimeout, as in SlideShow.  The    *)
(* end of a dropdown's CSS transition is an event of the browser, and comes *)
(* at any time.  Left out: a wheel event over content higher than the       *)
(* window, which sets allowSlide by the position of that content.           *)
(***************************************************************************)
EXTENDS Integers, Sequences, FiniteSets, SequencesExt

CONSTANTS
    Sidebars, Popups, Dropdowns,
    Animated,    \* those sidebars and popups of class "animated"
    Soon,        \* the 100 ms before "animate active" is set
    Pause,       \* the 500 ms before it, and a hidden popup, is taken away
    MaxPending,  \* bound: the user waits while so many timeouts are pending
    MaxStack     \* bound: popups shown one over the other

ASSUME OverlayAssumption ==
    /\ Animated \subseteq Sidebars \cup Popups
    /\ Sidebars \cap Popups = {}
    /\ {Soon, Pause} \subseteq Nat \ {0}
    /\ MaxPending \in Nat /\ MaxStack \in Nat

VARIABLES
    sidebarShown,   \* window.sidebarShown
    popupShown,     \* window.popupShown, << >> for false
    dropdownShown,  \* window.dropdownShown
    allowSlide,     \* window.allowSlide
    html,           \* those of sidebarShown, popupShown and dropdownShown that
                    \* are classes of the page
    visible,        \* the sidebars and popups of class "visible"
    on,             \* those of class "animate active"
    hiding,         \* the popups of class "hidePopup"
    show,           \* the dropdowns of class "show"
    ending,         \* those whose end of transition is waited for
    timeouts,       \* the timeouts that are set
    careful         \* the user lets a popup close before the next, shows none
                    \* that is shown, and shows a dropdown only once no other is
                    \* shown or closing

vars == <<sidebarShown, popupShown, dropdownShown, allowSlide, html, visible, on,
          hiding, show, ending, timeouts, careful>>

Kinds == {"sidebarOn", "sidebarOff", "popupOn", "popupOff"}

\* A call of setTimeout for an element; found: the elements a popup's has found
\* visible, or the sidebar whose removeAnimationTimeout names it; copy: tells it
\* from another that is alike.
Timeout(kind, delay, id, found, copy) ==
    [kind |-> kind, left |-> delay, id |-> id, found |-> found, copy |-> copy]

Closing == {t \in timeouts : t.kind = "popupOff"}

TypeOK ==
    /\ {sidebarShown, dropdownShown, allowSlide, careful} \subseteq BOOLEAN
    /\ popupShown \in Seq(Popups)
    /\ html \subseteq {"sidebarShown", "popupShown", "dropdownShown"}
    /\ visible \subseteq Sidebars \cup Popups /\ on \subseteq Sidebars \cup Popups
    /\ hiding \subseteq Popups
    /\ show \subseteq Dropdowns /\ ending \subseteq Dropdowns
    /\ timeouts \subseteq [kind : Kinds, left : Nat, id : Sidebars \cup Popups,
                           found : SUBSET (Sidebars \cup Popups), copy : Nat]

Init ==
    /\ sidebarShown = FALSE /\ dropdownShown = FALSE
    /\ popupShown = << >>
    /\ allowSlide = TRUE
    /\ html = {} /\ visible = {} /\ on = {} /\ hiding = {}
    /\ show = {} /\ ending = {}
    /\ timeouts = {}
    /\ careful \in BOOLEAN

-----------------------------------------------------------------------------
(* The functions of the page, as what they leave of the state *)

\* hideDropdown; the class of the page is html's.
HideDropdown ==
    IF dropdownShown
    THEN /\ dropdownShown' = FALSE
         /\ ending' = ending \cup show
    ELSE UNCHANGED <<dropdownShown, ending>>

\* What hideSidebar leaves of the timeouts: one is set for the sidebar that is
\* visible, and removeAnimationTimeout names it alone.
SidebarTimeouts ==
    {IF t.kind = "sidebarOff" THEN [t EXCEPT !.found = {}] ELSE t : t \in timeouts}
    \cup {Timeout("sidebarOff", Pause, s, {s}, 0) : s \in visible \cap Sidebars}

\* Mutant: the removal of the classes goes on.
RemovalClearedMutant == timeouts

\* clearTimeout(removeAnimationTimeout).
RemovalCleared == {t \in timeouts : ~(t.kind = "sidebarOff" /\ t.found # {})}

\* html without the classes of what the handler hides.
Without(sidebar) ==
    html \ ((IF sidebar /\ sidebarShown THEN {"sidebarShown"} ELSE {}) \cup
            (IF dropdownShown THEN {"dropdownShown"} ELSE {}))

\* Mutant: sliding is not allowed again.
HideSidebarMutant ==
    /\ sidebarShown' = FALSE
    /\ visible' = visible \ Sidebars
    /\ timeouts' = IF sidebarShown THEN SidebarTimeouts ELSE timeouts
    /\ UNCHANGED allowSlide

HideSidebar ==
    IF sidebarShown
    THEN /\ sidebarShown' = FALSE
         /\ visible' = visible \ Sidebars
         /\ timeouts' = SidebarTimeouts
         /\ allowSlide' = TRUE
    ELSE UNCHANGED <<sidebarShown, visible, timeouts, allowSlide>>

\* hidePopup for each of a sequence of popups, when popupShown is an array.
PopupTimeouts(ids) ==
    LET found(p) == {p} \cap visible
        alike(p) == {t \in Closing : t.left = Pause /\ t.id = p /\ t.found = found(p)}
    IN  IF popupShown = << >> THEN {}
        ELSE {Timeout("popupOff", Pause, ids[i], found(ids[i]),
                      i + Cardinality(alike(ids[i]))) : i \in DOMAIN ids}

Hiding(ids) ==
    IF popupShown = << >> THEN hiding ELSE hiding \cup (ToSet(ids) \cap visible)

\* The popup hidePopup hides when it is not told which.
Top == IF popupShown = << >> THEN << >> ELSE <<Last(popupShown)>>

\* Mutant: the last popup shown leaves the stack, as the comment in the code says.
UnstackMutant(p) == IF popupShown = << >> THEN << >> ELSE Front(popupShown)

\* The first entry of a popup leaves the stack.
Unstack(p) == RemoveFirst(popupShown, p)

-----------------------------------------------------------------------------
(* Events *)

MayAct == Cardinality(timeouts) < MaxPending

MayTouchPopups == careful => Closing = {}

\* showSidebar, and what it leaves when one is shown already.
ShowSidebar(s) ==
    /\ MayAct
    /\ IF sidebarShown
       THEN /\ HideSidebar
            /\ html' = Without(TRUE)
            /\ UNCHANGED on
       ELSE /\ sidebarShown' = TRUE
            /\ allowSlide' = FALSE
            /\ visible' = visible \cup {s}
            /\ on' = on \ {s}
            /\ html' = Without(FALSE) \cup {"sidebarShown"}
            /\ timeouts' =
                 IF s \in Animated
                 THEN RemovalCleared \cup {Timeout("sidebarOn", Soon, s, {}, 0)}
                 ELSE timeouts
    /\ HideDropdown
    /\ UNCHANGED <<popupShown, hiding, show, careful>>

\* showPopup hides the sidebar and the dropdown, and stacks the popup.
ShowPopup(p) ==
    /\ MayAct /\ MayTouchPopups
    /\ careful => p \notin visible
    /\ Len(popupShown) < MaxStack
    /\ sidebarShown' = FALSE
    /\ allowSlide' = FALSE
    /\ visible' = (IF sidebarShown THEN visible \ Sidebars ELSE visible) \cup {p}
    /\ timeouts' = (IF sidebarShown THEN SidebarTimeouts ELSE timeouts) \cup
                   (IF p \in Animated THEN {Timeout("popupOn", Soon, p, {}, 0)} ELSE {})
    /\ html' = Without(TRUE) \cup {"popupShown"}
    /\ popupShown' = Append(popupShown, p)
    /\ HideDropdown
    /\ UNCHANGED <<on, hiding, show, careful>>

\* A click outside the popups' content, or on a popup's close button, from
\* where it bubbles up to the former when the button is outside, too.
ClickHides(ids) ==
    /\ MayAct /\ MayTouchPopups
    /\ hiding' = Hiding(ids)
    /\ timeouts' = timeouts \cup PopupTimeouts(ids)
    /\ UNCHANGED <<sidebarShown, popupShown, dropdownShown, allowSlide, html, visible,
                   on, show, ending, careful>>

ClosePopup(p) == p \in visible /\ (ClickHides(<<p>>) \/ ClickHides(<<p>> \o Top))

Esc ==
    /\ MayAct /\ MayTouchPopups
    /\ sidebarShown' = FALSE
    /\ visible' = IF sidebarShown THEN visible \ Sidebars ELSE visible
    /\ allowSlide' = (allowSlide \/ sidebarShown)
    /\ html' = Without(TRUE)
    /\ HideDropdown
    /\ hiding' = Hiding(Top)
    /\ timeouts' = (IF sidebarShown THEN SidebarTimeouts ELSE timeouts)
                   \cup PopupTimeouts(Top)
    /\ UNCHANGED <<popupShown, on, show, careful>>

\* mouseup or touchstart outside the sidebar and the triggers of dropdowns ...
OutsideSidebar(target) == target \notin {"sidebar", "dropdownTrigger"}

\* ... and outside a dropdown that the page says is shown.
OutsideDropdown(target) == ~(target = "dropdown" /\ "dropdownShown" \in html)

MouseUp(target) ==
    /\ MayAct
    /\ IF OutsideSidebar(target) THEN HideSidebar
                                 ELSE UNCHANGED <<sidebarShown, visible, timeouts, allowSlide>>
    /\ IF OutsideDropdown(target) THEN HideDropdown ELSE UNCHANGED <<dropdownShown, ending>>
    /\ html' = html \ ((IF OutsideSidebar(target) /\ sidebarShown
                        THEN {"sidebarShown"} ELSE {}) \cup
                       (IF OutsideDropdown(target) /\ dropdownShown
                        THEN {"dropdownShown"} ELSE {}))
    /\ UNCHANGED <<popupShown, on, hiding, show, careful>>

\* The close button of a sidebar.
CloseSidebar ==
    /\ MayAct
    /\ HideSidebar
    /\ html' = html \ (IF sidebarShown THEN {"sidebarShown"} ELSE {})
    /\ UNCHANGED <<popupShown, dropdownShown, on, hiding, show, ending, careful>>

Resize ==
    /\ HideDropdown
    /\ html' = Without(FALSE)
    /\ UNCHANGED <<sidebarShown, popupShown, allowSlide, visible, on, hiding, show,
                   timeouts, careful>>

\* A click on a dropdown's trigger hides what is shown first, a hover does not.
ShowDropdown(d, hover) ==
    /\ MayAct
    /\ careful => show = {}
    /\ ending' = IF dropdownShown /\ ~hover THEN ending \cup show ELSE ending
    /\ show' = show \cup {d}
    /\ dropdownShown' = TRUE
    /\ html' = html \cup {"dropdownShown"}
    /\ UNCHANGED <<sidebarShown, popupShown, allowSlide, visible, on, hiding, timeouts,
                   careful>>

\* What showSlide does to the overlays.
SlideShown ==
    /\ MayAct
    /\ sidebarShown' = FALSE
    /\ visible' = IF sidebarShown THEN visible \ Sidebars ELSE visible
    /\ timeouts' = IF sidebarShown THEN SidebarTimeouts ELSE timeouts
    /\ allowSlide' = TRUE
    /\ HideDropdown
    /\ html' = Without(TRUE)
    /\ UNCHANGED <<popupShown, on, hiding, show, careful>>

UserActs ==
    \/ \E s \in Sidebars : ShowSidebar(s)
    \/ \E p \in Popups : ShowPopup(p) \/ ClosePopup(p)
    \/ ClickHides(Top)
    \/ Esc
    \/ \E target \in {"sidebar", "dropdown", "dropdownTrigger", "elsewhere"} :
          MouseUp(target)
    \/ \E d \in Dropdowns, hover \in BOOLEAN : ShowDropdown(d, hover)
    \/ CloseSidebar
    \/ Resize
    \/ SlideShown

-----------------------------------------------------------------------------
(* Callbacks *)

\* The end of a transition takes the classes of the page away with it.
TransitionEnds(d) ==
    /\ d \in ending
    /\ ending' = ending \ {d}
    /\ show' = show \ {d}
    /\ html' = html \ {"dropdownShown"}
    /\ UNCHANGED <<sidebarShown, popupShown, dropdownShown, allowSlide, visible, on,
                   hiding, timeouts, careful>>

TurnOn(t) ==
    /\ t.kind \in {"sidebarOn", "popupOn"}
    /\ on' = on \cup {t.id}
    /\ UNCHANGED <<sidebarShown, popupShown, allowSlide, html, visible, hiding>>

SidebarOff(t) ==
    /\ t.kind = "sidebarOff"
    /\ on' = on \ {t.id}
    /\ UNCHANGED <<sidebarShown, popupShown, allowSlide, html, visible, hiding>>

\* The element the popup was found in when it was hidden loses its classes, the first
\* entry of its id leaves the stack, and with the last one the page's class.
PopupOff(t) ==
    /\ t.kind = "popupOff"
    /\ allowSlide' = TRUE
    /\ visible' = visible \ t.found
    /\ on' = on \ t.found
    /\ hiding' = hiding \ t.found
    /\ popupShown' = Unstack(t.id)
    /\ html' = IF popupShown # << >> /\ popupShown' = << >>
               THEN html \ {"popupShown"} ELSE html
    /\ UNCHANGED sidebarShown

Fire ==
    \E t \in timeouts :
        /\ t.left = 0
        /\ TurnOn(t) \/ SidebarOff(t) \/ PopupOff(t)
        /\ timeouts' = timeouts \ {t}
        /\ UNCHANGED <<dropdownShown, show, ending, careful>>

Tick ==
    /\ timeouts # {}
    /\ \A t \in timeouts : t.left > 0
    /\ timeouts' = {[t EXCEPT !.left = @ - 1] : t \in timeouts}
    /\ UNCHANGED <<sidebarShown, popupShown, dropdownShown, allowSlide, html, visible,
                   on, hiding, show, ending, careful>>

Next == UserActs \/ (\E d \in Dropdowns : TransitionEnds(d)) \/ Fire \/ Tick

Spec == Init /\ [][Next]_vars

-----------------------------------------------------------------------------
(* Properties *)

\* A sidebar is visible exactly when the page takes it to be, alone, and, if
\* all of them are animated, it is on or about to be: the timeout that took
\* another off, or this one when it was last hidden, does not come back to it.
SidebarsAgree ==
    /\ Cardinality(visible \cap Sidebars) = IF sidebarShown THEN 1 ELSE 0
    /\ sidebarShown <=> "sidebarShown" \in html
    /\ Sidebars \subseteq Animated =>
          \A s \in visible \cap Sidebars :
              /\ s \in on \/ \E t \in timeouts : t.kind = "sidebarOn" /\ t.id = s
              /\ ~ \E t \in timeouts : t.kind = "sidebarOff" /\ t.id = s

\* The stack tells which popups are visible, once none is closing, to a user
\* who lets them close; the class of the page tells whether there are any.
PopupsAgree ==
    /\ TypeOK
    /\ popupShown # << >> <=> "popupShown" \in html
    /\ hiding \subseteq {t.id : t \in Closing}
    /\ careful /\ Closing = {} =>
          /\ visible \cap Popups = ToSet(popupShown)
          /\ IsInjective(popupShown)

\* Sliding is never left locked by what is no longer open.
SlidingReleased == allowSlide \/ sidebarShown \/ popupShown # << >>

\* A dropdown is not forgotten open: the page knows one is shown, or this one is on its
\* way out.  The converse holds, for the class of the page as well, to a user who waits
\* for each dropdown to go; to another it does not (DropdownsAreThere).
DropdownsAgree ==
    /\ dropdownShown \/ show \subseteq ending
    /\ careful => /\ dropdownShown <=> show \ ending # {}
                  /\ dropdownShown <=> "dropdownShown" \in html

\* A sidebar that is visible is known to be, and one that is known is visible; so it is
\* with dropdowns for a careful user, and for any a dropdown that is open is known or
\* going.
PanelsAreKnown == SidebarsAgree /\ DropdownsAgree

-----------------------------------------------------------------------------
(* What the code does not do.                                              *)

\* What one would expect of dropdownShown.  One whose hiding is under way, and whose
\* trigger is clicked again, is taken away by the end of that hiding, which leaves
\* dropdownShown as it is and the page without its class (slides.js 1815-1818).
DropdownsAreThere == dropdownShown => show # {}
=============================================================================
