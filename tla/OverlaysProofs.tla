---------------------------- MODULE OverlaysProofs ----------------------------
(***************************************************************************)
(* Theorems about the sidebars, popups and dropdowns, for any number of     *)
(* them, animated or not, any delays and bounds.                            *)
(***************************************************************************)
EXTENDS Overlays, FiniteSetTheorems, WellFoundedInduction, TLAPS

\* The timeouts of popups are popups' and those of sidebars are sidebars'.
IsTimeout(t) ==
    /\ {"kind", "id", "found"} \subseteq DOMAIN t
    /\ t.kind \in {"popupOn", "popupOff"} => t.id \in Popups /\ t.found \subseteq Popups
    /\ t.kind \in {"sidebarOn", "sidebarOff"} => t.id \in Sidebars
    /\ t.kind \in Kinds

Stacked == popupShown \in Seq(Popups) /\ \A t \in timeouts : IsTimeout(t)

-----------------------------------------------------------------------------
(* What the functions of the page leave of the timeouts *)

LEMMA NewTimeout ==
    ASSUME NEW delay, NEW copy
    PROVE  /\ \A p \in Popups : \A found \in SUBSET Popups :
                 /\ IsTimeout(Timeout("popupOn", delay, p, found, copy))
                 /\ IsTimeout(Timeout("popupOff", delay, p, found, copy))
           /\ \A s \in Sidebars : \A found :
                 /\ IsTimeout(Timeout("sidebarOn", delay, s, found, copy))
                 /\ IsTimeout(Timeout("sidebarOff", delay, s, found, copy))
           /\ \A kind, id, found :
                 /\ Timeout(kind, delay, id, found, copy).kind = kind
                 /\ Timeout(kind, delay, id, found, copy).id = id
                 /\ Timeout(kind, delay, id, found, copy).found = found
BY SMT DEF Timeout, IsTimeout, Kinds

\* What is left of a timeout does not change the rest, nor does what it found.
LEMMA Retouched ==
    ASSUME NEW t, IsTimeout(t), NEW v
    PROVE  /\ IsTimeout([t EXCEPT !.left = v]) /\ IsTimeout([t EXCEPT !.found = {}])
           /\ [t EXCEPT !.left = v].kind = t.kind /\ [t EXCEPT !.left = v].id = t.id
           /\ [t EXCEPT !.found = {}].kind = t.kind /\ [t EXCEPT !.found = {}].id = t.id
           /\ [t EXCEPT !.left = v].found = t.found /\ [t EXCEPT !.found = {}].found = {}
BY SMT DEF IsTimeout

\* hideSidebar keeps the timeouts, but for what the sidebars' have found, and
\* adds those of sidebars.
LEMMA SidebarTimeoutsType ==
    ASSUME Stacked
    PROVE  /\ \A t \in SidebarTimeouts :
                 IsTimeout(t) /\ (t.kind = "sidebarOff" \/ t \in timeouts)
           /\ \A t \in timeouts : t.kind # "sidebarOff" => t \in SidebarTimeouts
<1>1. ASSUME NEW t \in timeouts, t.kind = "sidebarOff"
      PROVE  /\ IsTimeout([t EXCEPT !.found = {}])
             /\ [t EXCEPT !.found = {}].kind = "sidebarOff"
  BY <1>1, Retouched DEF Stacked
<1>2. ASSUME NEW s \in visible \cap Sidebars
      PROVE  /\ IsTimeout(Timeout("sidebarOff", Pause, s, {s}, 0))
             /\ Timeout("sidebarOff", Pause, s, {s}, 0).kind = "sidebarOff"
  BY <1>2, NewTimeout
<1>3. ASSUME NEW t \in SidebarTimeouts
      PROVE  IsTimeout(t) /\ (t.kind = "sidebarOff" \/ t \in timeouts)
  BY <1>1, <1>2 DEF SidebarTimeouts, Stacked
<1>4. ASSUME NEW t \in timeouts, t.kind # "sidebarOff"
      PROVE  t \in SidebarTimeouts
  BY <1>4 DEF SidebarTimeouts
<1> QED
  BY <1>3, <1>4

\* hidePopup adds those of popups.
LEMMA PopupTimeoutsType ==
    ASSUME NEW ids \in Seq(Popups)
    PROVE  \A t \in PopupTimeouts(ids) : IsTimeout(t) /\ t.kind = "popupOff"
<1>1. ASSUME NEW i \in DOMAIN ids, NEW copy
      PROVE  LET t == Timeout("popupOff", Pause, ids[i], {ids[i]} \cap visible, copy)
             IN  IsTimeout(t) /\ t.kind = "popupOff"
  <2>1. ids[i] \in Popups
    BY <1>1
  <2> DEFINE found == {ids[i]} \cap visible
  <2>2. found \in SUBSET Popups
    BY <2>1
  <2> HIDE DEF found
  <2>3. IsTimeout(Timeout("popupOff", Pause, ids[i], found, copy))
    BY <2>1, <2>2, NewTimeout
  <2>4. Timeout("popupOff", Pause, ids[i], found, copy).kind = "popupOff"
    BY NewTimeout
  <2> QED
    BY <2>3, <2>4 DEF found
<1> QED
  BY <1>1 DEF PopupTimeouts

\* What hidePopup is called for is popups.
LEMMA TopType ==
    ASSUME Stacked
    PROVE  Top \in Seq(Popups) /\ \A p \in Popups : <<p>> \in Seq(Popups)
                                                   /\ <<p>> \o Top \in Seq(Popups)
<1>1. popupShown # << >> => popupShown[Len(popupShown)] \in Popups
  BY DEF Stacked
<1>2. Top \in Seq(Popups)
  BY <1>1 DEF Top, Last
<1> QED
  BY <1>2

LEMMA Smallest ==
    ASSUME NEW I \in SUBSET Nat, I # {}
    PROVE  \E x \in I : \A y \in I : x <= y
<1> DEFINE R == {ss \in Nat \X Nat : ss[1] < ss[2]}
<1>1. IsWellFoundedOn(R, Nat)
  BY NatLessThanWellFounded DEF OpToRel
<1> HIDE DEF R
<1>2. \E x \in I : \A y \in I : ~(<<y, x>> \in R)
  BY <1>1, WFMin
<1>3. ASSUME NEW x \in I, NEW y \in I, ~(<<y, x>> \in R)
      PROVE  x <= y
  BY <1>3 DEF R
<1> QED
  BY <1>2, <1>3

\* What leaves the stack is the first entry of the popup, if there is one.
LEMMA UnstackShape ==
    ASSUME Stacked, NEW p
    PROVE  \/ /\ Unstack(p) = popupShown
              /\ \A i \in 1 .. Len(popupShown) : popupShown[i] # p
           \/ \E first \in 1 .. Len(popupShown) :
                 /\ popupShown[first] = p
                 /\ Unstack(p) = SubSeq(popupShown, 1, first - 1)
                                 \o SubSeq(popupShown, first + 1, Len(popupShown))
<1> DEFINE I == {i \in 1 .. Len(popupShown) : popupShown[i] = p}
           first == CHOOSE x \in I : \A y \in I : x <= y
<1>1. popupShown \in Seq(Popups) /\ Len(popupShown) \in Nat
  BY DEF Stacked
<1>2. CASE I = {}
  BY <1>1, <1>2 DEF Unstack, RemoveFirst
<1>3. CASE I # {}
  <2>1. first \in I
    <3>1. I \in SUBSET Nat
      BY <1>1
    <3> HIDE DEF I
    <3>2. \E x \in I : \A y \in I : x <= y
      BY <1>3, <3>1, Smallest
    <3> QED
      BY Zenon, <3>2
  <2>2. Unstack(p) = SubSeq(popupShown, 1, first - 1)
                     \o SubSeq(popupShown, first + 1, Len(popupShown))
    <3>1. \E i \in 1 .. Len(popupShown) : popupShown[i] = p
      BY <1>3
    <3>2. SelectInSeq(popupShown, LAMBDA v : v = p) = first
      BY Zenon, <1>3 DEF SelectInSeq, Min
    <3> QED
      BY <3>1, <3>2 DEF Unstack, RemoveFirst, RemoveAt, SelectInSeq, Min
  <2> HIDE DEF first
  <2> QED
    BY Zenon, <2>1, <2>2
<1> QED
  BY <1>2, <1>3

\* The stack without it is a stack of popups.
LEMMA UnstackType ==
    ASSUME Stacked, NEW p
    PROVE  Unstack(p) \in Seq(Popups)
<1>1. popupShown \in Seq(Popups) /\ Len(popupShown) \in Nat
  BY DEF Stacked
<1>2. ASSUME NEW first \in 1 .. Len(popupShown)
      PROVE  SubSeq(popupShown, 1, first - 1)
             \o SubSeq(popupShown, first + 1, Len(popupShown)) \in Seq(Popups)
  BY <1>1
<1> QED
  BY Zenon, <1>1, <1>2, UnstackShape

-----------------------------------------------------------------------------
(* The stack and the timeouts keep their types *)

LEMMA StackedStep ==
    ASSUME Stacked, [Next]_vars
    PROVE  Stacked'
<1> DEFINE hidden == IF sidebarShown THEN SidebarTimeouts ELSE timeouts
<1>0. /\ \A t \in timeouts : IsTimeout(t)
      /\ \A t \in hidden : IsTimeout(t)
      /\ popupShown \in Seq(Popups)
  BY SidebarTimeoutsType DEF Stacked
<1> HIDE DEF hidden
<1>k. ASSUME popupShown' = popupShown, timeouts' = timeouts \/ timeouts' = hidden
      PROVE  Stacked'
  BY <1>0, <1>k DEF Stacked
<1>1. ASSUME NEW s \in Sidebars, ShowSidebar(s)
      PROVE  Stacked'
  <2>1. CASE sidebarShown
    BY <1>k, <1>1, <2>1 DEF ShowSidebar, HideSidebar, hidden
  <2>2. CASE ~sidebarShown
    <3>1. IsTimeout(Timeout("sidebarOn", Soon, s, {}, 0))
      BY NewTimeout
    <3>2. /\ popupShown' = popupShown
          /\ timeouts' \subseteq timeouts \cup {Timeout("sidebarOn", Soon, s, {}, 0)}
      BY <1>1, <2>2 DEF ShowSidebar, RemovalCleared
    <3> QED
      BY <1>0, <3>1, <3>2 DEF Stacked
  <2> QED
    BY <2>1, <2>2
<1>2. ASSUME NEW p \in Popups, ShowPopup(p)
      PROVE  Stacked'
  <2>1. IsTimeout(Timeout("popupOn", Soon, p, {}, 0))
    BY NewTimeout
  <2>2. /\ popupShown' = Append(popupShown, p)
        /\ timeouts' \subseteq hidden \cup {Timeout("popupOn", Soon, p, {}, 0)}
    BY <1>2 DEF ShowPopup, hidden
  <2> QED
    BY <1>0, <2>1, <2>2 DEF Stacked
<1>3. ASSUME NEW ids \in Seq(Popups), popupShown' = popupShown,
             timeouts' = timeouts \cup PopupTimeouts(ids)
             \/ timeouts' = hidden \cup PopupTimeouts(ids)
      PROVE  Stacked'
  BY <1>0, <1>3, PopupTimeoutsType DEF Stacked
<1>4. ASSUME NEW p \in Popups, ClosePopup(p)
      PROVE  Stacked'
  BY <1>3, <1>4, TopType DEF ClosePopup, ClickHides
<1>5. CASE ClickHides(Top) \/ Esc
  BY <1>3, <1>5, TopType DEF ClickHides, Esc, hidden
<1>6. ASSUME NEW target, MouseUp(target)
      PROVE  Stacked'
  BY <1>k, <1>6 DEF MouseUp, HideSidebar, hidden
<1>7. ASSUME NEW d, NEW hover, ShowDropdown(d, hover)
      PROVE  Stacked'
  BY <1>k, <1>7 DEF ShowDropdown
<1>8. CASE CloseSidebar \/ Resize \/ SlideShown
  BY <1>k, <1>8 DEF CloseSidebar, Resize, SlideShown, HideSidebar, hidden
<1>9. ASSUME NEW d, TransitionEnds(d)
      PROVE  Stacked'
  BY <1>k, <1>9 DEF TransitionEnds
<1>10. CASE Fire
  <2>1. PICK t \in timeouts : TurnOn(t) \/ SidebarOff(t) \/ PopupOff(t)
    BY <1>10 DEF Fire
  <2>2. timeouts' \subseteq timeouts
    BY <1>10 DEF Fire
  <2>3. popupShown' = popupShown \/ popupShown' = Unstack(t.id)
    BY <2>1 DEF TurnOn, SidebarOff, PopupOff
  <2> QED
    BY <1>0, <2>2, <2>3, UnstackType DEF Stacked
<1>11. CASE Tick
  <2>1. timeouts' = {[t EXCEPT !.left = @ - 1] : t \in timeouts} /\ popupShown' = popupShown
    BY <1>11 DEF Tick
  <2>2. \A t \in timeouts : IsTimeout([t EXCEPT !.left = t.left - 1])
    BY <1>0, Retouched
  <2> QED
    BY <1>0, <2>1, <2>2 DEF Stacked
<1>12. CASE UNCHANGED vars
  BY <1>k, <1>12 DEF vars
<1> QED
  BY <1>1, <1>2, <1>4, <1>5, <1>6, <1>7, <1>8, <1>9, <1>10, <1>11, <1>12
  DEF Next, UserActs

-----------------------------------------------------------------------------
(* Sliding and dropdowns *)

LEMMA SlidingStep ==
    ASSUME Stacked, SlidingReleased, [Next]_vars
    PROVE  SlidingReleased'
<1>0. ASSUME NEW p \in Popups
      PROVE  Append(popupShown, p) # << >>
  <2>1. popupShown \in Seq(Popups) /\ Len(popupShown) \in Nat
    BY DEF Stacked
  <2>2. Len(Append(popupShown, p)) = Len(popupShown) + 1
    BY <2>1
  <2> QED
    BY <2>1, <2>2
<1> USE DEF SlidingReleased
<1>1. ASSUME NEW s \in Sidebars, ShowSidebar(s)
      PROVE  SlidingReleased'
  BY <1>1 DEF ShowSidebar, HideSidebar
<1>2. ASSUME NEW p \in Popups, ShowPopup(p) \/ ClosePopup(p)
      PROVE  SlidingReleased'
  BY <1>0, <1>2 DEF ShowPopup, ClosePopup, ClickHides
<1>3. CASE ClickHides(Top) \/ Esc
  BY <1>3 DEF ClickHides, Esc
<1>4. ASSUME NEW target, MouseUp(target)
      PROVE  SlidingReleased'
  BY <1>4 DEF MouseUp, HideSidebar
<1>5. ASSUME NEW d, NEW hover, ShowDropdown(d, hover)
      PROVE  SlidingReleased'
  BY <1>5 DEF ShowDropdown
<1>6. CASE CloseSidebar \/ Resize \/ SlideShown
  BY <1>6 DEF CloseSidebar, Resize, SlideShown, HideSidebar
<1>7. ASSUME NEW d, TransitionEnds(d)
      PROVE  SlidingReleased'
  BY <1>7 DEF TransitionEnds
<1>8. CASE Fire
  BY <1>8 DEF Fire, TurnOn, SidebarOff, PopupOff
<1>9. CASE Tick \/ UNCHANGED vars
  BY <1>9 DEF Tick, vars
<1> QED
  BY <1>1, <1>2, <1>3, <1>4, <1>5, <1>6, <1>7, <1>8, <1>9 DEF Next, UserActs

\* A dropdown that the page takes to be shown is, and none is closing; else all that are
\* open are closing; and the class of the page says which: for a careful user.  For any,
\* what is open while the page takes none to be is closing.
DropdownsKept ==
    /\ dropdownShown \/ show \subseteq ending
    /\ careful => /\ IF dropdownShown THEN show # {} /\ ending = {} ELSE ending = show
                  /\ dropdownShown <=> "dropdownShown" \in html

DropdownTypes == dropdownShown \in BOOLEAN /\ careful \in BOOLEAN

\* A handler that calls hideDropdown.
LEMMA DropdownHides ==
    ASSUME DropdownTypes, DropdownsKept, HideDropdown, UNCHANGED <<show, careful>>,
           "dropdownShown" \in html' <=> "dropdownShown" \in html /\ ~dropdownShown
    PROVE  DropdownTypes' /\ DropdownsKept'
  BY DEF DropdownTypes, DropdownsKept, HideDropdown

\* A step that leaves the dropdowns alone.
LEMMA DropdownsAlone ==
    ASSUME DropdownTypes, DropdownsKept,
           UNCHANGED <<dropdownShown, show, ending, careful>>,
           "dropdownShown" \in html' <=> "dropdownShown" \in html
    PROVE  DropdownTypes' /\ DropdownsKept'
  BY DEF DropdownTypes, DropdownsKept

LEMMA DropdownsStep ==
    ASSUME DropdownTypes, DropdownsKept, [Next]_vars
    PROVE  DropdownTypes' /\ DropdownsKept'
<1>1. \A b : "dropdownShown" \in Without(b) <=> "dropdownShown" \in html /\ ~dropdownShown
  BY DEF Without
<1>2. ASSUME NEW s \in Sidebars, ShowSidebar(s)
      PROVE  DropdownTypes' /\ DropdownsKept'
  <2>1. /\ HideDropdown /\ UNCHANGED <<show, careful>>
        /\ html' \in {Without(TRUE), Without(FALSE) \cup {"sidebarShown"}}
    BY <1>2 DEF ShowSidebar
  <2>2. "dropdownShown" \in html' <=> "dropdownShown" \in html /\ ~dropdownShown
    BY <1>1, <2>1
  <2> QED
    BY <2>1, <2>2, DropdownHides
<1>3. ASSUME NEW p \in Popups, ShowPopup(p)
      PROVE  DropdownTypes' /\ DropdownsKept'
  <2>1. /\ HideDropdown /\ UNCHANGED <<show, careful>>
        /\ html' = Without(TRUE) \cup {"popupShown"}
    BY <1>3 DEF ShowPopup
  <2>2. "dropdownShown" \in html' <=> "dropdownShown" \in html /\ ~dropdownShown
    BY <1>1, <2>1
  <2> QED
    BY <2>1, <2>2, DropdownHides
<1>4. ASSUME NEW ids, ClickHides(ids)
      PROVE  DropdownTypes' /\ DropdownsKept'
  <2>1. UNCHANGED <<dropdownShown, show, ending, careful, html>>
    BY <1>4 DEF ClickHides
  <2> QED
    BY <2>1, DropdownsAlone
<1>5. CASE Esc \/ Resize \/ SlideShown
  <2>1. /\ HideDropdown /\ UNCHANGED <<show, careful>>
        /\ html' = Without(TRUE) \/ html' = Without(FALSE)
    BY <1>5 DEF Esc, Resize, SlideShown
  <2>2. "dropdownShown" \in html' <=> "dropdownShown" \in html /\ ~dropdownShown
    BY <1>1, <2>1
  <2> QED
    BY <2>1, <2>2, DropdownHides
<1>6. ASSUME NEW target, MouseUp(target)
      PROVE  DropdownTypes' /\ DropdownsKept'
  <2>1. CASE OutsideDropdown(target)
    <3>1. HideDropdown /\ UNCHANGED <<show, careful>>
      BY <1>6, <2>1 DEF MouseUp
    <3>2. "dropdownShown" \in html' <=> "dropdownShown" \in html /\ ~dropdownShown
      BY <1>6, <2>1 DEF MouseUp
    <3> QED
      BY <3>1, <3>2, DropdownHides
  <2>2. CASE ~OutsideDropdown(target)
    <3>1. UNCHANGED <<dropdownShown, show, ending, careful>>
      BY <1>6, <2>2 DEF MouseUp
    <3>2. "dropdownShown" \in html' <=> "dropdownShown" \in html
      BY <1>6, <2>2 DEF MouseUp
    <3> QED
      BY <3>1, <3>2, DropdownsAlone
  <2> QED
    BY <2>1, <2>2
<1>7. ASSUME NEW d \in Dropdowns, NEW hover, ShowDropdown(d, hover)
      PROVE  DropdownTypes' /\ DropdownsKept'
  <2>1. /\ careful => show = {}
        /\ ending' = (IF dropdownShown /\ ~hover THEN ending \cup show ELSE ending)
        /\ show' = show \cup {d} /\ dropdownShown' = TRUE
        /\ html' = html \cup {"dropdownShown"} /\ careful' = careful
    BY <1>7 DEF ShowDropdown
  <2>2. careful => ending' = {}
    BY <2>1 DEF DropdownsKept, DropdownTypes
  <2> QED
    BY <2>1, <2>2 DEF DropdownsKept, DropdownTypes
<1>8. CASE CloseSidebar
  <2>1. /\ UNCHANGED <<dropdownShown, show, ending, careful>>
        /\ "dropdownShown" \in html' <=> "dropdownShown" \in html
    BY <1>8 DEF CloseSidebar
  <2> QED
    BY <2>1, DropdownsAlone
<1>9. ASSUME NEW d \in Dropdowns, TransitionEnds(d)
      PROVE  DropdownTypes' /\ DropdownsKept'
  BY <1>9 DEF TransitionEnds, DropdownsKept, DropdownTypes
<1>10. CASE Fire
  <2>1. /\ UNCHANGED <<dropdownShown, show, ending, careful>>
        /\ "dropdownShown" \in html' <=> "dropdownShown" \in html
    BY <1>10 DEF Fire, TurnOn, SidebarOff, PopupOff
  <2> QED
    BY <2>1, DropdownsAlone
<1>11. CASE Tick \/ UNCHANGED vars
  <2>1. UNCHANGED <<dropdownShown, show, ending, careful, html>>
    BY <1>11 DEF Tick, vars
  <2> QED
    BY <2>1, DropdownsAlone
<1> QED
  BY <1>2, <1>3, <1>4, <1>5, <1>6, <1>7, <1>8, <1>9, <1>10, <1>11
     DEF Next, UserActs, ClosePopup

LEMMA StackedAlways == Spec => []Stacked
<1>1. Init => Stacked
  BY DEF Init, Stacked
<1> QED
  BY <1>1, StackedStep, PTL DEF Spec

\* Swipes and the wheel are locked only while a sidebar is shown or a popup is
\* in the stack: no order of opening and closing leaves the slides locked.
THEOREM SlidingIsReleased == Spec => []SlidingReleased
<1>1. Init => SlidingReleased
  BY DEF Init, SlidingReleased
<1> QED
  BY <1>1, SlidingStep, StackedAlways, PTL DEF Spec

-----------------------------------------------------------------------------
(* Sidebars *)

\* One sidebar is visible while the page takes one to be shown.
OneVisible ==
    /\ sidebarShown \in BOOLEAN
    /\ sidebarShown => \E s \in Sidebars : visible \cap Sidebars = {s}
    /\ ~sidebarShown => visible \cap Sidebars = {}
    /\ sidebarShown <=> "sidebarShown" \in html

\* No removal of classes waits while a sidebar is shown, and none that waits is
\* unknown to removeAnimationTimeout.
NoneGoesOff ==
    /\ sidebarShown => \A t \in timeouts : t.kind # "sidebarOff"
    /\ \A t \in timeouts : t.kind = "sidebarOff" => t.found # {}
    /\ \A s \in visible \cap Sidebars :
          s \in on \/ \E t \in timeouts : t.kind = "sidebarOn" /\ t.id = s

SidebarsHeld == OneVisible /\ (Sidebars \subseteq Animated => NoneGoesOff)

LEMMA SidebarsHeldAgree == SidebarsHeld => SidebarsAgree
<1>1. Cardinality({}) = 0 /\ \A s : Cardinality({s}) = 1
  BY FS_EmptySet, FS_Singleton
<1>2. SidebarsHeld => Cardinality(visible \cap Sidebars) = IF sidebarShown THEN 1 ELSE 0
  BY <1>1 DEF SidebarsHeld, OneVisible
<1>3. ASSUME SidebarsHeld, Sidebars \subseteq Animated, NEW s \in visible \cap Sidebars
      PROVE  /\ s \in on \/ \E t \in timeouts : t.kind = "sidebarOn" /\ t.id = s
             /\ ~ \E t \in timeouts : t.kind = "sidebarOff" /\ t.id = s
  BY <1>3 DEF SidebarsHeld, OneVisible, NoneGoesOff
<1> QED
  BY <1>2, <1>3 DEF SidebarsAgree, SidebarsHeld, OneVisible

LEMMA SidebarsStep ==
    ASSUME Stacked, SidebarsHeld, [Next]_vars
    PROVE  SidebarsHeld'
<1> DEFINE hidden == IF sidebarShown THEN SidebarTimeouts ELSE timeouts
<1>0. Sidebars \cap Popups = {}
  BY OverlayAssumption
<1>o. OneVisible /\ (Sidebars \subseteq Animated => NoneGoesOff)
  BY DEF SidebarsHeld
<1>a. ASSUME Sidebars \subseteq Animated, NEW t \in hidden, t.kind = "sidebarOff"
      PROVE  t.found # {}
  <2>1. CASE ~sidebarShown
    BY <1>a, <1>o, <2>1 DEF NoneGoesOff
  <2>2. CASE sidebarShown
    <3>1. \A u \in timeouts : u.kind # "sidebarOff"
      BY <1>a, <1>o, <2>2 DEF NoneGoesOff
    <3>2. t \in timeouts \/ \E s \in visible \cap Sidebars :
                               t = Timeout("sidebarOff", Pause, s, {s}, 0)
      BY <1>a, <2>2, <3>1 DEF SidebarTimeouts
    <3>3. \A s : Timeout("sidebarOff", Pause, s, {s}, 0).found = {s}
      BY NewTimeout
    <3> QED
      BY <1>a, <3>1, <3>2, <3>3
  <2> QED
    BY <1>o, <2>1, <2>2 DEF OneVisible
<1> HIDE DEF hidden
\* A step that hides the sidebar.
<1>h. ASSUME sidebarShown' = FALSE, visible' \cap Sidebars = {},
             "sidebarShown" \notin html',
             \A t \in timeouts' : t.kind = "sidebarOff" => t \in hidden
      PROVE  SidebarsHeld'
  <2>1. OneVisible'
    BY <1>h DEF OneVisible
  <2>2. (Sidebars \subseteq Animated => NoneGoesOff)'
    BY <1>a, <1>h DEF NoneGoesOff
  <2> QED
    BY <2>1, <2>2 DEF SidebarsHeld
\* A step that leaves the sidebars as they are.
<1>k. ASSUME sidebarShown' = sidebarShown,
             visible' \cap Sidebars = visible \cap Sidebars,
             "sidebarShown" \in html' <=> "sidebarShown" \in html,
             \A t \in timeouts' : t.kind = "sidebarOff" => t \in timeouts,
             \A t \in timeouts : t.kind = "sidebarOn" => t \in timeouts',
             on \cap Sidebars \subseteq on'
      PROVE  SidebarsHeld'
  <2>1. OneVisible'
    BY <1>k, <1>o DEF OneVisible
  <2>2. (Sidebars \subseteq Animated => NoneGoesOff)'
    BY <1>k, <1>o DEF NoneGoesOff
  <2> QED
    BY <2>1, <2>2 DEF SidebarsHeld
<1>v. /\ ~sidebarShown => visible \cap Sidebars = {} /\ "sidebarShown" \notin html
      /\ "sidebarShown" \notin Without(TRUE)
      /\ "sidebarShown" \in Without(FALSE) <=> "sidebarShown" \in html
  BY <1>o DEF OneVisible, Without
<1>1. ASSUME NEW s \in Sidebars, ShowSidebar(s)
      PROVE  SidebarsHeld'
  <2>1. CASE sidebarShown
    BY <1>1, <1>h, <1>v, <2>1 DEF ShowSidebar, HideSidebar, hidden
  <2>2. CASE ~sidebarShown
    <3>1. /\ sidebarShown' = TRUE /\ visible' = visible \cup {s}
          /\ html' = Without(FALSE) \cup {"sidebarShown"}
          /\ timeouts' = IF s \in Animated
                         THEN RemovalCleared \cup {Timeout("sidebarOn", Soon, s, {}, 0)}
                         ELSE timeouts
      BY <1>1, <2>2 DEF ShowSidebar
    <3>2. visible' \cap Sidebars = {s}
      BY <1>v, <2>2, <3>1
    <3>3. OneVisible'
      BY <3>1, <3>2 DEF OneVisible
    <3>4. ASSUME Sidebars \subseteq Animated
          PROVE  NoneGoesOff'
      <4>1. /\ timeouts' = RemovalCleared \cup {Timeout("sidebarOn", Soon, s, {}, 0)}
            /\ Timeout("sidebarOn", Soon, s, {}, 0).kind = "sidebarOn"
            /\ Timeout("sidebarOn", Soon, s, {}, 0).id = s
        BY <3>1, <3>4, NewTimeout
      <4>2. \A t \in RemovalCleared : t.kind # "sidebarOff"
        BY <1>o, <3>4 DEF RemovalCleared, NoneGoesOff
      <4> QED
        BY <3>2, <4>1, <4>2 DEF NoneGoesOff
    <3> QED
      BY <3>3, <3>4 DEF SidebarsHeld
  <2> QED
    BY <2>1, <2>2
<1>2. ASSUME NEW p \in Popups, ShowPopup(p)
      PROVE  SidebarsHeld'
  <2>1. Timeout("popupOn", Soon, p, {}, 0).kind = "popupOn"
    BY NewTimeout
  <2>2. visible' \cap Sidebars = {}
    BY <1>0, <1>2, <1>v DEF ShowPopup
  <2>3. \A t \in timeouts' : t.kind = "sidebarOff" => t \in hidden
    BY <1>2, <2>1 DEF ShowPopup, hidden
  <2>4. sidebarShown' = FALSE /\ html' = Without(TRUE) \cup {"popupShown"}
    BY <1>2 DEF ShowPopup
  <2> QED
    BY <1>h, <1>v, <2>2, <2>3, <2>4
<1>3. ASSUME NEW ids \in Seq(Popups), ClickHides(ids)
      PROVE  SidebarsHeld'
  <2>1. /\ timeouts' = timeouts \cup PopupTimeouts(ids)
        /\ UNCHANGED <<sidebarShown, visible, html, on>>
    BY <1>3 DEF ClickHides
  <2> QED
    BY <1>k, <2>1, PopupTimeoutsType
<1>4. CASE Esc
  <2>1. /\ sidebarShown' = FALSE /\ html' = Without(TRUE)
        /\ visible' = IF sidebarShown THEN visible \ Sidebars ELSE visible
        /\ timeouts' = hidden \cup PopupTimeouts(Top)
    BY <1>4 DEF Esc, hidden
  <2> QED
    BY <1>h, <1>v, <2>1, TopType, PopupTimeoutsType
<1>5. ASSUME NEW target, MouseUp(target)
      PROVE  SidebarsHeld'
  <2>1. CASE ~OutsideSidebar(target)
    <3>1. /\ UNCHANGED <<sidebarShown, visible, timeouts, on>>
          /\ html' = html \/ html' = html \ {"dropdownShown"}
      BY <1>5, <2>1 DEF MouseUp
    <3> QED
      BY <1>k, <3>1
  <2>2. CASE OutsideSidebar(target)
    <3>1. HideSidebar /\ html' \subseteq html /\ (sidebarShown => "sidebarShown" \notin html')
      BY <1>5, <2>2 DEF MouseUp
    <3> QED
      BY <1>h, <1>o, <1>v, <3>1 DEF HideSidebar, hidden, OneVisible
  <2> QED
    BY <2>1, <2>2
<1>6. ASSUME NEW d, NEW hover, ShowDropdown(d, hover)
      PROVE  SidebarsHeld'
  BY <1>k, <1>6 DEF ShowDropdown
<1>7. CASE CloseSidebar
  BY <1>h, <1>o, <1>v, <1>7 DEF CloseSidebar, HideSidebar, hidden, OneVisible
<1>8. CASE Resize
  BY <1>k, <1>v, <1>8 DEF Resize
<1>9. CASE SlideShown
  BY <1>h, <1>v, <1>9 DEF SlideShown, hidden
<1>10. ASSUME NEW d, TransitionEnds(d)
       PROVE  SidebarsHeld'
  BY <1>k, <1>10 DEF TransitionEnds
<1>11. CASE Fire
  <2>1. PICK t \in timeouts :
           (TurnOn(t) \/ SidebarOff(t) \/ PopupOff(t)) /\ timeouts' = timeouts \ {t}
    BY <1>11 DEF Fire
  <2>2. CASE TurnOn(t)
    <3>1. /\ on' = on \cup {t.id} /\ UNCHANGED <<sidebarShown, visible, html>>
          /\ t.kind # "sidebarOff"
      BY <2>2 DEF TurnOn
    <3>2. OneVisible'
      BY <1>o, <3>1 DEF OneVisible
    <3>3. (Sidebars \subseteq Animated => NoneGoesOff)'
      BY <1>o, <2>1, <3>1 DEF NoneGoesOff
    <3> QED
      BY <3>2, <3>3 DEF SidebarsHeld
  <2>3. CASE SidebarOff(t)
    <3>1. /\ t.kind = "sidebarOff" /\ UNCHANGED <<sidebarShown, visible, html>>
      BY <2>3 DEF SidebarOff
    <3>2. OneVisible'
      BY <1>o, <3>1 DEF OneVisible
    <3>3. (Sidebars \subseteq Animated => NoneGoesOff)'
      BY <1>o, <1>v, <2>1, <3>1 DEF NoneGoesOff
    <3> QED
      BY <3>2, <3>3 DEF SidebarsHeld
  <2>4. CASE PopupOff(t)
    <3>1. /\ t.kind = "popupOff" /\ t.found \subseteq Popups
          /\ visible' = visible \ t.found /\ on' = on \ t.found
          /\ html' = html \/ html' = html \ {"popupShown"}
          /\ sidebarShown' = sidebarShown
      BY <2>1, <2>4 DEF PopupOff, Stacked, IsTimeout
    <3>2. visible' \cap Sidebars = visible \cap Sidebars /\ on \cap Sidebars \subseteq on'
      BY <1>0, <3>1
    <3> QED
      BY <1>k, <2>1, <3>1, <3>2
  <2> QED
    BY <2>1, <2>2, <2>3, <2>4
<1>12. CASE Tick
  <2>1. timeouts' = {[t EXCEPT !.left = @ - 1] : t \in timeouts}
        /\ UNCHANGED <<sidebarShown, visible, html, on>>
    BY <1>12 DEF Tick
  <2>2. ASSUME NEW t \in timeouts
        PROVE  /\ [t EXCEPT !.left = t.left - 1].kind = t.kind
               /\ [t EXCEPT !.left = t.left - 1].id = t.id
               /\ [t EXCEPT !.left = t.left - 1].found = t.found
    BY Retouched DEF Stacked
  <2>3. OneVisible'
    BY <1>o, <2>1 DEF OneVisible
  <2>4. (Sidebars \subseteq Animated => NoneGoesOff)'
    <3> SUFFICES ASSUME Sidebars \subseteq Animated
                 PROVE  NoneGoesOff'
      OBVIOUS
    <3>1. \A u \in timeouts' : \E t \in timeouts : u.kind = t.kind /\ u.found = t.found
      BY <2>1, <2>2
    <3>2. \A t \in timeouts : \E u \in timeouts' : u.kind = t.kind /\ u.id = t.id
      BY <2>1, <2>2
    <3>3. sidebarShown' => \A u \in timeouts' : u.kind # "sidebarOff"
      BY <1>o, <2>1, <3>1 DEF NoneGoesOff
    <3>4. \A u \in timeouts' : u.kind = "sidebarOff" => u.found # {}
      BY <1>o, <3>1 DEF NoneGoesOff
    <3>5. ASSUME NEW s \in visible \cap Sidebars
          PROVE  s \in on \/ \E u \in timeouts' : u.kind = "sidebarOn" /\ u.id = s
      BY <1>o, <3>2 DEF NoneGoesOff
    <3> QED
      BY <2>1, <3>3, <3>4, <3>5 DEF NoneGoesOff
  <2> QED
    BY <2>3, <2>4 DEF SidebarsHeld
<1>13. CASE UNCHANGED vars
  BY <1>k, <1>13 DEF vars
<1> QED
  BY <1>1, <1>2, <1>3, <1>4, <1>5, <1>6, <1>7, <1>8, <1>9, <1>10, <1>11, <1>12, <1>13,
     TopType DEF Next, UserActs, ClosePopup

\* For any sidebars and dropdowns and all delays: one sidebar at most is visible, exactly
\* when the page takes one to be, and as long as it is no timeout takes its classes.  No
\* dropdown is open that the page takes for hidden, unless it is closing; and to a user
\* who waits for each to go, one is open exactly when the page takes one to be.
THEOREM PanelsStayKnown == Spec => []PanelsAreKnown
<1>1. Init => SidebarsHeld /\ DropdownTypes /\ DropdownsKept
  BY DEF Init, SidebarsHeld, OneVisible, NoneGoesOff, DropdownTypes, DropdownsKept
<1>2. SidebarsHeld /\ DropdownTypes /\ DropdownsKept => PanelsAreKnown
  <2>1. DropdownTypes /\ DropdownsKept => DropdownsAgree
    BY DEF DropdownTypes, DropdownsKept, DropdownsAgree
  <2> QED
    BY <2>1, SidebarsHeldAgree DEF PanelsAreKnown
<1> QED
  BY <1>1, <1>2, SidebarsStep, DropdownsStep, StackedAlways, PTL DEF Spec

-----------------------------------------------------------------------------
(* Types *)

TimeoutType == [kind : Kinds, left : Nat, id : Sidebars \cup Popups,
                found : SUBSET (Sidebars \cup Popups), copy : Nat]

\* Finitely many timeouts are set: hidePopup counts those that are alike.
Kept(set) == set \subseteq TimeoutType /\ IsFiniteSet(set)

LEMMA NewRecord ==
    ASSUME NEW kind \in Kinds, NEW delay \in Nat, NEW id \in Sidebars \cup Popups,
           NEW found \in SUBSET (Sidebars \cup Popups), NEW copy \in Nat
    PROVE  Timeout(kind, delay, id, found, copy) \in TimeoutType
BY DEF Timeout, TimeoutType

LEMMA FiniteImage ==
    ASSUME NEW S, IsFiniteSet(S), NEW f
    PROVE  IsFiniteSet({f[x] : x \in S})
<1> DEFINE T == {f[x] : x \in S}
           g == [x \in S |-> f[x]]
<1>1. g \in Surjection(S, T)
  BY DEF Surjection
<1> HIDE DEF g, T
<1>2. IsFiniteSet(T)
  BY <1>1, FS_Surjection
<1> QED
  BY <1>2 DEF T

\* hideSidebar keeps the timeouts' type, as there is one visible sidebar.
LEMMA SidebarTimeoutsKept ==
    ASSUME Kept(timeouts), SidebarsHeld
    PROVE  Kept(SidebarTimeouts)
<1> DEFINE f == [t \in timeouts |->
                    IF t.kind = "sidebarOff" THEN [t EXCEPT !.found = {}] ELSE t]
           g == [s \in Sidebars |-> Timeout("sidebarOff", Pause, s, {s}, 0)]
           old == {f[t] : t \in timeouts}
           new == {g[s] : s \in visible \cap Sidebars}
<1>1. SidebarTimeouts = old \cup new
  BY DEF SidebarTimeouts
<1>2. IsFiniteSet(visible \cap Sidebars)
  <2>1. visible \cap Sidebars = {} \/ \E s : visible \cap Sidebars = {s}
    BY DEF SidebarsHeld, OneVisible
  <2>2. IsFiniteSet({}) /\ \A s : IsFiniteSet({s})
    BY FS_EmptySet, FS_Singleton
  <2> QED
    BY Zenon, <2>1, <2>2
<1>3. old \subseteq TimeoutType
  <2>1. ASSUME NEW t \in timeouts
        PROVE  f[t] \in TimeoutType
    <3>1. t \in TimeoutType
      BY DEF Kept
    <3>2. [t EXCEPT !.found = {}] \in TimeoutType
      BY <3>1 DEF TimeoutType
    <3> QED
      BY <3>1, <3>2
  <2> QED
    BY <2>1
<1>4. new \subseteq TimeoutType
  <2>1. Pause \in Nat /\ 0 \in Nat /\ "sidebarOff" \in Kinds
    BY SMT, OverlayAssumption DEF Kinds
  <2>2. ASSUME NEW s \in Sidebars
        PROVE  g[s] \in TimeoutType
    BY <2>1, NewRecord
  <2> QED
    BY <2>2
<1> HIDE DEF f, g
<1>5. IsFiniteSet(old) /\ IsFiniteSet(new)
  BY <1>2, FiniteImage DEF Kept
<1> HIDE DEF old, new
<1>6. IsFiniteSet(old \cup new)
  BY <1>5, FS_Union
<1> QED
  BY <1>1, <1>3, <1>4, <1>6 DEF Kept

\* So does hidePopup.
LEMMA PopupTimeoutsKept ==
    ASSUME Kept(timeouts), NEW ids \in Seq(Popups)
    PROVE  Kept(PopupTimeouts(ids))
<1> DEFINE found(p) == {p} \cap visible
           alike(p) == {t \in Closing : t.left = Pause /\ t.id = p /\ t.found = found(p)}
           f == [i \in DOMAIN ids |->
                   Timeout("popupOff", Pause, ids[i], found(ids[i]),
                           i + Cardinality(alike(ids[i])))]
<1>1. PopupTimeouts(ids) = IF popupShown = << >> THEN {} ELSE {f[i] : i \in DOMAIN ids}
  BY DEF PopupTimeouts
<1>2. DOMAIN ids = 1 .. Len(ids) /\ Len(ids) \in Nat
  OBVIOUS
<1>3. IsFiniteSet(DOMAIN ids)
  BY <1>2, FS_Interval
<1>4. ASSUME NEW i \in DOMAIN ids
      PROVE  f[i] \in TimeoutType
  <2> DEFINE c == Cardinality(alike(ids[i]))
             o == found(ids[i])
  <2>1. alike(ids[i]) \in SUBSET timeouts
    BY DEF Closing
  <2>2. IsFiniteSet(alike(ids[i]))
    BY <2>1, FS_Subset DEF Kept
  <2>3. c \in Nat
    BY <2>2, FS_CardinalityType
  <2>4. ids[i] \in Popups /\ i \in Nat
    BY <1>2
  <2>5. Pause \in Nat /\ "popupOff" \in Kinds
    BY SMT, OverlayAssumption DEF Kinds
  <2>6. o \in SUBSET (Sidebars \cup Popups)
    BY <2>4
  <2>7. f[i] = Timeout("popupOff", Pause, ids[i], o, i + c)
    OBVIOUS
  <2> HIDE DEF c, o, f
  <2>8. i + c \in Nat
    BY <2>3, <2>4
  <2> QED
    BY <2>4, <2>5, <2>6, <2>7, <2>8, NewRecord
<1> HIDE DEF f
<1>5. IsFiniteSet({f[i] : i \in DOMAIN ids})
  BY <1>3, FiniteImage
<1> QED
  BY <1>1, <1>4, <1>5, FS_EmptySet DEF Kept

\* Every step keeps the timeouts' type: a tick passes only when none is due.
LEMMA KeptStep ==
    ASSUME Kept(timeouts), Stacked, SidebarsHeld, [Next]_vars
    PROVE  Kept(timeouts')
<1> DEFINE hidden == IF sidebarShown THEN SidebarTimeouts ELSE timeouts
<1>0. Kept(timeouts) /\ Kept(hidden)
  BY SidebarTimeoutsKept
<1>n. /\ Soon \in Nat /\ 0 \in Nat /\ {} \in SUBSET (Sidebars \cup Popups)
      /\ "sidebarOn" \in Kinds /\ "popupOn" \in Kinds
  BY SMT, OverlayAssumption DEF Kinds
<1> HIDE DEF hidden
<1>a. ASSUME NEW set, Kept(set), NEW t \in TimeoutType
      PROVE  Kept(set \cup {t})
  BY <1>a, FS_AddElement DEF Kept
<1>u. ASSUME NEW S, NEW T, Kept(S), Kept(T)
      PROVE  Kept(S \cup T)
  BY <1>u, FS_Union DEF Kept
<1>s. ASSUME NEW S, NEW T, Kept(S), T \in SUBSET S
      PROVE  Kept(T)
  BY <1>s, FS_Subset DEF Kept
<1>1. ASSUME NEW s \in Sidebars, ShowSidebar(s)
      PROVE  Kept(timeouts')
  <2>1. \/ timeouts' = hidden \/ timeouts' = timeouts
        \/ timeouts' = RemovalCleared \cup {Timeout("sidebarOn", Soon, s, {}, 0)}
    BY <1>1 DEF ShowSidebar, HideSidebar, hidden
  <2>2. Timeout("sidebarOn", Soon, s, {}, 0) \in TimeoutType
    BY <1>n, NewRecord
  <2>3. Kept(RemovalCleared)
    BY <1>0, <1>s DEF RemovalCleared
  <2> QED
    BY <1>0, <1>a, <2>1, <2>2, <2>3
<1>2. ASSUME NEW p \in Popups, ShowPopup(p)
      PROVE  Kept(timeouts')
  <2>1. \/ timeouts' = hidden
        \/ timeouts' = hidden \cup {Timeout("popupOn", Soon, p, {}, 0)}
    BY <1>2 DEF ShowPopup, hidden
  <2>2. Timeout("popupOn", Soon, p, {}, 0) \in TimeoutType
    BY <1>n, NewRecord
  <2> QED
    BY <1>0, <1>a, <2>1, <2>2
<1>3. ASSUME NEW ids \in Seq(Popups),
             timeouts' = timeouts \cup PopupTimeouts(ids)
             \/ timeouts' = hidden \cup PopupTimeouts(ids)
      PROVE  Kept(timeouts')
  BY <1>0, <1>3, <1>u, PopupTimeoutsKept
<1>4. ASSUME NEW p \in Popups, ClosePopup(p)
      PROVE  Kept(timeouts')
  BY <1>3, <1>4, TopType DEF ClosePopup, ClickHides
<1>5. CASE ClickHides(Top) \/ Esc
  BY <1>3, <1>5, TopType DEF ClickHides, Esc, hidden
<1>6. ASSUME NEW target, MouseUp(target)
      PROVE  Kept(timeouts')
  BY <1>0, <1>6 DEF MouseUp, HideSidebar, hidden
<1>7. ASSUME NEW d, NEW hover, ShowDropdown(d, hover)
      PROVE  Kept(timeouts')
  BY <1>0, <1>7 DEF ShowDropdown
<1>8. CASE CloseSidebar \/ Resize \/ SlideShown
  BY <1>0, <1>8 DEF CloseSidebar, Resize, SlideShown, HideSidebar, hidden
<1>9. ASSUME NEW d, TransitionEnds(d)
      PROVE  Kept(timeouts')
  BY <1>0, <1>9 DEF TransitionEnds
<1>10. CASE Fire
  <2>1. timeouts' \in SUBSET timeouts
    BY <1>10 DEF Fire
  <2> QED
    BY <1>0, <1>s, <2>1
<1>11. CASE Tick
  <2> DEFINE f == [t \in timeouts |-> [t EXCEPT !.left = @ - 1]]
  <2>1. timeouts' = {f[t] : t \in timeouts}
    BY <1>11 DEF Tick
  <2>2. ASSUME NEW t \in timeouts
        PROVE  f[t] \in TimeoutType
    <3>1. t \in TimeoutType /\ t.left > 0
      BY <1>11 DEF Kept, Tick
    <3>2. t.left - 1 \in Nat
      BY SMT, <3>1 DEF TimeoutType
    <3>3. [t EXCEPT !.left = t.left - 1] \in TimeoutType
      BY <3>1, <3>2 DEF TimeoutType
    <3> QED
      BY <3>3
  <2> HIDE DEF f
  <2>3. IsFiniteSet({f[t] : t \in timeouts})
    BY <1>0, FiniteImage DEF Kept
  <2> QED
    BY <2>1, <2>2, <2>3 DEF Kept
<1>12. CASE UNCHANGED vars
  BY <1>0, <1>12 DEF vars
<1> QED
  BY <1>1, <1>2, <1>4, <1>5, <1>6, <1>7, <1>8, <1>9, <1>10, <1>11, <1>12
  DEF Next, UserActs

\* The globals and the classes of the elements.
Classes ==
    /\ {sidebarShown, dropdownShown, allowSlide, careful} \subseteq BOOLEAN
    /\ html \subseteq {"sidebarShown", "popupShown", "dropdownShown"}
    /\ visible \subseteq Sidebars \cup Popups /\ on \subseteq Sidebars \cup Popups
    /\ hiding \subseteq Popups
    /\ show \subseteq Dropdowns /\ ending \subseteq Dropdowns

LEMMA ClassesStep ==
    ASSUME Classes, Kept(timeouts), Stacked, [Next]_vars
    PROVE  Classes'
<1> USE DEF Classes
<1>d. ASSUME HideDropdown
      PROVE  dropdownShown' \in BOOLEAN /\ ending' \subseteq Dropdowns
  BY <1>d DEF HideDropdown
<1>s. ASSUME HideSidebar
      PROVE  /\ {sidebarShown', allowSlide'} \subseteq BOOLEAN
             /\ visible' \subseteq Sidebars \cup Popups
  BY <1>s DEF HideSidebar
<1>w. \A b : Without(b) \subseteq {"sidebarShown", "popupShown", "dropdownShown"}
  BY DEF Without
<1>h. ASSUME NEW ids \in Seq(Popups)
      PROVE  Hiding(ids) \subseteq Popups
  BY DEF Hiding, ToSet
<1>1. ASSUME NEW s \in Sidebars, ShowSidebar(s)
      PROVE  Classes'
  <2>1. /\ HideDropdown /\ UNCHANGED <<hiding, show, careful>>
        /\ on' \in {on, on \ {s}}
        /\ html' \in {Without(TRUE), Without(FALSE) \cup {"sidebarShown"}}
    BY <1>1 DEF ShowSidebar
  <2>2. \/ HideSidebar
        \/ sidebarShown' = TRUE /\ allowSlide' = FALSE /\ visible' = visible \cup {s}
    BY <1>1 DEF ShowSidebar
  <2> QED
    BY <1>d, <1>s, <1>w, <2>1, <2>2
<1>2. ASSUME NEW p \in Popups, ShowPopup(p)
      PROVE  Classes'
  <2>1. /\ HideDropdown /\ UNCHANGED <<on, hiding, show, careful>>
        /\ html' = Without(TRUE) \cup {"popupShown"}
        /\ sidebarShown' = FALSE /\ allowSlide' = FALSE
        /\ visible' \in {visible \cup {p}, (visible \ Sidebars) \cup {p}}
    BY <1>2 DEF ShowPopup
  <2> QED
    BY <1>d, <1>w, <2>1
<1>3. ASSUME NEW ids \in Seq(Popups), ClickHides(ids)
      PROVE  Classes'
  BY <1>3, <1>h DEF ClickHides
<1>4. CASE Esc
  <2>1. /\ HideDropdown /\ UNCHANGED <<on, show, careful>>
        /\ html' = Without(TRUE) /\ hiding' = Hiding(Top)
        /\ sidebarShown' = FALSE /\ allowSlide' = (allowSlide \/ sidebarShown)
        /\ visible' \in {visible, visible \ Sidebars}
    BY <1>4 DEF Esc
  <2> QED
    BY <1>d, <1>h, <1>w, <2>1, TopType
<1>5. ASSUME NEW target, MouseUp(target)
      PROVE  Classes'
  <2>1. /\ UNCHANGED <<on, hiding, show, careful>> /\ html' \subseteq html
        /\ HideSidebar \/ UNCHANGED <<sidebarShown, visible, allowSlide>>
        /\ HideDropdown \/ UNCHANGED <<dropdownShown, ending>>
    BY <1>5 DEF MouseUp
  <2> QED
    BY <1>d, <1>s, <2>1
<1>6. ASSUME NEW d \in Dropdowns, NEW hover, ShowDropdown(d, hover)
      PROVE  Classes'
  BY <1>6 DEF ShowDropdown
<1>7. CASE CloseSidebar
  BY <1>s, <1>7 DEF CloseSidebar
<1>8. CASE Resize
  BY <1>d, <1>w, <1>8 DEF Resize
<1>9. CASE SlideShown
  <2>1. /\ HideDropdown /\ UNCHANGED <<on, hiding, show, careful>>
        /\ html' = Without(TRUE) /\ sidebarShown' = FALSE /\ allowSlide' = TRUE
        /\ visible' \in {visible, visible \ Sidebars}
    BY <1>9 DEF SlideShown
  <2> QED
    BY <1>d, <1>w, <2>1
<1>10. ASSUME NEW d, TransitionEnds(d)
       PROVE  Classes'
  BY <1>10 DEF TransitionEnds
<1>11. CASE Fire
  <2>1. PICK t \in timeouts : TurnOn(t) \/ SidebarOff(t) \/ PopupOff(t)
    BY <1>11 DEF Fire
  <2>2. t.id \in Sidebars \cup Popups
    BY DEF Kept, TimeoutType
  <2>3. UNCHANGED <<dropdownShown, show, ending, careful>>
    BY <1>11 DEF Fire
  <2>4. CASE TurnOn(t) \/ SidebarOff(t)
    BY <2>2, <2>3, <2>4 DEF TurnOn, SidebarOff
  <2>5. CASE PopupOff(t)
    <3>1. /\ sidebarShown' = sidebarShown /\ allowSlide' = TRUE
          /\ visible' = visible \ t.found /\ on' = on \ t.found
          /\ hiding' = hiding \ t.found /\ html' \in {html, html \ {"popupShown"}}
      BY <2>5 DEF PopupOff
    <3> QED
      BY <2>3, <3>1
  <2> QED
    BY <2>1, <2>4, <2>5
<1>12. CASE Tick \/ UNCHANGED vars
  BY <1>12 DEF Tick, vars
<1> QED
  BY <1>1, <1>2, <1>3, <1>4, <1>5, <1>6, <1>7, <1>8, <1>9, <1>10, <1>11, <1>12,
     TopType DEF Next, UserActs, ClosePopup

-----------------------------------------------------------------------------
(* Popups *)

\* The elements of two sequences put together.
LEMMA Joined ==
    ASSUME NEW S, NEW a \in Seq(S), NEW b \in Seq(S)
    PROVE  /\ DOMAIN (a \o b) = 1 .. Len(a) + Len(b)
           /\ \A i \in 1 .. Len(a) + Len(b) :
                 (a \o b)[i] = IF i <= Len(a) THEN a[i] ELSE b[i - Len(a)]
<1>1. a \o b \in Seq(S) /\ Len(a \o b) = Len(a) + Len(b)
  OBVIOUS
<1>2. DOMAIN (a \o b) = 1 .. Len(a \o b)
  BY <1>1
<1>3. \A i \in 1 .. Len(a) + Len(b) :
          (a \o b)[i] = IF i <= Len(a) THEN a[i] ELSE b[i - Len(a)]
  OBVIOUS
<1> QED
  BY <1>1, <1>2, <1>3

\* A sequence without one of its elements.
LEMMA WithoutOne ==
    ASSUME NEW S, NEW s \in Seq(S), NEW f \in 1 .. Len(s), NEW q,
           q = SubSeq(s, 1, f - 1) \o SubSeq(s, f + 1, Len(s))
    PROVE  /\ DOMAIN q = 1 .. Len(s) - 1
           /\ \A i \in 1 .. Len(s) - 1 : q[i] = IF i < f THEN s[i] ELSE s[i + 1]
<1> DEFINE a == SubSeq(s, 1, f - 1)
           b == SubSeq(s, f + 1, Len(s))
<1>0. Len(s) \in Nat /\ f \in Nat /\ 1 <= f /\ f <= Len(s) /\ q = a \o b
  OBVIOUS
<1>1. a \in Seq(S) /\ Len(a) = f - 1 /\ \A i \in 1 .. f - 1 : a[i] = s[i]
  BY <1>0
<1>2. /\ b \in Seq(S) /\ Len(b) = Len(s) - f
      /\ \A i \in 1 .. Len(s) - f : b[i] = s[f + i]
  BY <1>0
<1> HIDE DEF a, b
<1>3. /\ DOMAIN q = 1 .. Len(a) + Len(b)
      /\ \A i \in 1 .. Len(a) + Len(b) : q[i] = IF i <= Len(a) THEN a[i] ELSE b[i - Len(a)]
  <2>1. a \in Seq(S) /\ b \in Seq(S) /\ q = a \o b
    BY <1>0, <1>1, <1>2
  <2>2. /\ DOMAIN (a \o b) = 1 .. Len(a) + Len(b)
        /\ \A i \in 1 .. Len(a) + Len(b) :
              (a \o b)[i] = IF i <= Len(a) THEN a[i] ELSE b[i - Len(a)]
    BY <2>1, Joined
  <2> QED
    BY <2>1, <2>2
<1>4. DOMAIN q = 1 .. Len(s) - 1
  <2>1. Len(a) + Len(b) = Len(s) - 1
    BY SMT, <1>0, <1>1, <1>2
  <2> QED
    BY <1>3, <2>1
<1>5. ASSUME NEW i \in 1 .. Len(s) - 1
      PROVE  q[i] = IF i < f THEN s[i] ELSE s[i + 1]
  <2>0. i \in 1 .. Len(a) + Len(b)
    BY SMT, <1>0, <1>1, <1>2
  <2>1. CASE i < f
    <3>1. i \in 1 .. f - 1 /\ i <= Len(a)
      BY SMT, <1>0, <1>1, <2>1
    <3> QED
      BY <1>1, <1>3, <2>0, <2>1, <3>1
  <2>2. CASE ~(i < f)
    <3>1. /\ i - Len(a) \in 1 .. Len(s) - f /\ f + (i - Len(a)) = i + 1
          /\ ~(i <= Len(a))
      BY SMT, <1>0, <1>1, <2>2
    <3>2. b[i - Len(a)] = s[f + (i - Len(a))]
      BY <1>2, <3>1
    <3> QED
      BY Zenon, <1>3, <2>0, <2>2, <3>1, <3>2
  <2> QED
    BY <2>1, <2>2
<1> QED
  BY <1>4, <1>5

\* A popup that is in the stack once leaves it for good.
LEMMA UnstackInjective ==
    ASSUME Stacked, IsInjective(popupShown), NEW p
    PROVE  IsInjective(Unstack(p)) /\ ToSet(Unstack(p)) = ToSet(popupShown) \ {p}
<1> DEFINE s == popupShown
           n == Len(popupShown)
<1>1. s \in Seq(Popups) /\ n \in Nat /\ DOMAIN s = 1 .. n
  BY DEF Stacked
<1>2. CASE Unstack(p) = s /\ \A i \in 1 .. n : s[i] # p
  BY <1>1, <1>2 DEF ToSet
<1>3. ASSUME NEW f \in 1 .. n, s[f] = p,
             Unstack(p) = SubSeq(s, 1, f - 1) \o SubSeq(s, f + 1, n)
      PROVE  IsInjective(Unstack(p)) /\ ToSet(Unstack(p)) = ToSet(s) \ {p}
  <2> DEFINE q == SubSeq(s, 1, f - 1) \o SubSeq(s, f + 1, n)
  <2>1. /\ DOMAIN q = 1 .. n - 1
        /\ \A i \in 1 .. n - 1 : q[i] = IF i < f THEN s[i] ELSE s[i + 1]
    BY <1>1, <1>3, WithoutOne, Zenon
  <2> HIDE DEF q, s, n
  <2>2. \A i, j \in 1 .. n : s[i] = s[j] => i = j
    BY <1>1 DEF IsInjective, s
  <2>3. \A i, j \in 1 .. n - 1 : q[i] = q[j] => i = j
    BY SMT, <1>1, <2>1, <2>2
  <2>4. \A i \in 1 .. n - 1 : q[i] # p /\ \E j \in 1 .. n : q[i] = s[j]
    BY SMTT(20), <1>1, <1>3, <2>1, <2>2
  <2>5. ASSUME NEW j \in 1 .. n, s[j] # p
        PROVE  \E i \in 1 .. n - 1 : q[i] = s[j]
    <3>1. CASE j < f
      <4>1. j \in 1 .. n - 1 /\ q[j] = s[j]
        BY SMT, <1>1, <2>1, <2>5, <3>1
      <4> QED
        BY <4>1
    <3>2. CASE j > f
      <4>1. j - 1 \in 1 .. n - 1 /\ q[j - 1] = s[j]
        BY SMT, <1>1, <2>1, <2>5, <3>2
      <4> QED
        BY <4>1
    <3> QED
      BY SMT, <1>1, <1>3, <2>5, <3>1, <3>2
  <2>6. IsInjective(q)
    BY <2>1, <2>3 DEF IsInjective
  <2>7. ToSet(q) = ToSet(s) \ {p}
    <3>1. ToSet(q) = {q[i] : i \in 1 .. n - 1} /\ ToSet(s) = {s[j] : j \in 1 .. n}
      BY <1>1, <2>1 DEF ToSet
    <3>2. ASSUME NEW x \in ToSet(q)
          PROVE  x \in ToSet(s) /\ x # p
      BY Zenon, <2>4, <3>1, <3>2
    <3>3. ASSUME NEW x \in ToSet(s), x # p
          PROVE  x \in ToSet(q)
      BY Zenon, <2>5, <3>1, <3>3
    <3> QED
      BY <3>2, <3>3
  <2> QED
    BY <1>3, <2>6, <2>7 DEF q
<1> QED
  BY <1>1, <1>2, <1>3, UnstackShape

\* hidePopup sets a timeout for each popup it is called for, which has found it if it
\* was visible.
LEMMA PopupTimeoutsFound ==
    ASSUME NEW ids \in Seq(Popups)
    PROVE  /\ \A t \in PopupTimeouts(ids) :
                 /\ t.kind = "popupOff" /\ popupShown # << >>
                 /\ \E i \in DOMAIN ids : t.id = ids[i] /\ t.found = {ids[i]} \cap visible
           /\ popupShown # << >> =>
                 \A i \in DOMAIN ids : \E t \in PopupTimeouts(ids) :
                    t.kind = "popupOff" /\ t.found = {ids[i]} \cap visible
<1> DEFINE alike(p) == {t \in Closing : t.left = Pause /\ t.id = p
                                        /\ t.found = {p} \cap visible}
           f == [i \in DOMAIN ids |->
                   Timeout("popupOff", Pause, ids[i], {ids[i]} \cap visible,
                           i + Cardinality(alike(ids[i])))]
<1>1. PopupTimeouts(ids) = IF popupShown = << >> THEN {} ELSE {f[i] : i \in DOMAIN ids}
  BY DEF PopupTimeouts
<1>2. ASSUME NEW i \in DOMAIN ids
      PROVE  f[i].kind = "popupOff" /\ f[i].id = ids[i] /\ f[i].found = {ids[i]} \cap visible
  <2> DEFINE c == i + Cardinality(alike(ids[i]))
             o == {ids[i]} \cap visible
  <2>1. f[i] = Timeout("popupOff", Pause, ids[i], o, c)
    OBVIOUS
  <2> HIDE DEF c, o, f
  <2>2. f[i].kind = "popupOff" /\ f[i].id = ids[i] /\ f[i].found = o
    BY SMT, <2>1 DEF Timeout
  <2> QED
    BY <2>2 DEF o
<1> HIDE DEF f
<1> QED
  BY <1>1, <1>2

\* Stack and class of the page agree; a popup that is being hidden has the timeout that
\* has found it; and to a careful user the stack is what is visible, each once.
PopupsHeld ==
    /\ popupShown # << >> <=> "popupShown" \in html
    /\ \A p \in hiding : \E t \in Closing : p \in t.found
    /\ \A t \in Closing : t.found \subseteq {t.id}
    /\ careful =>
          /\ visible \cap Popups = ToSet(popupShown) /\ IsInjective(popupShown)
          /\ \A t \in Closing : t.found = {t.id}

LEMMA PopupsStep ==
    ASSUME Classes, Stacked, SidebarsHeld, PopupsHeld, [Next]_vars
    PROVE  PopupsHeld'
<1> DEFINE hidden == IF sidebarShown THEN SidebarTimeouts ELSE timeouts
           closing(set) == {t \in set : t.kind = "popupOff"}
<1>0. /\ Sidebars \cap Popups = {} /\ popupShown \in Seq(Popups)
      /\ (visible \ Sidebars) \cap Popups = visible \cap Popups
  BY OverlayAssumption DEF Stacked
<1>e. closing(hidden) = Closing
  BY SidebarTimeoutsType DEF Closing
<1>c. Closing' = closing(timeouts')
  BY DEF Closing
\* What is known of this state.
<1>p. /\ popupShown # << >> <=> "popupShown" \in html
      /\ \A p \in hiding : \E t \in Closing : p \in t.found
      /\ \A t \in Closing : t.found \subseteq {t.id}
      /\ careful =>
            /\ visible \cap Popups = ToSet(popupShown) /\ IsInjective(popupShown)
            /\ \A t \in Closing : t.found = {t.id}
  BY DEF PopupsHeld
<1>w. \A b : "popupShown" \in Without(b) <=> "popupShown" \in html
  BY DEF Without
<1>v. ASSUME HideSidebar
      PROVE  /\ closing(timeouts') = Closing
             /\ visible' \cap Popups = visible \cap Popups
  <2>1. timeouts' \in {hidden, timeouts} /\ visible' \in {visible, visible \ Sidebars}
    BY <1>v DEF HideSidebar
  <2> HIDE DEF hidden
  <2> QED
    BY <1>0, <1>e, <2>1 DEF Closing
<1> HIDE DEF hidden, closing
\* A step that touches no popup.
<1>k. ASSUME popupShown' = popupShown, hiding' = hiding, careful' = careful,
             "popupShown" \in html' <=> "popupShown" \in html,
             visible' \cap Popups = visible \cap Popups, closing(timeouts') = Closing
      PROVE  PopupsHeld'
  BY Zenon, <1>c, <1>k, <1>p DEF PopupsHeld
\* A step that hides popups: a careful user those that are visible.
<1>h. ASSUME NEW ids \in Seq(Popups), careful => ToSet(ids) \subseteq visible,
             popupShown' = popupShown, hiding' = Hiding(ids), careful' = careful,
             "popupShown" \in html' <=> "popupShown" \in html,
             visible' \cap Popups = visible \cap Popups,
             closing(timeouts') = Closing \cup PopupTimeouts(ids)
      PROVE  PopupsHeld'
  <2>1. ASSUME NEW p \in hiding'
        PROVE  \E t \in Closing' : p \in t.found
    <3>1. CASE p \in hiding
      BY <1>c, <1>h, <1>p, <3>1
    <3>2. CASE p \notin hiding
      <4>1. popupShown # << >> /\ p \in ToSet(ids) /\ p \in visible
        BY <1>h, <2>1, <3>2 DEF Hiding
      <4>2. PICK i \in DOMAIN ids : p = ids[i]
        BY <4>1 DEF ToSet
      <4>3. PICK t \in PopupTimeouts(ids) : t.found = {ids[i]} \cap visible
        BY <4>1, PopupTimeoutsFound
      <4> QED
        BY <1>c, <1>h, <4>1, <4>2, <4>3
    <3> QED
      BY <3>1, <3>2
  <2>2. ASSUME NEW t \in Closing'
        PROVE  t.found \subseteq {t.id} /\ (careful => t.found = {t.id})
    <3>1. CASE t \in Closing
      BY <1>p, <3>1
    <3>2. CASE t \in PopupTimeouts(ids)
      <4>1. PICK i \in DOMAIN ids : t.id = ids[i] /\ t.found = {ids[i]} \cap visible
        BY <3>2, PopupTimeoutsFound
      <4>2. careful => ids[i] \in visible
        BY <1>h DEF ToSet
      <4> QED
        BY <4>1, <4>2
    <3> QED
      BY <1>c, <1>h, <2>2, <3>1, <3>2
  <2> QED
    BY Zenon, <1>h, <1>p, <2>1, <2>2 DEF PopupsHeld
<1>t. /\ Top \in Seq(Popups)
      /\ careful => ToSet(Top) \subseteq visible
  <2>1. ASSUME careful, NEW q \in ToSet(Top)
        PROVE  q \in visible
    <3>1. popupShown # << >> /\ q = popupShown[Len(popupShown)]
      BY <2>1 DEF Top, ToSet, Last
    <3>2. Len(popupShown) \in DOMAIN popupShown
      BY <1>0, <3>1
    <3>3. q \in ToSet(popupShown)
      BY <3>1, <3>2 DEF ToSet
    <3> QED
      BY <1>p, <2>1, <3>3
  <2> QED
    BY <2>1, TopType
<1>1. ASSUME NEW s \in Sidebars, ShowSidebar(s)
      PROVE  PopupsHeld'
  <2>0. /\ UNCHANGED <<popupShown, hiding, careful>>
        /\ html' = Without(TRUE) \/ html' = Without(FALSE) \cup {"sidebarShown"}
    BY <1>1 DEF ShowSidebar
  <2>1. /\ UNCHANGED <<popupShown, hiding, careful>>
        /\ "popupShown" \in html' <=> "popupShown" \in html
    BY <1>w, <2>0
  <2>2. CASE sidebarShown
    BY <1>1, <1>k, <1>v, <2>1, <2>2 DEF ShowSidebar
  <2>3. CASE ~sidebarShown
    <3>1. /\ visible' = visible \cup {s}
          /\ \/ timeouts' = RemovalCleared \cup {Timeout("sidebarOn", Soon, s, {}, 0)}
             \/ timeouts' = timeouts
      BY <1>1, <2>3 DEF ShowSidebar
    <3>2. closing(timeouts') = Closing
      BY <3>1, NewTimeout DEF closing, Closing, RemovalCleared
    <3> QED
      BY <1>0, <1>k, <2>1, <3>1, <3>2
  <2> QED
    BY <2>2, <2>3
<1>2. ASSUME NEW p \in Popups, ShowPopup(p)
      PROVE  PopupsHeld'
  <2>1. /\ popupShown' = Append(popupShown, p) /\ "popupShown" \in html'
        /\ UNCHANGED <<hiding, careful>>
        /\ visible' \in {visible \cup {p}, (visible \ Sidebars) \cup {p}}
        /\ \/ timeouts' = hidden
           \/ timeouts' = hidden \cup {Timeout("popupOn", Soon, p, {}, 0)}
        /\ careful => p \notin visible
    BY <1>2 DEF ShowPopup, hidden
  <2>2. Closing' = Closing
    <3> DEFINE new == Timeout("popupOn", Soon, p, {}, 0)
    <3>1. new.kind = "popupOn"
      BY NewTimeout
    <3>2. timeouts' = hidden \/ timeouts' = hidden \cup {new}
      BY <2>1
    <3> HIDE DEF new
    <3>3. closing(timeouts') = closing(hidden)
      BY <3>1, <3>2 DEF closing
    <3> QED
      BY <1>c, <1>e, <3>3
  <2>3. visible' \cap Popups = (visible \cap Popups) \cup {p}
    BY <1>0, <2>1
  <2>4. /\ popupShown' # << >> /\ DOMAIN popupShown = 1 .. Len(popupShown)
        /\ DOMAIN popupShown' = 1 .. Len(popupShown) + 1 /\ Len(popupShown) \in Nat
        /\ popupShown'[Len(popupShown) + 1] = p
        /\ \A i \in 1 .. Len(popupShown) : popupShown'[i] = popupShown[i]
    BY <1>0, <2>1
  <2>5. ToSet(popupShown') = ToSet(popupShown) \cup {p}
    <3>1. ASSUME NEW i \in 1 .. Len(popupShown) + 1
          PROVE  i \in 1 .. Len(popupShown) \/ i = Len(popupShown) + 1
      BY SMT, <2>4
    <3>2. /\ Len(popupShown) + 1 \in 1 .. Len(popupShown) + 1
          /\ 1 .. Len(popupShown) \subseteq 1 .. Len(popupShown) + 1
      BY SMT, <2>4
    <3>3. ASSUME NEW x \in ToSet(popupShown')
          PROVE  x \in ToSet(popupShown) \cup {p}
      BY <2>4, <3>1, <3>3 DEF ToSet
    <3>4. ASSUME NEW x \in ToSet(popupShown) \cup {p}
          PROVE  x \in ToSet(popupShown')
      BY <2>4, <3>2, <3>4 DEF ToSet
    <3> QED
      BY <3>3, <3>4
  <2>6. ASSUME careful
        PROVE  IsInjective(popupShown')
    <3>1. /\ \A i, j \in 1 .. Len(popupShown) : popupShown[i] = popupShown[j] => i = j
          /\ \A i \in 1 .. Len(popupShown) : popupShown[i] # p
      BY <1>p, <2>1, <2>4, <2>6 DEF IsInjective, ToSet
    <3>2. \A i, j \in 1 .. Len(popupShown) + 1 : popupShown'[i] = popupShown'[j] => i = j
      BY SMT, <2>4, <3>1
    <3> QED
      BY <2>4, <3>2 DEF IsInjective
  <2> QED
    BY Zenon, <1>p, <2>1, <2>2, <2>3, <2>4, <2>5, <2>6 DEF PopupsHeld
<1>3. ASSUME NEW ids \in Seq(Popups), careful => ToSet(ids) \subseteq visible,
             ClickHides(ids)
      PROVE  PopupsHeld'
  <2>1. /\ hiding' = Hiding(ids) /\ timeouts' = timeouts \cup PopupTimeouts(ids)
        /\ UNCHANGED <<popupShown, html, visible, careful>>
    BY <1>3 DEF ClickHides
  <2>2. closing(timeouts') = Closing \cup PopupTimeouts(ids)
    BY <2>1, PopupTimeoutsFound DEF closing, Closing
  <2> QED
    BY <1>3, <1>h, <2>1, <2>2
<1>4. ASSUME NEW p \in Popups, ClosePopup(p)
      PROVE  PopupsHeld'
  <2>1. ToSet(<<p>>) = {p} /\ ToSet(<<p>> \o Top) \subseteq {p} \cup ToSet(Top)
    <3>1. ASSUME NEW i \in DOMAIN (<<p>> \o Top)
          PROVE  (<<p>> \o Top)[i] \in {p} \cup ToSet(Top)
      <4>1. Top = << >> \/ \E q : Top = <<q>>
        BY DEF Top
      <4>2. CASE Top = << >>
        BY <3>1, <4>2
      <4>3. ASSUME NEW q, Top = <<q>>
            PROVE  (<<p>> \o Top)[i] \in {p} \cup ToSet(Top)
        BY <3>1, <4>3 DEF ToSet
      <4> QED
        BY <4>1, <4>2, <4>3
    <3> QED
      BY <3>1 DEF ToSet
  <2>2. p \in visible /\ (ClickHides(<<p>>) \/ ClickHides(<<p>> \o Top))
    BY <1>4 DEF ClosePopup
  <2>3. careful => ToSet(<<p>>) \subseteq visible /\ ToSet(<<p>> \o Top) \subseteq visible
    BY <1>t, <2>1, <2>2
  <2> QED
    BY <1>3, <2>2, <2>3, TopType
<1>5. CASE ClickHides(Top)
  BY <1>3, <1>5, <1>t
<1>6. CASE Esc
  <2>1. /\ html' = Without(TRUE) /\ hiding' = Hiding(Top)
        /\ visible' \in {visible, visible \ Sidebars}
        /\ timeouts' = hidden \cup PopupTimeouts(Top)
        /\ UNCHANGED <<popupShown, careful>>
    BY <1>6 DEF Esc, hidden
  <2>2. closing(timeouts') = Closing \cup PopupTimeouts(Top)
    <3>1. \A t \in PopupTimeouts(Top) : t.kind = "popupOff"
      BY <1>t, PopupTimeoutsFound
    <3>2. closing(timeouts') = closing(hidden) \cup PopupTimeouts(Top)
      BY <2>1, <3>1 DEF closing
    <3> QED
      BY <1>e, <3>2
  <2>3. visible' \cap Popups = visible \cap Popups
    BY <1>0, <2>1
  <2> QED
    BY <1>h, <1>t, <1>w, <2>1, <2>2, <2>3
<1>7. ASSUME NEW target, MouseUp(target)
      PROVE  PopupsHeld'
  <2>1. /\ UNCHANGED <<popupShown, hiding, careful>>
        /\ "popupShown" \in html' <=> "popupShown" \in html
        /\ HideSidebar \/ UNCHANGED <<visible, timeouts>>
    BY <1>7 DEF MouseUp
  <2> QED
    BY <1>k, <1>v, <2>1 DEF closing, Closing
<1>8. ASSUME NEW d, NEW hover, ShowDropdown(d, hover)
      PROVE  PopupsHeld'
  BY <1>k, <1>8 DEF ShowDropdown, closing, Closing
<1>9. CASE CloseSidebar
  BY <1>k, <1>v, <1>9 DEF CloseSidebar
<1>10. CASE Resize
  BY <1>k, <1>w, <1>10 DEF Resize, closing, Closing
<1>11. CASE SlideShown
  <2>1. /\ html' = Without(TRUE) /\ UNCHANGED <<popupShown, hiding, careful>>
        /\ visible' \in {visible, visible \ Sidebars} /\ timeouts' = hidden
    BY <1>11 DEF SlideShown, hidden
  <2> QED
    BY <1>0, <1>e, <1>k, <1>w, <2>1
<1>12. ASSUME NEW d, TransitionEnds(d)
       PROVE  PopupsHeld'
  BY <1>k, <1>12 DEF TransitionEnds, closing, Closing
<1>13. CASE Fire
  <2>1. PICK t \in timeouts :
           (TurnOn(t) \/ SidebarOff(t) \/ PopupOff(t)) /\ timeouts' = timeouts \ {t}
           /\ careful' = careful
    BY <1>13 DEF Fire
  <2>2. CASE TurnOn(t) \/ SidebarOff(t)
    <3>1. /\ UNCHANGED <<popupShown, html, visible, hiding>> /\ t.kind # "popupOff"
      BY <2>2 DEF TurnOn, SidebarOff
    <3>2. closing(timeouts') = Closing
      BY <2>1, <3>1 DEF closing, Closing
    <3> QED
      BY <1>k, <2>1, <3>1, <3>2
  <2>3. CASE PopupOff(t)
    <3>1. /\ visible' = visible \ t.found /\ hiding' = hiding \ t.found
          /\ popupShown' = Unstack(t.id) /\ t \in Closing
          /\ html' = IF popupShown # << >> /\ popupShown' = << >>
                     THEN html \ {"popupShown"} ELSE html
      BY <2>1, <2>3 DEF PopupOff, Closing
    <3>2. Closing' = Closing \ {t}
      BY <2>1 DEF Closing
    <3>3. popupShown = << >> => popupShown' = << >>
      BY <3>1 DEF Unstack, RemoveFirst
    <3>4. popupShown' # << >> <=> "popupShown" \in html'
      BY <1>p, <3>1, <3>3
    <3>5. ASSUME NEW p \in hiding'
          PROVE  \E u \in Closing' : p \in u.found
      <4>1. p \in hiding /\ p \notin t.found
        BY <3>1, <3>5
      <4>2. PICK u \in Closing : p \in u.found
        BY <1>p, <4>1
      <4> QED
        BY <3>2, <4>1, <4>2
    <3>6. ASSUME careful
          PROVE  visible' \cap Popups = ToSet(popupShown') /\ IsInjective(popupShown')
      <4>1. t.found = {t.id} /\ IsInjective(popupShown)
            /\ visible \cap Popups = ToSet(popupShown)
        BY <1>p, <3>1, <3>6
      <4>2. IsInjective(popupShown') /\ ToSet(popupShown') = ToSet(popupShown) \ {t.id}
        BY <3>1, <4>1, UnstackInjective
      <4> QED
        BY <3>1, <4>1, <4>2
    <3>7. \A u \in Closing' : u.found \subseteq {u.id} /\ (careful => u.found = {u.id})
      BY <1>p, <3>2
    <3> QED
      BY Zenon, <2>1, <3>4, <3>5, <3>6, <3>7 DEF PopupsHeld
  <2> QED
    BY <2>1, <2>2, <2>3
<1>14. CASE Tick
  <2>1. /\ timeouts' = {[t EXCEPT !.left = @ - 1] : t \in timeouts}
        /\ UNCHANGED <<popupShown, html, visible, hiding, careful>>
    BY <1>14 DEF Tick
  <2>2. ASSUME NEW t \in timeouts
        PROVE  /\ [t EXCEPT !.left = t.left - 1].kind = t.kind
               /\ [t EXCEPT !.left = t.left - 1].id = t.id
               /\ [t EXCEPT !.left = t.left - 1].found = t.found
    BY Retouched DEF Stacked
  <2>3. /\ \A u \in Closing' : \E t \in Closing : u.id = t.id /\ u.found = t.found
        /\ \A t \in Closing : \E u \in Closing' : u.found = t.found
    <3> DEFINE f == [t \in timeouts |-> [t EXCEPT !.left = @ - 1]]
    <3>1. timeouts' = {f[t] : t \in timeouts}
      BY <2>1
    <3>2. \A t \in timeouts :
             f[t].kind = t.kind /\ f[t].id = t.id /\ f[t].found = t.found
      BY <2>2
    <3> HIDE DEF f
    <3> QED
      BY <3>1, <3>2 DEF Closing
  <2>4. \A p \in hiding : \E u \in Closing' : p \in u.found
    BY <1>p, <2>3
  <2>5. \A u \in Closing' : u.found \subseteq {u.id} /\ (careful => u.found = {u.id})
    BY <1>p, <2>3
  <2> QED
    BY Zenon, <1>p, <2>1, <2>4, <2>5 DEF PopupsHeld
<1>15. CASE UNCHANGED vars
  BY <1>k, <1>15 DEF vars, closing, Closing
<1> QED
  BY <1>1, <1>2, <1>4, <1>5, <1>6, <1>7, <1>8, <1>9, <1>10, <1>11, <1>12, <1>13, <1>14,
     <1>15 DEF Next, UserActs

\* The class of the page tells whether a popup is in the stack, no popup stays
\* half hidden, and to a user who lets popups close the stack is what is visible, each
\* popup once, for any number of them and whatever sidebars, keys and clicks do.
THEOREM PopupsAlwaysAgree == Spec => []PopupsAgree
<1>1. Init => SidebarsHeld /\ Kept(timeouts) /\ Classes /\ PopupsHeld
  <2> SUFFICES ASSUME Init
               PROVE  SidebarsHeld /\ Kept(timeouts) /\ Classes /\ PopupsHeld
    OBVIOUS
  <2>1. ToSet(popupShown) = {} /\ IsInjective(popupShown)
    BY DEF Init, ToSet, IsInjective
  <2>2. SidebarsHeld /\ Kept(timeouts)
    BY FS_EmptySet DEF Init, SidebarsHeld, OneVisible, NoneGoesOff, Kept
  <2> QED
    BY <2>1, <2>2 DEF Init, Classes, PopupsHeld, Closing
<1>2. Stacked /\ SidebarsHeld /\ Kept(timeouts) /\ Classes /\ PopupsHeld /\ [Next]_vars
      => (SidebarsHeld /\ Kept(timeouts) /\ Classes /\ PopupsHeld)'
  BY SidebarsStep, KeptStep, ClassesStep, PopupsStep
<1>3. Stacked /\ Kept(timeouts) /\ Classes /\ PopupsHeld => PopupsAgree
  <2> SUFFICES ASSUME Stacked, Kept(timeouts), Classes, PopupsHeld
               PROVE  PopupsAgree
    OBVIOUS
  <2>1. TypeOK
    BY Zenon DEF TypeOK, Stacked, Kept, TimeoutType, Classes
  <2>2. hiding \subseteq {t.id : t \in Closing}
    BY DEF PopupsHeld
  <2> QED
    BY Zenon, <2>1, <2>2 DEF PopupsAgree, PopupsHeld
<1> QED
  BY <1>1, <1>2, <1>3, StackedAlways, PTL DEF Spec

=============================================================================
