------------------------------ MODULE ScrollMode ------------------------------
(***************************************************************************)
(* The slide manager of slides.js in scroll mode and in its simplified      *)
(* mobile mode, the one the served page has: the slides lie one below the   *)
(* other, the browser scrolls them, and updateScroll, called on events of   *)
(* scrolling, finds the slide that is shown.                               *)
(*                                                                         *)
(* The position changes on its own (the user, an animation); the scroll     *)
(* event that tells of it comes later.  Heights are the browser's; what     *)
(* the page knows of them are the copies its resize handler takes.  A slide *)
(* is as high as the window at least: in these modes its own height is auto *)
(* and its container, a table, has a height of 100vh (slides.css:1372-1378, *)
(* 4581-4601).  The slides of class autoHeight, whose container is as high  *)
(* as its content (4603-4606), are left out; the served page has none.      *)
(* Delays are not counted: a callback of setTimeout comes at any time.      *)
(* Dropdowns, which every second updateScroll hides, are left to Overlays.  *)
(***************************************************************************)
EXTENDS Integers, FiniteSets

CONSTANTS
    Stages,         \* window.stages
    Contents,       \* the heights the content of each slide may have
    WindowHeights,
    ToSlides,       \* the N of the page's toSlide-N buttons
    MaxPending      \* bound: pending calls of updateNavigation

Slides == 1 .. Stages

ASSUME ScrollAssumption ==
    /\ Stages \in Nat \ {0}
    /\ DOMAIN Contents = Slides
    /\ \A s \in Slides : Contents[s] \subseteq Nat \ {0}
    /\ WindowHeights \subseteq Nat \ {0}
    /\ ToSlides \subseteq Nat \ {0}
    /\ MaxPending \in Nat

Layouts ==
    {c \in [Slides -> UNION {Contents[s] : s \in Slides}] :
        \A s \in Slides : c[s] \in Contents[s]}

VARIABLES
    content,         \* the height of each slide's content
    windowHeight,    \* the window's height, and window.windowHeight once known
    documentHeight,  \* window.documentHeight, 0 while undefined
    scrollTop,       \* the position
    target,          \* where an animation takes it, or None
    scrolled,        \* a scroll event is to come
    stage,           \* window.stage
    selected,        \* the slides of class "selected"
    active,          \* the slides of class "animate active"
    before, after,   \* the slides of these classes
    firstTime,       \* window.firstTimeTrigger
    dot,             \* the selected dot of the navigation, or 0
    dots,            \* calls of updateNavigation that wait their 100 ms
    loaded,          \* the load event has come
    run,             \* the 500 ms of runTheCode: "no", "set" or "done"
    jumps,           \* the user does not only scroll, but asks for slides
    seen             \* updateScroll ran since the page last moved or changed

page == <<content, windowHeight, documentHeight>>
classes == <<stage, selected, active, before, after, firstTime, dots>>
vars == <<page, scrollTop, target, scrolled, classes, dot, loaded, run, jumps,
          seen>>

None == -1

Height(s) == IF content[s] > windowHeight THEN content[s] ELSE windowHeight

\* The top of a slide; Stages + 1 stands for the end of the page.
Top(s) ==
    LET top[i \in 1 .. Stages + 1] == IF i = 1 THEN 0 ELSE top[i - 1] + Height(i - 1)
    IN  top[s]
Document == Top(Stages + 1)
Bottom == Document - windowHeight

\* The slide the middle of the window lies in, and not on the edge of.
Middle(s) ==
    /\ 2 * Top(s) < 2 * scrollTop + windowHeight
    /\ 2 * scrollTop + windowHeight < 2 * Top(s + 1)

TypeOK ==
    /\ content \in Layouts /\ windowHeight \in WindowHeights
    /\ documentHeight \in Nat /\ scrollTop \in 0 .. Bottom
    /\ target \in Nat \cup {None}
    /\ stage \in Nat \ {0}
    /\ selected \subseteq Slides /\ active \subseteq Slides
    /\ before \subseteq Slides /\ after \subseteq Slides
    /\ dot \in 0 .. Stages /\ dots \in Nat
    /\ {scrolled, firstTime, loaded, jumps, seen} \subseteq BOOLEAN
    /\ run \in {"no", "set", "done"}

Init ==
    /\ content \in Layouts
    /\ windowHeight \in WindowHeights
    /\ documentHeight = 0
    /\ scrollTop = 0
    /\ target = None
    /\ scrolled = FALSE
    /\ stage = 1
    /\ selected = {} /\ active = {} /\ before = {} /\ after = {}
    /\ firstTime = FALSE
    /\ dot = 0
    /\ dots \in {0, 1}
    /\ loaded = FALSE
    /\ run \in {"no", "set"}
    /\ jumps \in BOOLEAN
    /\ seen = FALSE

-----------------------------------------------------------------------------
(* updateScroll *)

\* Mutant: the slides above the window are on the screen, too.
HalfOnScreenMutant(s) ==
    2 * Top(s) < 2 * (windowHeight + scrollTop)
                 - (IF windowHeight > 2 * Height(s) THEN Height(s) ELSE windowHeight)

\* At least half of the slide, or of the window, is filled by the slide.
HalfOnScreen(s) ==
    LET twice == IF windowHeight > 2 * Height(s) THEN Height(s) ELSE windowHeight
    IN  /\ 2 * Top(s) < 2 * (windowHeight + scrollTop) - twice
        /\ 2 * Top(s) > 2 * (scrollTop - Height(s)) + twice

\* At the page's end only the last slide, else at its start only the first.
AllowToSelect(s, known) ==
    IF scrollTop + windowHeight = known THEN s = Stages
                                        ELSE scrollTop = 0 => s = 1

\* The slides updateScroll selects, which are none while it knows no heights.
Found(known) == {s \in Slides : known # 0 /\ HalfOnScreen(s) /\ AllowToSelect(s, known)}

\* Mutant: the slide is announced only when none was.
AnnouncedMutant(found) == IF firstTime THEN 0 ELSE Cardinality(found)

\* Those of found that were not the stage when their turn came.
Announced(found) ==
    Cardinality(found \ (IF firstTime /\ (\A s \in found : stage <= s) THEN {stage}
                                                                        ELSE {}))

\* The loop over the slides; known is documentHeight, also: the slides that
\* are made active beforehand, navigate: the calls of updateNavigation after it.
UpdateScroll(known, also, navigate) ==
    LET found == Found(known)
        last == CHOOSE s \in found : \A r \in found : r <= s
    IN  /\ selected' = found
        /\ active' = active \cup found \cup also
        /\ firstTime' = (firstTime \/ found # {})
        /\ dots' = dots + Announced(found) + navigate
        /\ IF found = {}
           THEN UNCHANGED <<stage, before, after>>
           ELSE /\ stage' = last
                /\ before' = 1 .. last - 1
                /\ after' = last + 1 .. Stages
        /\ seen' = TRUE

MayUpdate == dots < MaxPending

-----------------------------------------------------------------------------
(* Events *)

\* The position changes: the browser will tell.
MoveTo(y) ==
    /\ scrollTop' = y
    /\ scrolled' = (scrolled \/ y # scrollTop)
    /\ seen' = (seen /\ y = scrollTop)

Scroll(y) ==
    /\ y # scrollTop
    /\ MoveTo(y)
    /\ UNCHANGED <<page, target, classes, dot, loaded, run, jumps>>

\* A frame of an animation, which goes between where it is and its target.
Animate(y) ==
    /\ target # None
    /\ LET end == IF target > Bottom THEN Bottom ELSE target
       IN  /\ y \in (scrollTop .. end) \cup (end .. scrollTop)
           /\ target' = IF y = end THEN None ELSE target
    /\ MoveTo(y)
    /\ UNCHANGED <<page, classes, dot, loaded, run, jumps>>

ScrollEvent ==
    /\ MayUpdate /\ scrolled
    /\ scrolled' = FALSE
    /\ UpdateScroll(documentHeight, {}, 0)
    /\ UNCHANGED <<page, scrollTop, target, dot, loaded, run, jumps>>

\* A wheel event or touchmove, before the browser has moved the page.
Touch ==
    /\ MayUpdate
    /\ UpdateScroll(documentHeight, {}, 0)
    /\ UNCHANGED <<page, scrollTop, target, scrolled, dot, loaded, run, jumps>>

\* changeSlide: the stage is set, the page begins to move there.  Of a slide
\* there is not, the position is asked in vain.
ChangeSlide(n) ==
    /\ jumps
    /\ stage' = n
    /\ target' = IF n \in Slides THEN Top(n) ELSE target
    /\ UNCHANGED <<page, scrollTop, scrolled, selected, active, before, after,
                   firstTime, dots, dot, loaded, run, jumps, seen>>

Following(down) ==
    IF down THEN IF stage + 1 >= Stages THEN Stages ELSE stage + 1
            ELSE IF stage - 1 < 1 THEN 1 ELSE stage - 1

\* An in-page link, or updateHash: the page only begins to move.
Follow(n) ==
    /\ jumps
    /\ target' = Top(n)
    /\ UNCHANGED <<page, scrollTop, scrolled, classes, dot, loaded, run, jumps,
                   seen>>

\* What the layout makes of the position, and the page of the heights.
Layout ==
    /\ scrollTop' = IF scrollTop > Bottom' THEN Bottom' ELSE scrollTop
    /\ scrolled' = (scrolled \/ scrollTop' # scrollTop)
    /\ seen' = FALSE
    /\ UNCHANGED <<target, classes, dot, jumps>>

\* A slide grows or shrinks, and nobody is told.
Grow(s, c) ==
    /\ c # content[s]
    /\ content' = [content EXCEPT ![s] = c]
    /\ UNCHANGED <<windowHeight, documentHeight, loaded, run>>
    /\ Layout

Resize(w) ==
    /\ windowHeight' = w
    /\ UNCHANGED <<content, loaded, run>>
    /\ documentHeight' = Document'
    /\ Layout

-----------------------------------------------------------------------------
(* Starting and timeouts *)

\* The heights are taken, runTheCode is called if it has not been, and
\* updateScroll after it.
Load ==
    /\ ~loaded
    /\ loaded' = TRUE
    /\ documentHeight' = Document
    /\ run' = IF run = "no" THEN "set" ELSE run
    /\ UpdateScroll(Document, {}, 0)
    /\ UNCHANGED <<content, windowHeight, scrollTop, target, scrolled, dot, jumps>>

\* In the simplified mobile mode every slide is made active at last.
Run(mobile) ==
    /\ run = "set"
    /\ run' = "done"
    /\ UpdateScroll(documentHeight, IF mobile THEN Slides ELSE {}, 1)
    /\ UNCHANGED <<page, scrollTop, target, scrolled, dot, loaded, jumps>>

\* updateNavigation looks for the first selected slide when it is due.
UpdateNavigation ==
    /\ dots > 0
    /\ dots' = dots - 1
    /\ dot' = IF selected = {} THEN 0
              ELSE CHOOSE s \in selected : \A r \in selected : s <= r
    /\ UNCHANGED <<page, scrollTop, target, scrolled, stage, selected, active, before,
                   after, firstTime, loaded, run, jumps, seen>>

\* The page moves by one at a time: a longer way is several such steps, with
\* nothing between them.
Next ==
    \/ \E y \in (scrollTop - 1 .. scrollTop + 1) \cap (0 .. Bottom) :
          Scroll(y) \/ Animate(y)
    \/ ScrollEvent
    \/ Touch
    \/ \E down \in BOOLEAN : ChangeSlide(Following(down))
    \/ \E n \in Slides \cup ToSlides : ChangeSlide(n)
    \/ \E n \in Slides : Follow(n)
    \/ \E s \in Slides : \E c \in Contents[s] : Grow(s, c)
    \/ \E w \in WindowHeights : Resize(w)
    \/ Load
    \/ \E mobile \in BOOLEAN : Run(mobile)
    \/ UpdateNavigation

Spec == Init /\ [][Next]_vars

-----------------------------------------------------------------------------
(* Properties *)

\* Once the page has been looked at since it last moved, and its height is the
\* one the page knows, the slide in the middle of the window is the one that
\* is selected, is shown and orders the others; to who only scrolls it is the
\* stage, which changeSlide sets before the page has moved.
MiddleIsSelected ==
    /\ TypeOK
    /\ seen /\ documentHeight = Document =>
          \A s \in Slides :
              Middle(s) =>
                  /\ selected = {s} /\ s \in active
                  /\ before = 1 .. s - 1 /\ after = s + 1 .. Stages
                  /\ ~jumps => stage = s

\* Who only scrolls does not see the dot of another slide for long: when no
\* updateNavigation is due, it is the one of the stage, or none.
DotFollows == dots = 0 /\ firstTime /\ ~jumps => dot \in {0, stage}

=============================================================================
