------------------------------ MODULE SlideShow ------------------------------
(***************************************************************************)
(* The slide manager of the page the demonstration server ships            *)
(* (slides.js), in slide mode: what shows a slide and what asks for one.    *)
(*                                                                         *)
(* The page has one thread.  A handler of the user's input, a callback of   *)
(* setTimeout and the code run at DOM ready and at load are an action each; *)
(* showSlide and changeSlide, which they call, are operators.  Time passes  *)
(* in ticks: a timeout is due when none are left, and no tick passes over   *)
(* one that is due.  Timeouts alike in everything and due in the same tick  *)
(* run back to back, and count as one.                                     *)
(*                                                                         *)
(* Sidebars, popups and dropdowns are Overlays' part: a wheel event or a    *)
(* swipe meets any value they may have left in allowSlide, sidebarShown and *)
(* popupShown.                                                             *)
(***************************************************************************)
EXTENDS Integers, FiniteSets

CONSTANTS
    Stages,       \* window.stages: the number of slides
    DataNames,    \* the slides with a data-name
    Ids,          \* the slides without a data-name, with an id
    DotOf,        \* the dot that stands for each slide, or 0 if none does
    ToSlides,     \* the N of the page's toSlide-N buttons
    ScrollSizes,  \* scrollsize of a wheel event
    MinScrollToSlide, MaxScroll,
    EffectSpeed, SlideSpeed, EffectOffset,
    Soon,         \* the 100 ms of updateNavigation and of the popstate handler
    WheelPause,   \* the 200 ms after which scrolls are forgotten
    LoadPause,    \* the 500 ms between load and the first slide
    ZoomPause,    \* the 550 ms in which a zoomed image closes
    MaxPending    \* bound: the user waits while so many timeouts are pending

Slides == 1 .. Stages

ASSUME SlideAssumption ==
    /\ Stages \in Nat \ {0}
    /\ DataNames \subseteq Slides /\ Ids \subseteq Slides \ DataNames
    /\ DotOf \in [Slides -> 0 .. Stages]
    /\ ToSlides \subseteq Nat \ {0}
    /\ ScrollSizes \subseteq Nat \ {0}
    /\ MinScrollToSlide \in Nat \ {0} /\ MaxScroll \in Nat
    /\ {EffectSpeed, SlideSpeed, EffectOffset} \subseteq Nat
    /\ {Soon, WheelPause, LoadPause, ZoomPause} \subseteq Nat \ {0}
    /\ MaxPending \in Nat

VARIABLES
    ready,          \* the code run at DOM ready is done
    loaded,         \* window.loaded
    stage,          \* window.stage
    selected,       \* the slide of class "selected", or 0
    active,         \* the slides of class "active"
    animate,        \* the slides of class "animate"
    dot,            \* the selected dot of the navigation, or 0
    hash,           \* the slide the address names, or 0
    inAction,       \* window.inAction
    blockScroll,    \* window.blockScroll
    collectScrolls, \* window.collectScrolls
    zoomed,         \* an image is zoomed (zoom-overlay-open)
    timeouts,       \* the timeouts that are set
    jumps,          \* the user follows in-page links and goes through history
    early           \* slides left before the page was loaded

vars == <<ready, loaded, stage, selected, active, animate, dot, hash, inAction,
          blockScroll, collectScrolls, zoomed, timeouts, jumps, early>>

Kinds == {"dot", "hash", "effect", "animate", "change", "end", "wheel", "run"}

\* A call of setTimeout; old and new are what its callback has captured.
Timeout(kind, delay, old, new) ==
    [kind |-> kind, left |-> delay, old |-> old, new |-> new]

Pending(kind) == \E t \in timeouts : t.kind = kind

TypeOK ==
    /\ {ready, loaded, inAction, blockScroll, zoomed, jumps} \subseteq BOOLEAN
    /\ stage \in Slides
    /\ {selected, dot, hash} \subseteq 0 .. Stages
    /\ active \subseteq Slides /\ animate \subseteq Slides /\ early \subseteq Slides
    /\ collectScrolls \in Int
    /\ timeouts \subseteq [kind : Kinds, left : Nat,
                           old : 0 .. Stages, new : 0 .. Stages]

-----------------------------------------------------------------------------
(* showSlide and changeSlide *)

\* The address showSlide leaves for a slide: its data-name, else its id.
HashOf(n) == IF n \in DataNames \cup Ids THEN n ELSE 0

\* The page hears of an address it set itself, too; pushState is not heard.
PopState(h) == IF h # hash /\ h # 0 THEN {Timeout("hash", Soon, 0, 0)} ELSE {}

AnimateDelay ==
    SlideSpeed - (IF EffectOffset > SlideSpeed THEN SlideSpeed ELSE EffectOffset)

ShowTimeouts(old, n) ==
    {Timeout("dot", Soon, 0, 0)} \cup
    (IF loaded THEN {Timeout("effect", EffectSpeed, old, n),
                     Timeout("animate", AnimateDelay, 0, n)}
               ELSE {})

\* showSlide(n), with the other timeouts the handler that calls it leaves.
ShowSlide(n, others) ==
    /\ selected' = n
    /\ active' = IF n = selected THEN active
                                 ELSE active \cup ({selected, n} \ {0})
    /\ early' = IF loaded \/ n = selected THEN early
                                          ELSE early \cup ({selected} \ {0})
    /\ hash' = HashOf(n)
    /\ blockScroll' = (blockScroll \/ loaded)
    /\ zoomed' = FALSE
    /\ timeouts' = others \cup ShowTimeouts(selected, n) \cup PopState(HashOf(n))

\* Mutant: inAction is set, and not tested.
AcceptsMutant(n) == n # stage /\ n <= Stages

\* changeSlide(n): one change at a time.
Accepts(n) == n # stage /\ n <= Stages /\ ~inAction

ChangeSlide(n, others) ==
    \/ /\ Accepts(n)
       /\ inAction' = TRUE
       /\ stage' = n
       /\ zoomed' = FALSE
       /\ timeouts' = others \cup
             {Timeout("change", IF zoomed THEN ZoomPause ELSE 0, 0, 0)}
    \/ /\ ~Accepts(n)
       /\ timeouts' = others
       /\ UNCHANGED <<inAction, stage, zoomed>>

\* Mutant: the first slide has one before it.
FollowingMutant(down) ==
    IF down THEN IF stage + 1 >= Stages THEN Stages ELSE stage + 1 ELSE stage - 1

\* changeSlide('increase') and changeSlide('decrease').
Following(down) ==
    IF down THEN IF stage + 1 >= Stages THEN Stages ELSE stage + 1
            ELSE IF stage - 1 < 1 THEN 1 ELSE stage - 1

-----------------------------------------------------------------------------
(* Starting *)

Init ==
    /\ ready = FALSE
    /\ loaded = FALSE
    /\ stage = 1
    /\ selected = 0
    /\ active = {} /\ animate = {} /\ early = {}
    /\ dot = 0
    /\ hash \in 0 .. Stages
    /\ inAction = TRUE
    /\ blockScroll = TRUE
    /\ collectScrolls = 0
    /\ zoomed = FALSE
    /\ timeouts = {}
    /\ jumps \in BOOLEAN

\* runTheCode sets these; in 500 ms it shows the stage.
Run == Timeout("run", LoadPause, 0, 0)

\* The code run at DOM ready: the slide the address names, or the first, is
\* shown, and a page that does not wait for its images runs at once.
Ready ==
    /\ ~ready
    /\ ready' = TRUE
    /\ \E first \in Slides, waits \in BOOLEAN :
          /\ first = IF hash \in DataNames THEN hash ELSE 1
          /\ stage' = first
          /\ selected' = first
          /\ active' = {first}
          /\ hash' = HashOf(first)
          /\ loaded' = (loaded \/ ~waits)
          /\ inAction' = ~loaded'
          /\ blockScroll' = ~loaded'
          /\ timeouts' = (IF hash \in DataNames THEN ShowTimeouts(first, first)
                                                ELSE {})
                         \cup ShowTimeouts(0, first) \cup PopState(hash')
                         \cup (IF loaded' THEN {Run} ELSE {})
    /\ UNCHANGED <<animate, dot, collectScrolls, zoomed, jumps, early>>

\* The load event; runTheCode if the page has waited for it.
Load ==
    /\ ~loaded
    /\ loaded' = TRUE
    /\ IF ready
       THEN /\ inAction' = FALSE
            /\ blockScroll' = FALSE
            /\ timeouts' = timeouts \cup {Run}
       ELSE UNCHANGED <<inAction, blockScroll, timeouts>>
    /\ UNCHANGED <<ready, stage, selected, active, animate, dot, hash,
                   collectScrolls, zoomed, jumps, early>>

-----------------------------------------------------------------------------
(* The user's input *)

MayAct == ready /\ Cardinality(timeouts) < MaxPending

showing == <<ready, loaded, selected, active, animate, dot, blockScroll, jumps, early>>

\* An arrow key, a nextSlide or prevSlide button, a swipe where allowed.
Step(down) ==
    /\ MayAct
    /\ ChangeSlide(Following(down), timeouts)
    /\ UNCHANGED <<showing, hash, collectScrolls>>

\* A dot of the navigation, or a toSlide-N button.
Choose(n) ==
    /\ MayAct
    /\ ChangeSlide(n, timeouts)
    /\ UNCHANGED <<showing, hash, collectScrolls>>

\* toFirstSlide and toLastSlide clear the address, whether they move or not.
ToEnd(n) ==
    /\ MayAct
    /\ ChangeSlide(n, timeouts)
    /\ hash' = 0
    /\ UNCHANGED <<showing, collectScrolls>>

\* An in-page link: no test of inAction.
Follow(n) ==
    /\ MayAct /\ jumps
    /\ stage' = n
    /\ ShowSlide(n, timeouts)
    /\ UNCHANGED <<ready, loaded, animate, dot, inAction, collectScrolls, jumps>>

\* Back, forward, or another address: the popstate handler waits 100 ms.
Navigate(h) ==
    /\ MayAct /\ jumps
    /\ h # hash
    /\ hash' = h
    /\ timeouts' = timeouts \cup {Timeout("hash", Soon, 0, 0)}
    /\ UNCHANGED <<showing, stage, inAction, collectScrolls, zoomed>>

\* A wheel event where allowSlide holds; open: a sidebar or a popup is shown.
Wheel(down, size) ==
    LET sum == IF down THEN collectScrolls + size ELSE collectScrolls - size
        others == timeouts \cup {Timeout("wheel", WheelPause, 0, 0)}
    IN  /\ MayAct
        /\ sum \in -MaxScroll .. MaxScroll
        /\ \E open \in BOOLEAN :
              LET enough == ~open /\ sum \notin 1 - MinScrollToSlide .. MinScrollToSlide - 1
              IN  /\ collectScrolls' = IF enough THEN 0 ELSE sum
                  /\ IF enough /\ stage # (IF down THEN Stages ELSE 1)
                     THEN ChangeSlide(Following(down), others)
                     ELSE /\ timeouts' = others
                          /\ UNCHANGED <<inAction, stage, zoomed>>
        /\ UNCHANGED <<showing, hash>>

\* A click on an image zooms it; esc or a resize brings it back.
Zoom ==
    /\ MayAct
    /\ zoomed' = ~zoomed
    /\ UNCHANGED <<showing, stage, hash, inAction, collectScrolls, timeouts>>

UserActs ==
    \/ \E down \in BOOLEAN : Step(down)
    \/ \E n \in ToSlides \cup {s \in Slides : DotOf[s] = s} : Choose(n)
    \/ \E n \in {1, Stages} : ToEnd(n)
    \/ \E n \in DataNames \cup Ids \cup {1} : Follow(n)
    \/ \E h \in 0 .. Stages : Navigate(h)
    \/ \E down \in BOOLEAN, size \in ScrollSizes : Wheel(down, size)
    \/ Zoom

-----------------------------------------------------------------------------
(* Timeouts *)

\* Of two due together the one set first goes first: the change's callback
\* sets the timeout that ends it after showSlide has set its own.
Due(t) ==
    /\ t \in timeouts
    /\ t.left = 0
    /\ ~ /\ t.kind = "end" /\ EffectSpeed <= SlideSpeed
         /\ \E u \in timeouts : u.kind = "effect" /\ u.left = 0

Rest(t) == timeouts \ {t}

\* updateNavigation looks for the selected slide when it is due.
UpdateNavigation(t) ==
    /\ t.kind = "dot"
    /\ dot' = IF selected = 0 THEN 0 ELSE DotOf[selected]
    /\ timeouts' = Rest(t)
    /\ UNCHANGED <<ready, loaded, stage, selected, active, animate, hash, inAction,
                   blockScroll, collectScrolls, zoomed, jumps, early>>

\* Mutant: the address is ignored while a slide changes.
UpdateHashMutant(t) ==
    /\ t.kind = "hash"
    /\ \/ /\ hash \in DataNames /\ ~inAction
          /\ stage' = hash
          /\ ShowSlide(hash, Rest(t))
       \/ /\ hash \notin DataNames \/ inAction
          /\ timeouts' = Rest(t)
          /\ UNCHANGED <<stage, selected, active, hash, blockScroll, zoomed, early>>
    /\ UNCHANGED <<ready, loaded, animate, dot, inAction, collectScrolls, jumps>>

\* updateHash knows slides by data-name only, and reads the address it finds.
UpdateHash(t) ==
    /\ t.kind = "hash"
    /\ \/ /\ hash \in DataNames
          /\ stage' = hash
          /\ ShowSlide(hash, Rest(t))
       \/ /\ hash \notin DataNames
          /\ timeouts' = Rest(t)
          /\ UNCHANGED <<stage, selected, active, hash, blockScroll, zoomed, early>>
    /\ UNCHANGED <<ready, loaded, animate, dot, inAction, collectScrolls, jumps>>

\* Mutant: the slide that was left stays active.
EndEffectMutant(t) ==
    /\ t.kind = "effect"
    /\ animate' = animate \ (IF t.old = t.new THEN {} ELSE {t.old})
    /\ blockScroll' = FALSE
    /\ timeouts' = Rest(t)
    /\ UNCHANGED <<ready, loaded, stage, selected, active, dot, hash, inAction,
                   collectScrolls, zoomed, jumps, early>>

\* The slide that was left loses its classes, whatever it is by now.
EndEffect(t) ==
    /\ t.kind = "effect"
    /\ LET left == IF t.old = t.new THEN {} ELSE {t.old}
       IN  active' = active \ left /\ animate' = animate \ left
    /\ blockScroll' = FALSE
    /\ timeouts' = Rest(t)
    /\ UNCHANGED <<ready, loaded, stage, selected, dot, hash, inAction,
                   collectScrolls, zoomed, jumps, early>>

Animate(t) ==
    /\ t.kind = "animate"
    /\ animate' = animate \cup {t.new}
    /\ timeouts' = Rest(t)
    /\ UNCHANGED <<ready, loaded, stage, selected, active, dot, hash, inAction,
                   blockScroll, collectScrolls, zoomed, jumps, early>>

\* Mutant: the next change need not wait for the end of this one.
ChangeMutant(t) ==
    /\ t.kind = "change"
    /\ ShowSlide(stage, Rest(t) \cup {Timeout("end", 0, 0, 0)})
    /\ UNCHANGED <<ready, loaded, stage, animate, dot, inAction, collectScrolls, jumps>>

\* Mutant: the change waits until no image is zoomed.
ChangeWaits(t) ==
    /\ t.kind = "change"
    /\ IF zoomed
       THEN /\ timeouts' = Rest(t) \cup {Timeout("change", 1, 0, 0)}
            /\ UNCHANGED <<selected, active, early, hash, blockScroll, zoomed>>
       ELSE ShowSlide(stage, Rest(t) \cup {Timeout("end", SlideSpeed, 0, 0)})
    /\ UNCHANGED <<ready, loaded, stage, animate, dot, inAction, collectScrolls, jumps>>

\* The delayed part of changeSlide shows what the stage is by now.
Change(t) ==
    /\ t.kind = "change"
    /\ ShowSlide(stage, Rest(t) \cup {Timeout("end", SlideSpeed, 0, 0)})
    /\ UNCHANGED <<ready, loaded, stage, animate, dot, inAction, collectScrolls, jumps>>

\* The change is over.
EndChange(t) ==
    /\ t.kind = "end"
    /\ inAction' = FALSE
    /\ timeouts' = Rest(t)
    /\ UNCHANGED <<showing, stage, hash, collectScrolls, zoomed>>

ForgetScrolls(t) ==
    /\ t.kind = "wheel"
    /\ collectScrolls' = 0
    /\ timeouts' = Rest(t)
    /\ UNCHANGED <<showing, stage, hash, inAction, zoomed>>

ShowFirst(t) ==
    /\ t.kind = "run"
    /\ ShowSlide(stage, Rest(t))
    /\ UNCHANGED <<ready, loaded, stage, animate, dot, inAction, collectScrolls, jumps>>

Fire ==
    \E t \in timeouts :
        /\ Due(t)
        /\ \/ UpdateNavigation(t) \/ UpdateHash(t) \/ EndEffect(t) \/ Animate(t)
           \/ Change(t) \/ EndChange(t) \/ ForgetScrolls(t) \/ ShowFirst(t)

Tick ==
    /\ timeouts # {}
    /\ \A t \in timeouts : t.left > 0
    /\ timeouts' = {[t EXCEPT !.left = @ - 1] : t \in timeouts}
    /\ UNCHANGED <<showing, stage, hash, inAction, collectScrolls, zoomed>>

Next == Ready \/ Load \/ UserActs \/ Fire \/ Tick

Spec == Init /\ [][Next]_vars

\* The browser runs the page's code, loads it, and its clock goes on; the user
\* need not do anything.
FairSpec ==
    Spec /\ WF_vars(Ready) /\ WF_vars(Load) /\ WF_vars(Fire) /\ WF_vars(Tick)

-----------------------------------------------------------------------------
(* Properties *)

\* What the page says of itself agrees, or a timeout is set that will see to
\* it: the slide shown is the stage unless a change is on its way, the dot is
\* that of the slide unless updateNavigation is, and an address that names a
\* slide names this one unless updateHash is.
PartsAgree ==
    ready =>
        /\ stage # selected => Pending("change")
        /\ dot # DotOf[selected] => Pending("dot")
        /\ hash \in DataNames /\ hash # selected => Pending("hash")

\* One change at a time: from changeSlide to the end of its effect inAction is
\* set, and one timeout, its own, will go on with it (inAction, slides.js 394).
OneChangeAtATime ==
    LET steps == {t \in timeouts : t.kind \in {"change", "end"}}
    IN  /\ \A t, u \in steps : t = u
        /\ ready /\ loaded => (inAction <=> steps # {})
        /\ ready /\ loaded /\ blockScroll => Pending("effect")

\* Scrolls do not add up over time: what is collected is forgotten soon.
ScrollsForgotten == collectScrolls # 0 => Pending("wheel")

\* Nothing that holds the user's input back, or adds it up, is left without the
\* timeout that ends it.
LocksAreReleased == OneChangeAtATime /\ ScrollsForgotten

\* A slide that was left does not stay active behind the others, unless it was
\* left before the page was loaded, when showSlide sets no timeout.
OnlySelectedStays ==
    \A s \in active \ ({selected} \cup early) :
        \E t \in timeouts : t.kind = "effect" /\ t.old = s /\ t.old # t.new

\* Who only changes slides in turn sees the one selected: no timeout of an
\* earlier change takes its classes away, and it is animated in the end.
SelectedIsShown ==
    ready /\ ~jumps =>
        /\ selected \in active
        /\ \/ selected \in animate
           \/ \E t \in timeouts : t.kind = "animate" /\ t.new = selected
           \/ Pending("run") \/ ~loaded

\* A change comes to its end, and the next one is accepted.
ChangesEnd == ready /\ loaded /\ inAction ~> ~inAction
=============================================================================
