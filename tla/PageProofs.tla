------------------------------ MODULE PageProofs ------------------------------
(***************************************************************************)
(* Theorems about the served page: its sliders, dialogs and sound, for      *)
(* every number of items and dialogs, every kind of dialog and every bound; *)
(* and scroll mode, for every number of slides, all heights of their        *)
(* contents and of the window, and every button of the page.                *)
(***************************************************************************)
EXTENDS Widgets, ScrollMode, FiniteSetTheorems, WellFoundedInduction, TLAPS

\* The item after or before an item is an item.
LEMMA NextItems ==
    ASSUME NEW i \in TheSlider!All
    PROVE  TheSlider!nextOrFirst(i) \in TheSlider!All
           /\ TheSlider!prevOrLast(i) \in TheSlider!All
BY SMT, WidgetsAssumption DEF TheSlider!All, TheSlider!nextOrFirst, TheSlider!prevOrLast,
   TheSlider!SliderAssumption

LEMMA SliderStep ==
    ASSUME InStep, TheSlider!Next
    PROVE  InStep'
<1> USE DEF InStep, TheSlider!InStep
<1>0. PICK i \in TheSlider!All : item = {i}
  OBVIOUS
<1>1. ASSUME NEW j \in TheSlider!All, TheSlider!Leave({j}), pointed' = {j},
             pointedHide' = pointedHide, autoplay' \in BOOLEAN
      PROVE  InStep'
  BY <1>1 DEF TheSlider!Leave, TheSlider!TypeOK
<1>2. CASE TheSlider!ClickNext /\ autoplay' \in BOOLEAN
  <2>1. {TheSlider!nextOrFirst(k) : k \in item} = {TheSlider!nextOrFirst(i)}
    BY <1>0
  <2> QED
    BY <1>0, <1>1, <1>2, <2>1, NextItems DEF TheSlider!ClickNext
<1>3. ASSUME NEW pressed \in BOOLEAN, TheSlider!UserActs(pressed)
      PROVE  InStep'
  <2>1. autoplay' \in BOOLEAN
    BY Zenon, <1>3 DEF TheSlider!UserActs, TheSlider!TypeOK
  <2>2. ASSUME NEW j \in TheSlider!All, TheSlider!ClickController(j)
        PROVE  InStep'
    BY <1>1, <2>1, <2>2 DEF TheSlider!ClickController, TheSlider!TypeOK
  <2>3. ASSUME NEW j \in TheSlider!All, TheSlider!ClickAction({j})
        PROVE  InStep'
    BY <2>1, <2>3 DEF TheSlider!ClickAction, TheSlider!TypeOK
  <2>4. ASSUME NEW to \in TheSlider!Actions
        PROVE  \E j \in TheSlider!All : to = {j}
    BY <1>0, <2>4, NextItems DEF TheSlider!Actions
  <2> QED
    BY <1>2, <1>3, <2>1, <2>2, <2>3, <2>4 DEF TheSlider!UserActs
<1>4. CASE TheSlider!Autoplay
  BY <1>2, <1>4 DEF TheSlider!Autoplay, TheSlider!TypeOK
<1>5. ASSUME NEW j \in TheSlider!All, TheSlider!TransitionEnds(j)
      PROVE  InStep'
  BY <1>5 DEF TheSlider!TransitionEnds, TheSlider!TypeOK
<1> QED
  BY <1>3, <1>4, <1>5 DEF TheSlider!Next

\* Whoever changes the slider - clicks on it, on its controller or its buttons,
\* or autoplay - one item is shown, none stays hidden, and the controller points
\* to the one shown.
THEOREM SliderInStep == WidgetsSpec => []InStep
<1>1. WidgetsInit => InStep
  BY SMT, WidgetsAssumption DEF WidgetsInit, TheSlider!Init, InStep, TheSlider!InStep,
     TheSlider!TypeOK, TheSlider!All, TheSlider!SliderAssumption
<1>2. InStep /\ [WidgetsNext]_widgetVars => InStep'
  <2>1. SUFFICES ASSUME InStep, UNCHANGED sliderVars
                 PROVE  InStep'
    BY SliderStep DEF WidgetsNext, UseSlider, UseDialogs, UseSound, widgetVars
  <2> QED
    BY <2>1 DEF sliderVars, InStep, TheSlider!InStep, TheSlider!TypeOK
<1> QED
  BY <1>1, <1>2, PTL DEF WidgetsSpec

-----------------------------------------------------------------------------
(* Dialogs *)

SlideLists == Seq({"down", "up", "close"})

NoDown(s) == \A i \in DOMAIN s : s[i] # "down"

\* The last closing among the slides of a dialog is not followed by one that shows it.
ClosesLast(s) ==
    \E i \in DOMAIN s : s[i] = "close" /\ \A j \in DOMAIN s : j > i => s[j] # "down"

\* A dialog closed for good will be gone with the slides that are under way, or is gone:
\* it has its cookie and nothing shows it.
Gone(d) ==
    \/ ClosesLast(queue[d])
    \/ d \in cookies /\ d \notin visible /\ NoDown(queue[d])

DialogsOK ==
    /\ TheDialogs!TypeOK /\ reveals \subseteq Delayed
    /\ dismissed \subseteq WithCookie
    /\ \A d \in dismissed : d \in Delayed \/ d \in interrupted \/ Gone(d)

\* What a slide that is appended, or the first one that ends, does to those facts.
LEMMA AppendedSlides ==
    ASSUME NEW s \in SlideLists, NEW way \in {"down", "up", "close"}
    PROVE  /\ Append(s, way) \in SlideLists
           /\ way = "close" => ClosesLast(Append(s, way))
           /\ way # "down" => (ClosesLast(s) => ClosesLast(Append(s, way)))
                              /\ (NoDown(s) => NoDown(Append(s, way)))
<1> DEFINE t == Append(s, way)
           n == Len(s)
<1>1. /\ n \in Nat /\ t \in SlideLists /\ DOMAIN s = 1 .. n /\ DOMAIN t = 1 .. n + 1
      /\ t[n + 1] = way /\ \A i \in 1 .. n : t[i] = s[i]
  BY DEF SlideLists
<1> HIDE DEF t, n
<1>2. \A j \in 1 .. n + 1 : j \in 1 .. n \/ j = n + 1
  BY <1>1
<1>3. ASSUME way = "close"
      PROVE  ClosesLast(t)
  <2>1. n + 1 \in DOMAIN t /\ \A j \in DOMAIN t : ~(j > n + 1)
    BY <1>1
  <2> QED
    BY <1>1, <1>3, <2>1 DEF ClosesLast
<1>4. ASSUME way # "down", ClosesLast(s)
      PROVE  ClosesLast(t)
  <2>1. PICK i \in 1 .. n : s[i] = "close" /\ \A j \in 1 .. n : j > i => s[j] # "down"
    BY <1>1, <1>4 DEF ClosesLast
  <2>2. i \in DOMAIN t /\ t[i] = "close"
    BY <1>1, <2>1
  <2>3. \A j \in DOMAIN t : j > i => t[j] # "down"
    BY <1>1, <1>2, <1>4, <2>1
  <2> QED
    BY <2>2, <2>3 DEF ClosesLast
<1>5. ASSUME way # "down", NoDown(s)
      PROVE  NoDown(t)
  BY <1>1, <1>2, <1>5 DEF NoDown
<1> QED
  BY <1>1, <1>3, <1>4, <1>5 DEF t

LEMMA RestOfSlides ==
    ASSUME NEW s \in SlideLists, s # << >>
    PROVE  /\ Tail(s) \in SlideLists /\ Head(s) \in {"down", "up", "close"}
           /\ NoDown(s) => NoDown(Tail(s)) /\ Head(s) # "down"
           /\ NoDown(Tail(s)) /\ Tail(s) # << >> => Head(Tail(s)) # "down"
           /\ ClosesLast(s) => \/ ClosesLast(Tail(s))
                               \/ Head(s) = "close" /\ NoDown(Tail(s))
<1> DEFINE t == Tail(s)
           n == Len(s)
<1>1. /\ n \in Nat \ {0} /\ t \in SlideLists /\ DOMAIN s = 1 .. n /\ DOMAIN t = 1 .. n - 1
      /\ Head(s) = s[1] /\ \A i \in 1 .. n - 1 : t[i] = s[i + 1]
      /\ t # << >> => Head(t) = t[1] /\ 1 \in DOMAIN t
      /\ Head(s) \in {"down", "up", "close"}
  BY DEF SlideLists
<1> HIDE DEF t, n
<1>2. \A i \in 1 .. n - 1 : i + 1 \in 1 .. n
  BY <1>1
<1>3. ASSUME NoDown(s)
      PROVE  NoDown(t) /\ Head(s) # "down"
  <2>1. 1 \in 1 .. n
    BY <1>1
  <2> QED
    BY <1>1, <1>2, <1>3, <2>1 DEF NoDown
<1>4. NoDown(t) /\ t # << >> => Head(t) # "down"
  BY <1>1 DEF NoDown
<1>5. ASSUME ClosesLast(s)
      PROVE  ClosesLast(t) \/ (Head(s) = "close" /\ NoDown(t))
  <2>1. PICK i \in 1 .. n : s[i] = "close" /\ \A j \in 1 .. n : j > i => s[j] # "down"
    BY <1>1, <1>5 DEF ClosesLast
  <2>2. CASE i = 1
    <3>1. \A j \in 1 .. n - 1 : j + 1 \in 1 .. n /\ j + 1 > i
      BY <1>1, <2>2
    <3> QED
      BY <1>1, <2>1, <2>2, <3>1 DEF NoDown
  <2>3. CASE i # 1
    <3>1. /\ i - 1 \in 1 .. n - 1 /\ (i - 1) + 1 = i
          /\ \A j \in 1 .. n - 1 : j > i - 1 => j + 1 \in 1 .. n /\ j + 1 > i
      BY <1>1, <2>3
    <3>2. i - 1 \in DOMAIN t /\ t[i - 1] = "close"
      BY <1>1, <2>1, <3>1
    <3>3. \A j \in DOMAIN t : j > i - 1 => t[j] # "down"
      BY <1>1, <2>1, <3>1
    <3> QED
      BY <3>2, <3>3 DEF ClosesLast
  <2> QED
    BY <2>2, <2>3
<1> QED
  BY <1>1, <1>3, <1>4, <1>5 DEF t

\* A slide of a dialog is appended to the others.
LEMMA SlideAppended ==
    ASSUME DialogsOK, NEW d \in Dialogs, NEW way \in {"down", "up", "close"},
           TheDialogs!Slide(d, way)
    PROVE  /\ queue' \in [Dialogs -> SlideLists]
           /\ queue'[d] = Append(queue[d], way) /\ queue[d] \in SlideLists
           /\ \A e \in Dialogs \ {d} : queue'[e] = queue[e]
           /\ visible' \subseteq visible \cup {d} /\ visible' \subseteq Dialogs
           /\ way # "down" => visible' = visible
<1>1. queue \in [Dialogs -> SlideLists] /\ visible \subseteq Dialogs
  BY DEF DialogsOK, TheDialogs!TypeOK, SlideLists
<1>2. queue' = [queue EXCEPT ![d] = Append(queue[d], way)]
  BY DEF TheDialogs!Slide
<1>3. Append(queue[d], way) \in SlideLists
  BY <1>1, AppendedSlides
<1>4. visible' \subseteq visible \cup {d} /\ (way # "down" => visible' = visible)
  BY DEF TheDialogs!Slide
<1> QED
  BY <1>1, <1>2, <1>3, <1>4

\* A dialog slides up, or closes.
LEMMA SlideUp ==
    ASSUME DialogsOK, NEW d \in Dialogs, NEW way \in {"up", "close"},
           TheDialogs!Slide(d, way), UNCHANGED cookies,
           \/ UNCHANGED <<dismissed, interrupted>>
           \/ /\ way = "close" /\ d \in WithCookie
              /\ dismissed' = dismissed \cup {d} /\ interrupted' = interrupted \ {d},
           reveals' \subseteq reveals, hides' \subseteq hides
    PROVE  DialogsOK'
<1>1. /\ queue' \in [Dialogs -> SlideLists]
      /\ queue'[d] = Append(queue[d], way) /\ queue[d] \in SlideLists
      /\ \A e \in Dialogs \ {d} : queue'[e] = queue[e]
      /\ visible' = visible
  BY SlideAppended
<1>2. TheDialogs!TypeOK'
  BY <1>1 DEF DialogsOK, TheDialogs!TypeOK, SlideLists
<1>3. /\ way = "close" => ClosesLast(queue'[d])
      /\ ClosesLast(queue[d]) => ClosesLast(queue'[d])
      /\ NoDown(queue[d]) => NoDown(queue'[d])
  BY <1>1, AppendedSlides
<1>4. \A e \in Dialogs : Gone(e) => Gone(e)'
  BY <1>1, <1>3 DEF Gone
<1>5. way = "close" => Gone(d)'
  BY <1>3 DEF Gone
<1>6. reveals' \subseteq Delayed /\ dismissed' \subseteq WithCookie
  BY DEF DialogsOK
<1>7. ASSUME NEW e \in dismissed'
      PROVE  e \in Delayed \/ e \in interrupted' \/ Gone(e)'
  <2>1. CASE e \in dismissed /\ ~(way = "close" /\ e = d)
    <3>1. e \in Dialogs /\ (e \in Delayed \/ e \in interrupted \/ Gone(e))
      BY <2>1 DEF DialogsOK, TheDialogs!TypeOK
    <3>2. e \in interrupted => e \in interrupted'
      BY <2>1
    <3> QED
      BY <1>4, <3>1, <3>2
  <2> QED
    BY <1>5, <1>7, <2>1
<1> QED
  BY <1>2, <1>6, <1>7 DEF DialogsOK

\* A dialog slides down: it is not one that is to stay closed.
LEMMA SlideDown ==
    ASSUME DialogsOK, NEW d \in Dialogs, TheDialogs!Slide(d, "down"),
           dismissed' = dismissed \/ dismissed' = dismissed \ {d},
           d \in Delayed \/ d \notin dismissed', interrupted' = interrupted,
           cookies' = cookies, reveals' \subseteq reveals, hides' \subseteq hides
    PROVE  DialogsOK'
<1>1. /\ queue' \in [Dialogs -> SlideLists]
      /\ \A e \in Dialogs \ {d} : queue'[e] = queue[e]
      /\ visible' \subseteq visible \cup {d} /\ visible' \subseteq Dialogs
  BY SlideAppended
<1>2. TheDialogs!TypeOK'
  BY <1>1 DEF DialogsOK, TheDialogs!TypeOK, SlideLists
<1>3. \A e \in Dialogs \ {d} : Gone(e) => Gone(e)'
  BY <1>1 DEF Gone
<1>4. ASSUME NEW e \in dismissed'
      PROVE  e \in Delayed \/ e \in interrupted' \/ Gone(e)'
  <2>1. e \in Dialogs /\ e \in dismissed
    BY DEF DialogsOK, TheDialogs!TypeOK
  <2> QED
    BY <1>3, <1>4, <2>1 DEF DialogsOK
<1> QED
  BY <1>2, <1>4 DEF DialogsOK

\* The end of a slide: an up hides, a close sets the cookie too, and what
\* waits next begins.
LEMMA SlideEndsStep ==
    ASSUME DialogsOK, NEW d \in Dialogs, TheDialogs!SlideEnds(d)
    PROVE  DialogsOK'
<1> DEFINE way == Head(queue[d])
           rest == Tail(queue[d])
           left == IF way = "down" THEN visible ELSE visible \ {d}
<1>1. /\ queue[d] # << >>
      /\ queue' = [queue EXCEPT ![d] = rest]
      /\ visible' = IF rest # << >> /\ Head(rest) = "down" THEN left \cup {d} ELSE left
      /\ cookies' = IF way = "close" THEN cookies \cup {d} ELSE cookies
      /\ UNCHANGED <<reveals, hides, dismissed, interrupted>>
  BY DEF TheDialogs!SlideEnds, TheDialogs!CookiesAfter
<1>2. queue \in [Dialogs -> SlideLists] /\ queue[d] \in SlideLists
  BY DEF DialogsOK, TheDialogs!TypeOK, SlideLists
<1>3. /\ rest \in SlideLists
      /\ NoDown(queue[d]) => NoDown(rest) /\ way # "down"
      /\ NoDown(rest) /\ rest # << >> => Head(rest) # "down"
      /\ ClosesLast(queue[d]) => ClosesLast(rest) \/ (way = "close" /\ NoDown(rest))
  BY <1>1, <1>2, RestOfSlides
<1>4. /\ queue'[d] = rest /\ \A e \in Dialogs \ {d} : queue'[e] = queue[e]
      /\ queue' \in [Dialogs -> SlideLists]
  BY <1>1, <1>2, <1>3
<1> HIDE DEF rest, way
<1>5. TheDialogs!TypeOK'
  <2>1. /\ visible' \subseteq visible \cup {d} /\ cookies' \subseteq cookies \cup {d}
        /\ cookies \subseteq cookies'
    BY <1>1
  <2> QED
    BY <1>1, <1>4, <2>1 DEF DialogsOK, TheDialogs!TypeOK, SlideLists
<1>6. ASSUME NEW e \in Dialogs, e # d, Gone(e)
      PROVE  Gone(e)'
  <2>1. (e \in cookies <=> e \in cookies') /\ (e \in visible <=> e \in visible')
    BY <1>1, <1>6
  <2> QED
    BY <1>4, <1>6, <2>1 DEF Gone
<1>7. ASSUME Gone(d)
      PROVE  Gone(d)'
  <2>1. CASE ClosesLast(rest)
    BY <1>4, <2>1 DEF Gone
  <2>2. CASE way = "close" /\ NoDown(rest)
    <3>1. d \in cookies' /\ d \notin visible'
      BY <1>1, <1>3, <2>2
    <3> QED
      BY <1>4, <2>2, <3>1 DEF Gone
  <2>3. CASE d \in cookies /\ d \notin visible /\ NoDown(queue[d])
    <3>1. d \in cookies' /\ d \notin visible'
      BY <1>1, <1>3, <2>3
    <3> QED
      BY <1>3, <1>4, <2>3, <3>1 DEF Gone
  <2> QED
    BY <1>3, <1>7, <2>1, <2>2, <2>3 DEF Gone
<1>8. \A e \in Dialogs : Gone(e) => Gone(e)'
  BY <1>6, <1>7
<1> QED
  BY <1>1, <1>5, <1>8 DEF DialogsOK, TheDialogs!TypeOK

\* A load of the page leaves nothing of the slides, and hides what has its cookie.
LEMMA ReloadStep ==
    ASSUME DialogsOK, TheDialogs!Reload
    PROVE  DialogsOK'
<1>1. /\ UNCHANGED <<cookies, dismissed>>
      /\ interrupted' = interrupted \cup {d \in Dialogs \ cookies : TheDialogs!IsClosing(d)}
      /\ visible' = Dialogs \ (Hidden \cup (cookies \cap WithCookie))
      /\ queue' = [d \in Dialogs |-> << >>]
      /\ reveals' = Delayed /\ hides' = HideDelayed
  BY DEF TheDialogs!Reload, TheDialogs!Loaded
<1>2. queue' \in [Dialogs -> SlideLists] /\ \A d \in Dialogs : NoDown(queue'[d])
  <2>1. << >> \in SlideLists /\ NoDown(<< >>)
    BY DEF SlideLists, NoDown
  <2> QED
    BY <1>1, <2>1
<1>3. TheDialogs!TypeOK'
  <2>1. interrupted' \subseteq Dialogs
    BY <1>1 DEF DialogsOK, TheDialogs!TypeOK
  <2> QED
    BY <1>1, <1>2, <2>1, WidgetsAssumption
       DEF DialogsOK, TheDialogs!TypeOK, TheDialogs!DialogAssumption, SlideLists
<1>4. ASSUME NEW d \in dismissed, d \notin Delayed, d \notin interrupted'
      PROVE  Gone(d)'
  <2>1. d \in Dialogs /\ d \in WithCookie /\ Gone(d) /\ queue[d] \in SlideLists
    <3>1. d \notin interrupted
      BY <1>1, <1>4
    <3> QED
      BY <1>4, <3>1 DEF DialogsOK, TheDialogs!TypeOK, SlideLists
  <2>2. d \in cookies
    <3>1. CASE ClosesLast(queue[d])
      <4>1. TheDialogs!IsClosing(d)
        BY <2>1, <3>1 DEF ClosesLast, TheDialogs!IsClosing, TheDialogs!Contains, SlideLists
      <4> QED
        BY <1>1, <1>4, <2>1, <4>1
    <3> QED
      BY <2>1, <3>1 DEF Gone
  <2> QED
    BY <1>1, <1>2, <2>1, <2>2 DEF Gone
<1> QED
  BY <1>1, <1>3, <1>4 DEF DialogsOK

LEMMA DialogsStep ==
    ASSUME DialogsOK, TheDialogs!Next
    PROVE  DialogsOK'
<1>1. ASSUME NEW d \in Dialogs, TheDialogs!ShowDialog(d)
      PROVE  DialogsOK'
  <2>1. CASE d \in visible
    BY <1>1, <2>1 DEF TheDialogs!ShowDialog, DialogsOK, TheDialogs!TypeOK, Gone
  <2>2. CASE d \notin visible
    <3>1. /\ TheDialogs!Slide(d, "down") /\ dismissed' = dismissed \ {d}
          /\ UNCHANGED <<reveals, hides, cookies, interrupted>>
      BY <1>1, <2>2 DEF TheDialogs!ShowDialog
    <3> QED
      BY <3>1, SlideDown
  <2> QED
    BY <2>1, <2>2
<1>2. ASSUME NEW d \in Dialogs, TheDialogs!CloseForGood(d)
      PROVE  DialogsOK'
  <2>1. /\ TheDialogs!Slide(d, "close") /\ d \in WithCookie
        /\ dismissed' = dismissed \cup {d} /\ interrupted' = interrupted \ {d}
        /\ UNCHANGED <<reveals, hides, cookies>>
    BY <1>2 DEF TheDialogs!CloseForGood
  <2> QED
    BY <2>1, SlideUp
<1>3. ASSUME NEW d \in Dialogs, TheDialogs!HideDialog(d)
      PROVE  DialogsOK'
  <2>1. /\ TheDialogs!Slide(d, "up")
        /\ UNCHANGED <<reveals, hides, cookies, dismissed, interrupted>>
    BY <1>3 DEF TheDialogs!HideDialog
  <2> QED
    BY <2>1, SlideUp
<1>4. ASSUME NEW d \in Dialogs, TheDialogs!DelayedReveal(d)
      PROVE  DialogsOK'
  <2>1. /\ d \in Delayed /\ reveals' \subseteq reveals /\ TheDialogs!Slide(d, "down")
        /\ UNCHANGED <<hides, cookies, dismissed, interrupted>>
    BY <1>4 DEF TheDialogs!DelayedReveal, DialogsOK
  <2> QED
    BY <2>1, SlideDown
<1>5. ASSUME NEW d \in Dialogs, TheDialogs!DelayedHide(d)
      PROVE  DialogsOK'
  <2>1. /\ hides' \subseteq hides /\ TheDialogs!Slide(d, "up")
        /\ UNCHANGED <<reveals, cookies, dismissed, interrupted>>
    BY <1>5 DEF TheDialogs!DelayedHide
  <2> QED
    BY <2>1, SlideUp
<1> QED
  BY <1>1, <1>2, <1>3, <1>4, <1>5, SlideEndsStep, ReloadStep DEF TheDialogs!Next

\* For any dialogs, slides and loads of the page: a dialog the user closes for good is,
\* from the click on, displayed no longer than its closing takes, until the user shows it
\* again; unless a delay reveals it, or a load of the page came before its cookie.
THEOREM DismissedStays == WidgetsSpec => []StaysDismissed
<1>1. WidgetsInit => DialogsOK
  <2>1. SUFFICES ASSUME TheDialogs!Init
                 PROVE  DialogsOK
    BY DEF WidgetsInit
  <2>2. TheDialogs!TypeOK
    BY <2>1, WidgetsAssumption DEF TheDialogs!Init, TheDialogs!TypeOK,
       TheDialogs!DialogAssumption
  <2> QED
    BY <2>1, <2>2 DEF TheDialogs!Init, DialogsOK
<1>2. DialogsOK /\ [WidgetsNext]_widgetVars => DialogsOK'
  <2>1. SUFFICES ASSUME DialogsOK, UNCHANGED dialogVars
                 PROVE  DialogsOK'
    BY DialogsStep DEF WidgetsNext, UseSlider, UseDialogs, UseSound, widgetVars
  <2> QED
    BY <2>1 DEF dialogVars, DialogsOK, TheDialogs!TypeOK, Gone
<1>3. ASSUME DialogsOK
      PROVE  StaysDismissed
  <2>1. ASSUME NEW d \in dismissed \cap visible, d \notin Delayed, d \notin interrupted
        PROVE  TheDialogs!IsClosing(d)
    <3>1. ClosesLast(queue[d]) /\ queue[d] \in SlideLists
      BY <1>3, <2>1 DEF DialogsOK, TheDialogs!TypeOK, Gone, SlideLists
    <3> QED
      BY <3>1 DEF ClosesLast, TheDialogs!IsClosing, TheDialogs!Contains, SlideLists
  <2> QED
    BY <1>3, <2>1 DEF DialogsOK, StaysDismissed, TheDialogs!StaysDismissed
<1> QED
  BY <1>1, <1>2, <1>3, PTL DEF WidgetsSpec

-----------------------------------------------------------------------------
(* The sound *)

\* The last fade asked for is the way the button shows.
LastFadeShown == fades # << >> /\ fades[Len(fades)] = "in" => playing

SoundOK == NothingPlaysOn /\ LastFadeShown

LEMMA SoundStep ==
    ASSUME SoundOK, TheSound!Next
    PROVE  SoundOK'
<1> USE DEF SoundOK, NothingPlaysOn, TheSound!NothingPlaysOn, TheSound!TypeOK, LastFadeShown
<1>0. fades \in Seq({"in", "out"})
  OBVIOUS
<1>1. CASE TheSound!Click
  <2>1. PICK fade \in {"in", "out"} :
           /\ fades' = Append(fades, fade) /\ playing' = (fade = "in")
           /\ paused' \in BOOLEAN /\ action' = action /\ volume' = volume
    BY Zenon, <1>1 DEF TheSound!Click, TheSound!ClickPlay, TheSound!ClickPause
  <2>2. /\ fades' \in Seq({"in", "out"}) /\ fades' # << >>
        /\ fades'[Len(fades')] = fade
    BY <1>0, <2>1
  <2> QED
    BY Zenon, <2>1, <2>2
<1>2. CASE TheSound!FadeEnds
  <2>1. /\ fades # << >> /\ fades' = Tail(fades)
        /\ volume' = IF Head(fades) = "in" THEN 1 ELSE 0
        /\ paused' = (paused \/ Head(fades) = "out")
        /\ action' = action /\ playing' = playing
    BY <1>2 DEF TheSound!FadeEnds, TheSound!PausedAfter
  <2>2. /\ fades' \in Seq({"in", "out"}) /\ Head(fades) \in {"in", "out"}
        /\ fades' = << >> => Head(fades) = fades[Len(fades)]
        /\ fades' # << >> => fades'[Len(fades')] = fades[Len(fades)]
    <3> HIDE DEF SoundOK
    <3>1. Tail(fades) \in Seq({"in", "out"}) /\ Head(fades) \in {"in", "out"}
      BY <1>0, <2>1
    <3>2. Len(fades) \in Nat \ {0} /\ Len(Tail(fades)) = Len(fades) - 1
      BY <1>0, <2>1
    <3>3. Head(fades) = fades[1]
      BY <1>0, <2>1
    <3>4. Tail(fades) = << >> => Len(fades) = 1
      BY <3>2
    <3>5. Tail(fades) # << >> => Len(fades) - 1 \in 1 .. Len(fades) - 1
      BY <1>0, <3>1, <3>2
    <3>6. \A i \in 1 .. Len(fades) - 1 : Tail(fades)[i] = fades[i + 1]
      BY <1>0, <3>2
    <3> QED
      BY <2>1, <3>1, <3>2, <3>3, <3>4, <3>5, <3>6
  <2>3. volume' = 0 \/ volume' = 1
    BY <2>1
  <2>7. paused' \in BOOLEAN
    <3>1. paused \in BOOLEAN
      BY Zenon
    <3> QED
      BY Zenon, <2>1, <3>1
  <2>4. fades' = << >> /\ ~paused' => playing' /\ volume' = 1
    BY <2>1, <2>2
  <2>5. fades' # << >> /\ fades'[Len(fades')] = "in" => playing'
    BY <2>1, <2>2
  <2>6. action' \in {"toggle", "play", "pause"} /\ playing' \in BOOLEAN
    BY <2>1
  <2> QED
    BY Zenon, <2>2, <2>3, <2>4, <2>5, <2>6, <2>7
<1>3. CASE TheSound!SoundEnds
  BY <1>3 DEF TheSound!SoundEnds
<1> QED
  BY <1>1, <1>2, <1>3 DEF TheSound!Next

\* Once no fade is left, a sound that plays is heard and its button is on.
THEOREM SoundStops == WidgetsSpec => []NothingPlaysOn
<1>1. WidgetsInit => SoundOK
  <2>1. << >> \in Seq({"in", "out"}) /\ 1 \in {0, 1}
    OBVIOUS
  <2>2. ASSUME WidgetsInit
        PROVE  paused \in BOOLEAN /\ (~paused => playing)
    <3>1. playing \in BOOLEAN /\ paused \in {TRUE, ~playing}
      BY <2>2 DEF WidgetsInit, TheSound!Init
    <3> QED
      BY Zenon, <3>1
  <2> QED
    BY Zenon, <2>1, <2>2 DEF WidgetsInit, TheSound!Init, SoundOK, NothingPlaysOn,
       TheSound!NothingPlaysOn, TheSound!TypeOK, LastFadeShown
<1>2. SoundOK /\ [WidgetsNext]_widgetVars => SoundOK'
  <2>1. SUFFICES ASSUME SoundOK, UNCHANGED soundVars
                 PROVE  SoundOK'
    BY SoundStep DEF WidgetsNext, UseSlider, UseDialogs, UseSound, widgetVars
  <2> QED
    BY <2>1 DEF soundVars, SoundOK, NothingPlaysOn, TheSound!NothingPlaysOn,
       TheSound!TypeOK, LastFadeShown
<1> QED
  BY <1>1, <1>2, PTL DEF WidgetsSpec, SoundOK

-----------------------------------------------------------------------------
(* Scroll mode *)

\* A set of numbers with 0 and with the successor of each of its members has all.
LEMMA SetInduction ==
    ASSUME NEW T \in SUBSET Nat, 0 \in T, \A n \in T : n + 1 \in T
    PROVE  T = Nat
<1> DEFINE R == OpToRel(<, Nat)
<1>1. IsWellFoundedOn(R, Nat)
  BY Zenon, NatLessThanWellFounded
<1>2. \A p \in Nat \X Nat : p[1] < p[2] => p \in R
  BY Zenon DEF OpToRel
<1> HIDE DEF R
<1>3. \A i, j \in Nat : i < j => <<i, j>> \in R
  BY <1>2
<1>4. ASSUME NEW x \in Nat \ T, \A y \in Nat \ T : <<y, x>> \notin R
      PROVE  FALSE
  <2>1. x - 1 \in Nat /\ x - 1 < x
    OBVIOUS
  <2>2. <<x - 1, x>> \in R
    BY <1>3, <2>1
  <2>3. x - 1 \in T
    BY Zenon, <1>4, <2>1, <2>2
  <2> QED
    BY <2>1, <2>3
<1>5. CASE Nat \ T # {}
  <2>1. Nat \ T \subseteq Nat
    OBVIOUS
  <2>2. \E x \in Nat \ T : \A y \in Nat \ T : ~(<<y, x>> \in R)
    BY Zenon, <1>1, <1>5, <2>1, WFMin
  <2> QED
    BY Zenon, <1>4, <2>2
<1> QED
  BY <1>5

\* The height of a slide, and the tops of the slides, in a layout.
HeightIn(c, w, s) == IF c[s] > w THEN c[s] ELSE w
TopsIn(c, w) ==
    LET top[i \in 1 .. Stages + 1] ==
            IF i = 1 THEN 0 ELSE top[i - 1] + (IF c[i - 1] > w THEN c[i - 1] ELSE w)
    IN  top

\* f gives the first k tops.
AreTops(f, c, w, k) ==
    f = [i \in 1 .. k + 1 |->
            IF i = 1 THEN 0 ELSE f[i - 1] + (IF c[i - 1] > w THEN c[i - 1] ELSE w)]

\* The recursive definition of the tops defines them: by induction on their number.
LEMMA TopsExist ==
    ASSUME NEW c \in [Slides -> Nat], NEW w \in Nat
    PROVE  TopsIn(c, w) \in [1 .. Stages + 1 -> Nat] /\ AreTops(TopsIn(c, w), c, w, Stages)
<1> DEFINE P(k) == \E f \in [1 .. k + 1 -> Nat] : AreTops(f, c, w, k)
           T == {k \in Nat : k <= Stages => P(k)}
<1>1. 0 \in T
  <2> DEFINE f == [i \in 1 .. 0 + 1 |-> 0]
  <2>1. f \in [1 .. 0 + 1 -> Nat] /\ AreTops(f, c, w, 0)
    BY DEF AreTops
  <2> QED
    BY <2>1
<1>2. ASSUME NEW k \in T
      PROVE  k + 1 \in T
  <2> SUFFICES ASSUME k + 1 <= Stages
               PROVE  P(k + 1)
    OBVIOUS
  <2>1. PICK f \in [1 .. k + 1 -> Nat] : AreTops(f, c, w, k)
    BY ScrollAssumption
  <2> DEFINE h == HeightIn(c, w, k + 1)
             g == [i \in 1 .. k + 1 + 1 |-> IF i = k + 2 THEN f[k + 1] + h ELSE f[i]]
  <2>2. h \in Nat
    BY ScrollAssumption DEF Slides, HeightIn
  <2>3. g \in [1 .. k + 1 + 1 -> Nat]
    BY <2>2
  <2>4. ASSUME NEW i \in 1 .. k + 1
        PROVE  f[i] = IF i = 1 THEN 0
                      ELSE f[i - 1] + (IF c[i - 1] > w THEN c[i - 1] ELSE w)
    BY <2>1 DEF AreTops
  <2>5. ASSUME NEW i \in 1 .. k + 1 + 1
        PROVE  g[i] = IF i = 1 THEN 0
                      ELSE g[i - 1] + (IF c[i - 1] > w THEN c[i - 1] ELSE w)
    BY <2>4 DEF HeightIn
  <2>6. AreTops(g, c, w, k + 1)
    BY <2>5 DEF AreTops
  <2> QED
    BY <2>3, <2>6
<1> HIDE DEF P
<1>3. T = Nat
  <2> HIDE DEF T
  <2> QED
    BY <1>1, <1>2, SetInduction DEF T
<1>4. Stages \in T
  BY <1>3, ScrollAssumption
<1>5. PICK f \in [1 .. Stages + 1 -> Nat] : AreTops(f, c, w, Stages)
  BY <1>4 DEF P
<1>6. AreTops(TopsIn(c, w), c, w, Stages)
  BY <1>5 DEF AreTops, TopsIn
<1> DEFINE t == TopsIn(c, w)
<1>7. t = [i \in 1 .. Stages + 1 |->
              IF i = 1 THEN 0 ELSE t[i - 1] + (IF c[i - 1] > w THEN c[i - 1] ELSE w)]
  BY <1>6 DEF AreTops
<1> HIDE DEF t
<1>8. ASSUME NEW i \in 1 .. Stages + 1
      PROVE  t[i] = IF i = 1 THEN 0 ELSE t[i - 1] + (IF c[i - 1] > w THEN c[i - 1] ELSE w)
  BY <1>7
<1> DEFINE E == {k \in Nat : k <= Stages => t[k + 1] \in Nat}
<1>9. 0 \in E
  BY <1>8, ScrollAssumption
<1>10. ASSUME NEW k \in E
       PROVE  k + 1 \in E
  <2> SUFFICES ASSUME k + 1 <= Stages
               PROVE  t[k + 1 + 1] \in Nat
    OBVIOUS
  <2>1. k + 1 + 1 \in 1 .. Stages + 1 /\ k + 1 + 1 # 1 /\ k + 1 + 1 - 1 = k + 1
        /\ k + 1 \in Slides
    BY ScrollAssumption DEF Slides
  <2>2. t[k + 1] \in Nat /\ c[k + 1] \in Nat
    BY ScrollAssumption, <2>1
  <2> QED
    BY <1>8, <2>1, <2>2
<1>11. E = Nat
  <2> HIDE DEF E
  <2> QED
    BY <1>9, <1>10, SetInduction DEF E
<1>12. ASSUME NEW i \in 1 .. Stages + 1
       PROVE  t[i] \in Nat
  <2>1. i - 1 \in Nat /\ i - 1 <= Stages /\ i - 1 + 1 = i
    BY ScrollAssumption
  <2>2. i - 1 \in E
    BY Zenon, <1>11, <2>1
  <2> QED
    BY <2>1, <2>2
<1> QED
  BY <1>6, <1>7, <1>12 DEF t

\* What is used of the positions: the first slide is at the top, each is as high as
\* the window at least, and begins where the one before it ends.
LEMMA Tops ==
    ASSUME NEW c \in Layouts, NEW w \in WindowHeights
    PROVE  /\ TopsIn(c, w) \in [1 .. Stages + 1 -> Nat]
           /\ TopsIn(c, w)[1] = 0
           /\ w \in Nat \ {0} /\ c \in [Slides -> Nat]
           /\ \A s \in Slides : /\ HeightIn(c, w, s) \in Nat /\ w <= HeightIn(c, w, s)
                                /\ TopsIn(c, w)[s + 1] = TopsIn(c, w)[s] + HeightIn(c, w, s)
           /\ \A s, r \in 1 .. Stages + 1 : s <= r => TopsIn(c, w)[s] <= TopsIn(c, w)[r]
<1>1. w \in Nat \ {0} /\ c \in [Slides -> Nat]
  <2>1. \A s \in Slides : c[s] \in Nat
    BY ScrollAssumption DEF Layouts
  <2>2. c \in [Slides -> UNION {Contents[s] : s \in Slides}]
    BY DEF Layouts
  <2> QED
    BY <2>1, <2>2, ScrollAssumption
<1> DEFINE t == TopsIn(c, w)
<1>2. t \in [1 .. Stages + 1 -> Nat] /\ AreTops(t, c, w, Stages)
  BY <1>1, TopsExist
<1> HIDE DEF t
<1>3. ASSUME NEW i \in 1 .. Stages + 1
      PROVE  t[i] = IF i = 1 THEN 0 ELSE t[i - 1] + (IF c[i - 1] > w THEN c[i - 1] ELSE w)
  BY <1>2 DEF AreTops
<1>4. t[1] = 0
  BY <1>3, ScrollAssumption
<1>5. ASSUME NEW s \in Slides
      PROVE  /\ HeightIn(c, w, s) \in Nat /\ w <= HeightIn(c, w, s)
             /\ t[s + 1] = t[s] + HeightIn(c, w, s)
  <2>1. ASSUME NEW i \in 2 .. Stages + 1
        PROVE  t[i] = t[i - 1] + HeightIn(c, w, i - 1)
    BY <1>3, ScrollAssumption DEF HeightIn
  <2>2. s + 1 \in 2 .. Stages + 1 /\ s + 1 - 1 = s
    BY ScrollAssumption DEF Slides
  <2>4. t[s + 1] = t[s] + HeightIn(c, w, s)
    BY <2>1, <2>2, ScrollAssumption DEF Slides
  <2>3. HeightIn(c, w, s) \in Nat /\ w <= HeightIn(c, w, s)
    BY <1>1 DEF HeightIn
  <2> QED
    BY <2>3, <2>4
<1>6. ASSUME NEW s \in 1 .. Stages + 1, NEW r \in 1 .. Stages + 1, s <= r
      PROVE  t[s] <= t[r]
  <2> DEFINE E == {k \in Nat : s + k <= Stages + 1 => t[s] <= t[s + k]}
  <2>1. 0 \in E
    BY <1>2, ScrollAssumption
  <2>2. ASSUME NEW k \in E
        PROVE  k + 1 \in E
    <3> SUFFICES ASSUME s + (k + 1) <= Stages + 1
                 PROVE  t[s] <= t[s + (k + 1)]
      OBVIOUS
    <3>1. s + k \in Slides /\ s + k + 1 = s + (k + 1) /\ s + k + 1 \in 1 .. Stages + 1
      BY ScrollAssumption DEF Slides
    <3>2. t[s] <= t[s + k]
      BY <3>1, ScrollAssumption DEF Slides
    <3>3. t[s + k + 1] = t[s + k] + HeightIn(c, w, s + k) /\ HeightIn(c, w, s + k) \in Nat
      BY <1>5, <3>1
    <3>4. t[s] \in Nat /\ t[s + k] \in Nat
      BY <1>2, <3>1, ScrollAssumption DEF Slides
    <3> QED
      BY <3>1, <3>2, <3>3, <3>4
  <2>3. E = Nat
    <3> HIDE DEF E
    <3> QED
      BY <2>1, <2>2, SetInduction DEF E
  <2>4. r - s \in Nat /\ s + (r - s) = r
    BY <1>6, ScrollAssumption
  <2>5. r - s \in E
    BY Zenon, <2>3, <2>4
  <2> QED
    BY <2>4, <2>5, ScrollAssumption
<1> QED
  BY <1>1, <1>2, <1>4, <1>5, <1>6 DEF t

\* The page is as high as the window at least.
LEMMA PageHeight ==
    ASSUME NEW c \in Layouts, NEW w \in WindowHeights
    PROVE  /\ \A s \in 1 .. Stages + 1 : TopsIn(c, w)[s] \in Nat
           /\ Stages + 1 \in 1 .. Stages + 1
           /\ TopsIn(c, w)[Stages + 1] - w \in Nat
<1> DEFINE t == TopsIn(c, w)
<1>1. Stages \in Slides /\ Stages \in 1 .. Stages + 1 /\ Stages + 1 \in 1 .. Stages + 1
  BY ScrollAssumption DEF Slides
<1>2. /\ t \in [1 .. Stages + 1 -> Nat] /\ w \in Nat
      /\ HeightIn(c, w, Stages) \in Nat /\ w <= HeightIn(c, w, Stages)
      /\ t[Stages + 1] = t[Stages] + HeightIn(c, w, Stages)
  BY <1>1, Tops
<1> HIDE DEF t
<1>3. t[Stages] \in Nat
  BY <1>1, <1>2
<1>4. t[Stages + 1] - w \in Nat
  BY <1>2, <1>3
<1> QED
  BY <1>1, <1>2, <1>4 DEF t

\* The positions of a state are those of its layout, and so are those after a step.
LEMMA Positions ==
    /\ \A s : Height(s) = HeightIn(content, windowHeight, s)
    /\ \A s : Top(s) = TopsIn(content, windowHeight)[s]
    /\ Bottom = TopsIn(content, windowHeight)[Stages + 1] - windowHeight
    /\ Bottom' = TopsIn(content', windowHeight')[Stages + 1] - windowHeight'
    /\ Document' = TopsIn(content', windowHeight')[Stages + 1]
    /\ \A s :
          Middle(s)' = (LET t == TopsIn(content', windowHeight')
                            middle == 2 * scrollTop' + windowHeight'
                        IN  2 * t[s] < middle /\ middle < 2 * t[s + 1])
BY DEF Height, HeightIn, Top, TopsIn, Bottom, Document, Middle

\* Half of the window lies in one slide at most, the one its middle lies in.
LEMMA FoundIsMiddle ==
    ASSUME TypeOK, NEW known \in Nat
    PROVE  /\ \A s \in Slides : HalfOnScreen(s) <=> Middle(s)
           /\ \A s, r \in Slides : Middle(s) /\ Middle(r) => s = r
           /\ Found(known) = {} \/ \E s \in Slides : Found(known) = {s} /\ Middle(s)
<1> DEFINE t == TopsIn(content, windowHeight)
           h(s) == HeightIn(content, windowHeight, s)
<1>1. content \in Layouts /\ windowHeight \in WindowHeights /\ windowHeight \in Nat \ {0}
      /\ scrollTop \in Int
  BY ScrollAssumption DEF TypeOK
<1>2. /\ \A s \in 1 .. Stages + 1 : t[s] \in Nat
      /\ \A s \in Slides : h(s) \in Nat /\ windowHeight <= h(s) /\ t[s + 1] = t[s] + h(s)
      /\ \A s, r \in 1 .. Stages + 1 : s <= r => t[s] <= t[r]
  BY <1>1, Tops
<1>3. \A s : Top(s) = t[s] /\ Height(s) = h(s)
  BY Positions
<1> HIDE DEF t, h
<1>4. ASSUME NEW s \in Slides
      PROVE  HalfOnScreen(s) <=> Middle(s)
  <2>1. s \in 1 .. Stages + 1 /\ s + 1 \in 1 .. Stages + 1
    BY ScrollAssumption DEF Slides
  <2>2. t[s] \in Nat /\ h(s) \in Nat /\ windowHeight <= h(s) /\ t[s + 1] = t[s] + h(s)
    BY <1>2, <2>1
  <2>3. ~(windowHeight > 2 * h(s))
    BY <1>1, <2>2
  <2> QED
    BY <1>1, <1>3, <2>2, <2>3 DEF HalfOnScreen, Middle
<1>5. ASSUME NEW s \in Slides, NEW r \in Slides, Middle(s), Middle(r), s < r
      PROVE  FALSE
  <2>1. s + 1 \in 1 .. Stages + 1 /\ r \in 1 .. Stages + 1 /\ s + 1 <= r
    BY <1>5, ScrollAssumption DEF Slides
  <2>2. t[s + 1] <= t[r] /\ t[s + 1] \in Nat /\ t[r] \in Nat
    BY <1>2, <2>1
  <2> QED
    BY <1>1, <1>3, <1>5, <2>2 DEF Middle
<1>6. ASSUME NEW s \in Slides, NEW r \in Slides, Middle(s), Middle(r)
      PROVE  s = r
  BY <1>5, <1>6, ScrollAssumption DEF Slides
<1>7. ASSUME NEW s \in Found(known)
      PROVE  Found(known) = {s} /\ s \in Slides /\ Middle(s)
  BY <1>4, <1>6 DEF Found
<1> QED
  BY <1>4, <1>6, <1>7

\* Where the page's end is known, the slide in the middle is the one that is found: at
\* the end it is the last one, at the start the first.
LEMMA MiddleIsFound ==
    ASSUME TypeOK, NEW s \in Slides, Middle(s)
    PROVE  Found(Document) = {s}
<1> DEFINE t == TopsIn(content, windowHeight)
<1>1. content \in Layouts /\ windowHeight \in WindowHeights /\ windowHeight \in Nat \ {0}
      /\ scrollTop \in 0 .. Bottom
  BY ScrollAssumption DEF TypeOK
<1>2. /\ t[1] = 0 /\ \A i \in 1 .. Stages + 1 : t[i] \in Nat
      /\ \A i \in Slides : HeightIn(content, windowHeight, i) \in Nat
                           /\ windowHeight <= HeightIn(content, windowHeight, i)
                           /\ t[i + 1] = t[i] + HeightIn(content, windowHeight, i)
      /\ \A i, j \in 1 .. Stages + 1 : i <= j => t[i] <= t[j]
  BY <1>1, Tops
<1>3. Document = t[Stages + 1] /\ Bottom = t[Stages + 1] - windowHeight
      /\ \A i : Top(i) = t[i]
  BY Positions DEF Document
<1> HIDE DEF t
<1>4. Stages \in Slides /\ 1 \in Slides /\ Stages + 1 \in 1 .. Stages + 1
      /\ \A i \in Slides : i \in 1 .. Stages + 1 /\ i + 1 \in 1 .. Stages + 1
  BY ScrollAssumption DEF Slides
<1>5. windowHeight <= t[Stages + 1] - t[Stages] /\ windowHeight <= t[2]
      /\ t[Stages] \in Nat /\ t[Stages + 1] \in Nat /\ t[2] \in Nat
  <2>1. t[Stages + 1] = t[Stages] + HeightIn(content, windowHeight, Stages)
        /\ t[1 + 1] = t[1] + HeightIn(content, windowHeight, 1)
        /\ windowHeight <= HeightIn(content, windowHeight, Stages)
        /\ windowHeight <= HeightIn(content, windowHeight, 1)
        /\ HeightIn(content, windowHeight, Stages) \in Nat
        /\ HeightIn(content, windowHeight, 1) \in Nat
        /\ t[Stages] \in Nat
    BY <1>2, <1>4
  <2> QED
    BY <1>1, <1>2, <2>1
<1>6. \A i, j \in Slides : Middle(i) /\ Middle(j) => i = j
  BY FoundIsMiddle
<1>7. AllowToSelect(s, Document)
  <2>1. CASE scrollTop + windowHeight = Document
    <3>1. Middle(Stages)
      BY <1>1, <1>3, <1>5, <2>1 DEF Middle
    <3> QED
      BY <1>4, <1>6, <2>1, <3>1 DEF AllowToSelect
  <2>2. CASE scrollTop = 0
    <3>1. Middle(1)
      BY <1>1, <1>2, <1>3, <1>5, <2>2 DEF Middle
    <3>2. s = 1
      BY <1>4, <1>6, <3>1
    <3>3. scrollTop + windowHeight = Document => s = Stages
      BY <2>1 DEF AllowToSelect
    <3> QED
      BY <3>2, <3>3 DEF AllowToSelect
  <2> QED
    BY <2>1, <2>2 DEF AllowToSelect
<1>8. HalfOnScreen(s) /\ Document # 0
  BY <1>1, <1>3, <1>5, FoundIsMiddle
<1>9. s \in Found(Document)
  BY <1>7, <1>8 DEF Found
<1>10. Document \in Nat
  BY <1>3, <1>5
<1> QED
  BY <1>9, <1>10, <1>6, FoundIsMiddle

\* For who only scrolls, the slide that is selected is the stage, and its dot, or none,
\* is the selected one when no updateNavigation is due.
DotInv ==
    ~jumps => /\ selected \subseteq {stage}
              /\ dots = 0 /\ firstTime => dot \in {0, stage}

\* One slide is selected, or none.
OneSelected == \A r, s \in selected : r = s

ScrollInv == MiddleIsSelected /\ OneSelected /\ DotInv

\* What updateScroll does: it finds no slide, or one, which is announced unless it was
\* the stage before.
LEMMA UpdateFinds ==
    ASSUME TypeOK, NEW known \in Nat, NEW also \in SUBSET Slides, NEW navigate \in Nat,
           UpdateScroll(known, also, navigate)
    PROVE  /\ dots' \in Nat /\ seen'
           /\ selected' = Found(known) /\ active' = active \cup also \cup selected'
           /\ \/ /\ Found(known) = {}
                 /\ firstTime' = firstTime /\ dots' = dots + navigate
                 /\ UNCHANGED <<stage, before, after>>
              \/ \E s \in Slides :
                    /\ Found(known) = {s} /\ firstTime'
                    /\ stage' = s /\ before' = 1 .. s - 1 /\ after' = s + 1 .. Stages
                    /\ dots' = 0 => dots = 0 /\ firstTime /\ stage = s
<1>1. /\ seen' /\ selected' = Found(known) /\ active' = active \cup also \cup selected'
      /\ firstTime' = (firstTime \/ Found(known) # {})
      /\ dots' = dots + Announced(Found(known)) + navigate
  BY DEF UpdateScroll
<1>2. dots \in Nat /\ firstTime \in BOOLEAN
  BY DEF TypeOK
<1>3. CASE Found(known) = {}
  <2>1. Found(known) \ (IF firstTime /\ (\A r \in Found(known) : stage <= r)
                          THEN {stage} ELSE {}) = {}
    BY <1>3
  <2>2. Announced(Found(known)) = 0
    BY <2>1, FS_EmptySet DEF Announced
  <2>3. UNCHANGED <<stage, before, after>>
    BY <1>3 DEF UpdateScroll
  <2>4. firstTime' = firstTime
    BY <1>1, <1>2, <1>3
  <2>5. dots' = dots + navigate
    BY <1>1, <1>2, <2>2
  <2> QED
    BY <1>1, <1>2, <1>3, <2>3, <2>4, <2>5
<1>4. ASSUME NEW s \in Slides, Found(known) = {s}
      PROVE  /\ dots' \in Nat /\ firstTime'
             /\ stage' = s /\ before' = 1 .. s - 1 /\ after' = s + 1 .. Stages
             /\ dots' = 0 => dots = 0 /\ firstTime /\ stage = s
  <2> DEFINE last == CHOOSE r \in Found(known) : \A q \in Found(known) : q <= r
             told == Found(known) \ (IF firstTime /\ (\A r \in Found(known) : stage <= r)
                                       THEN {stage} ELSE {})
  <2>1. last = s
    BY <1>4, ScrollAssumption DEF Slides
  <2>2. stage' = last /\ before' = 1 .. last - 1 /\ after' = last + 1 .. Stages
    BY <1>4 DEF UpdateScroll
  <2>3. Announced(Found(known)) = Cardinality(told)
    BY DEF Announced
  <2>4. (told = {} /\ firstTime /\ stage = s) \/ told = {s}
    BY <1>4
  <2> HIDE DEF last, told
  <2>5. (Cardinality(told) = 0 /\ firstTime /\ stage = s) \/ Cardinality(told) = 1
    BY <2>4, FS_EmptySet, FS_Singleton
  <2>6. Found(known) # {} /\ firstTime'
    BY <1>1, <1>4
  <2>7. Cardinality(told) \in {0, 1}
    BY Zenon, <2>5
  <2>8. dots' \in Nat /\ (dots' = 0 => dots = 0 /\ Cardinality(told) # 1)
    BY <1>1, <1>2, <2>3, <2>7
  <2> QED
    BY Zenon, <2>1, <2>2, <2>5, <2>6, <2>8
<1> QED
  BY <1>1, <1>3, <1>4, FoundIsMiddle

\* Each call of updateScroll, from a scroll event, the load event or runTheCode, sets
\* right what is shown, by the height of the page it is given.
LEMMA UpdateKeeps ==
    ASSUME ScrollInv, NEW known \in Nat, NEW also \in SUBSET Slides, NEW navigate \in Nat,
           UpdateScroll(known, also, navigate), documentHeight' = known,
           UNCHANGED <<content, windowHeight, scrollTop, target, dot, jumps>>,
           {scrolled', loaded'} \subseteq BOOLEAN, run' \in {"no", "set", "done"}
    PROVE  ScrollInv'
<1>1. TypeOK
  BY DEF ScrollInv, MiddleIsSelected
<1>2. /\ dots' \in Nat /\ seen' \in BOOLEAN
      /\ selected' = Found(known) /\ active' = active \cup also \cup selected'
      /\ \/ /\ Found(known) = {}
            /\ firstTime' = firstTime /\ dots' = dots + navigate
            /\ UNCHANGED <<stage, before, after>>
         \/ \E s \in Slides :
               /\ Found(known) = {s} /\ firstTime'
               /\ stage' = s /\ before' = 1 .. s - 1 /\ after' = s + 1 .. Stages
               /\ dots' = 0 => dots = 0 /\ firstTime /\ stage = s
  BY <1>1, UpdateFinds DEF UpdateScroll
<1>3. Bottom' = Bottom /\ Document' = Document /\ \A s : Middle(s)' = Middle(s)
  BY Positions DEF Middle, Document
<1>4. Found(known) \subseteq Slides
  BY DEF Found
<1>5. TypeOK'
  <2>1. selected' \subseteq Slides /\ active' \subseteq Slides /\ stage' \in Nat \ {0}
        /\ before' \subseteq Slides /\ after' \subseteq Slides /\ firstTime' \in BOOLEAN
    <3>1. CASE Found(known) = {}
      BY <1>1, <1>2, <1>4, <3>1 DEF TypeOK
    <3>2. ASSUME NEW s \in Slides, Found(known) = {s}, stage' = s,
                 before' = 1 .. s - 1, after' = s + 1 .. Stages, firstTime'
          PROVE  /\ selected' \subseteq Slides /\ active' \subseteq Slides
                 /\ stage' \in Nat \ {0} /\ firstTime' \in BOOLEAN
                 /\ before' \subseteq Slides /\ after' \subseteq Slides
      <4>1. before' \subseteq Slides /\ after' \subseteq Slides /\ s \in Nat \ {0}
        BY <3>2, ScrollAssumption DEF Slides
      <4>2. firstTime' \in BOOLEAN
        BY DEF UpdateScroll
      <4> QED
        BY <1>1, <1>2, <1>4, <3>2, <4>1, <4>2 DEF TypeOK
    <3> QED
      BY <1>2, <3>1, <3>2
  <2> QED
    BY <1>1, <1>2, <1>3, <2>1 DEF TypeOK
<1>6. DotInv'
  <2>1. CASE Found(known) = {}
    BY <1>1, <1>2, <2>1 DEF DotInv, ScrollInv, TypeOK
  <2>2. ASSUME NEW s \in Slides, Found(known) = {s}, stage' = s,
               dots' = 0 => dots = 0 /\ firstTime /\ stage = s
        PROVE  DotInv'
    BY <1>2, <2>2 DEF DotInv, ScrollInv
  <2> QED
    BY <1>2, <2>1, <2>2
<1>7. ASSUME documentHeight' = Document', NEW s \in Slides, Middle(s)'
      PROVE  /\ selected' = {s} /\ s \in active'
             /\ before' = 1 .. s - 1 /\ after' = s + 1 .. Stages /\ stage' = s
  <2>1. Found(known) = {s}
    BY <1>1, <1>3, <1>7, MiddleIsFound
  <2> QED
    BY <1>2, <2>1
<1>8. OneSelected'
  BY <1>2 DEF OneSelected
<1> QED
  BY <1>5, <1>6, <1>7, <1>8 DEF ScrollInv, MiddleIsSelected

\* The layout after a step leaves the position on the page.
LEMMA LayoutKeeps ==
    ASSUME ScrollInv, Layout, content' \in Layouts, windowHeight' \in WindowHeights,
           documentHeight' \in Nat, UNCHANGED <<loaded, run>>
    PROVE  ScrollInv'
<1>1. Bottom' \in Nat
  BY PageHeight, Positions
<1>2. scrollTop \in Nat
  BY DEF ScrollInv, MiddleIsSelected, TypeOK
<1>3. scrollTop' \in 0 .. Bottom'
  BY <1>1, <1>2 DEF Layout
<1>4. seen' = FALSE /\ UNCHANGED <<target, classes, dot, jumps>> /\ scrolled' \in BOOLEAN
  BY DEF Layout
<1>5. TypeOK'
  BY <1>3, <1>4 DEF classes, ScrollInv, MiddleIsSelected, TypeOK
<1> QED
  BY <1>4, <1>5 DEF classes, ScrollInv, MiddleIsSelected, OneSelected, DotInv

\* No step leaves what is shown wrong once it has been looked at.
LEMMA ScrollInvStep ==
    ASSUME ScrollInv, [Next]_vars
    PROVE  ScrollInv'
<1> USE DEF ScrollInv, MiddleIsSelected
<1>0. Document \in Nat /\ \A n \in Slides : Top(n) \in Nat
  <2>1. content \in Layouts /\ windowHeight \in WindowHeights
    BY DEF TypeOK
  <2>2. \A s \in 1 .. Stages + 1 : Top(s) \in Nat
    BY <2>1, PageHeight, Positions
  <2> QED
    BY <2>2, ScrollAssumption DEF Document, Slides
<1>1. UNCHANGED page => UNCHANGED <<Bottom, Document>>
                        /\ \A s : scrollTop' = scrollTop => Middle(s)' = Middle(s)
  BY Positions DEF page, Document, Middle
<1>2. CASE UNCHANGED vars
  BY <1>1, <1>2 DEF vars, classes, page, TypeOK, OneSelected, DotInv
<1>3. ASSUME NEW y \in 0 .. Bottom, MoveTo(y), target' \in Nat \cup {None},
             UNCHANGED <<page, classes, dot, loaded, run, jumps>>
      PROVE  ScrollInv'
  <2>1. TypeOK'
    BY <1>1, <1>3 DEF MoveTo, page, classes, TypeOK
  <2>2. DotInv' /\ OneSelected'
    BY <1>3 DEF classes, DotInv, OneSelected
  <2>3. seen' => seen /\ scrollTop' = scrollTop
    BY <1>3 DEF MoveTo
  <2> QED
    BY <1>1, <1>3, <2>1, <2>2, <2>3 DEF page, classes
<1>4. ASSUME NEW y \in (scrollTop - 1 .. scrollTop + 1) \cap (0 .. Bottom), Scroll(y)
      PROVE  ScrollInv'
  BY <1>3, <1>4 DEF Scroll, TypeOK
<1>5. ASSUME NEW y \in (scrollTop - 1 .. scrollTop + 1) \cap (0 .. Bottom), Animate(y)
      PROVE  ScrollInv'
  BY <1>3, <1>5 DEF Animate, TypeOK
<1>6. CASE ScrollEvent \/ Touch
  <2>1. UpdateScroll(documentHeight, {}, 0)
        /\ UNCHANGED <<page, scrollTop, target, dot, loaded, run, jumps>>
    BY <1>6 DEF ScrollEvent, Touch
  <2>2. {scrolled', loaded'} \subseteq BOOLEAN /\ run' \in {"no", "set", "done"}
        /\ documentHeight \in Nat
    BY <1>6, <2>1 DEF ScrollEvent, Touch, TypeOK
  <2> QED
    BY <2>1, <2>2, UpdateKeeps DEF page
<1>7. CASE Load
  BY <1>0, <1>7, UpdateKeeps DEF Load, TypeOK
<1>8. ASSUME NEW mobile \in BOOLEAN, Run(mobile)
      PROVE  ScrollInv'
  <2>1. \E also \in SUBSET Slides : UpdateScroll(documentHeight, also, 1)
    BY <1>8 DEF Run
  <2> QED
    BY <1>8, <2>1, UpdateKeeps DEF Run, page, TypeOK
<1>9. ASSUME NEW n \in Nat \ {0}, ChangeSlide(n)
      PROVE  ScrollInv'
  <2>1. target' \in Nat \cup {None}
    BY <1>0, <1>9 DEF ChangeSlide, TypeOK
  <2>2. TypeOK'
    BY <1>1, <1>9, <2>1 DEF ChangeSlide, page, TypeOK
  <2>3. jumps /\ jumps'
    BY <1>9 DEF ChangeSlide
  <2> QED
    BY <1>1, <1>9, <2>2, <2>3 DEF ChangeSlide, page, OneSelected, DotInv
<1>10. ASSUME NEW down \in BOOLEAN
       PROVE  Following(down) \in Nat \ {0}
  BY ScrollAssumption DEF Following, TypeOK
<1>11. ASSUME NEW n \in Slides, Follow(n)
       PROVE  ScrollInv'
  BY <1>0, <1>1, <1>11 DEF Follow, page, classes, TypeOK, OneSelected, DotInv
<1>12. ASSUME NEW s \in Slides, NEW c \in Contents[s], Grow(s, c)
       PROVE  ScrollInv'
  <2>1. content' \in Layouts
    BY <1>12 DEF Grow, Layouts, TypeOK
  <2> QED
    BY <1>12, <2>1, LayoutKeeps DEF Grow, TypeOK
<1>13. ASSUME NEW w \in WindowHeights, Resize(w)
       PROVE  ScrollInv'
  <2>1. content' \in Layouts /\ windowHeight' \in WindowHeights
    BY <1>13 DEF Resize, TypeOK
  <2>2. Document' \in Nat
    BY <2>1, PageHeight, Positions
  <2> QED
    BY <1>13, <2>1, <2>2, LayoutKeeps DEF Resize
<1>14. CASE UpdateNavigation
  <2> DEFINE first == CHOOSE s \in selected : \A r \in selected : s <= r
  <2>1. selected # {} => first \in selected /\ first \in Slides
    <3>1. \A s \in selected : \A r \in selected : s <= r
      BY ScrollAssumption DEF OneSelected, TypeOK, Slides
    <3> QED
      BY <3>1 DEF TypeOK
  <2>2. dot' = (IF selected = {} THEN 0 ELSE first) /\ dots' = dots - 1 /\ dots > 0
        /\ UNCHANGED <<page, scrollTop, target, scrolled, stage, selected, active, before,
                       after, firstTime, loaded, run, jumps, seen>>
    BY <1>14 DEF UpdateNavigation
  <2> HIDE DEF first
  <2>3. dot' \in 0 .. Stages /\ dots' \in Nat
    BY <2>1, <2>2, ScrollAssumption DEF TypeOK, Slides
  <2>4. TypeOK'
    BY <1>1, <2>2, <2>3 DEF page, TypeOK
  <2>5. DotInv'
    BY <2>1, <2>2 DEF DotInv
  <2> QED
    BY <1>1, <2>2, <2>4, <2>5 DEF page, OneSelected
<1> QED
  BY <1>2, <1>4, <1>5, <1>6, <1>7, <1>8, <1>9, <1>10, <1>11, <1>12, <1>13, <1>14,
     ScrollAssumption DEF Next, Slides

\* A page that has just been loaded has nothing selected, and has not been looked at.
LEMMA ScrollInvInit ==
    ASSUME Init
    PROVE  ScrollInv
<1>1. content \in Layouts /\ windowHeight \in WindowHeights
  BY DEF Init
<1>2. Bottom \in Nat
  BY <1>1, PageHeight, Positions
<1>3. TypeOK
  <2>1. scrollTop \in 0 .. Bottom /\ dot \in 0 .. Stages /\ dots \in Nat
        /\ documentHeight \in Nat /\ stage \in Nat \ {0} /\ target \in Nat \cup {None}
    BY <1>2, ScrollAssumption DEF Init
  <2>2. selected \subseteq Slides /\ active \subseteq Slides
        /\ before \subseteq Slides /\ after \subseteq Slides
        /\ {scrolled, firstTime, loaded, jumps, seen} \subseteq BOOLEAN
        /\ run \in {"no", "set", "done"}
    BY DEF Init
  <2> QED
    BY Zenon, <1>1, <2>1, <2>2 DEF TypeOK
<1>4. OneSelected /\ DotInv /\ ~seen
  BY DEF Init, OneSelected, DotInv
<1> QED
  BY <1>3, <1>4 DEF ScrollInv, MiddleIsSelected

\* Whatever the heights of the window and of the slides, and however scroll events,
\* touches, the timers, the load event and changes of the layout follow each other:
\* once updateScroll has run since the page last moved, with the height of the page as
\* the page knows it, the slide in the middle of the window is the only one selected,
\* is shown, and the slides before and after it are those marked so; for who only
\* scrolls it is the stage.
THEOREM MiddleIsShown == Spec => []MiddleIsSelected
<1>1. Init => ScrollInv
  BY ScrollInvInit
<1>2. ScrollInv /\ [Next]_vars => ScrollInv'
  BY ScrollInvStep
<1>3. ScrollInv => MiddleIsSelected
  BY DEF ScrollInv
<1> QED
  BY <1>1, <1>2, <1>3, PTL DEF Spec

\* However many calls of updateNavigation are pending, and whatever slides are selected
\* between them: when none is left, the navigation shows who only scrolls the dot of
\* the slide at hand, or none.
THEOREM DotsFollow == Spec => []DotFollows
<1>1. Init => ScrollInv
  BY ScrollInvInit
<1>2. ScrollInv /\ [Next]_vars => ScrollInv'
  BY ScrollInvStep
<1>3. ScrollInv => DotFollows
  BY DEF ScrollInv, DotInv, DotFollows
<1> QED
  BY <1>1, <1>2, <1>3, PTL DEF Spec

=============================================================================
