---------------------------- MODULE SlideShowProofs ----------------------------
(***************************************************************************)
(* Theorems about the slide manager, for every number of slides, every      *)
(* choice of names and dots, and every speed, delay and bound.              *)
(***************************************************************************)
EXTENDS SlideShow, TLAPS

\* The timeouts there are: the slide one is to animate is there.
Timeouts ==
    {t \in [kind : Kinds, left : Nat, old : 0 .. Stages, new : 0 .. Stages] :
        t.kind = "animate" => t.new \in Slides}

\* Once the code has run, a slide is selected.
ReadySelected == ready => selected \in Slides

Typed == TypeOK /\ ReadySelected /\ timeouts \subseteq Timeouts

\* The timeouts showSlide sets are timeouts.
LEMMA ShowTimeoutsType ==
    ASSUME NEW old \in 0 .. Stages, NEW n \in Slides
    PROVE  /\ ShowTimeouts(old, n) \subseteq Timeouts
           /\ PopState(n) \subseteq Timeouts
           /\ HashOf(n) \in 0 .. Stages
           /\ PopState(HashOf(n)) \subseteq Timeouts
<1>1. AnimateDelay \in Nat
  BY SMT, SlideAssumption DEF AnimateDelay
<1>2. EffectSpeed \in Nat /\ Soon \in Nat /\ Stages \in Nat
  BY SlideAssumption
<1>3. /\ Timeout("dot", Soon, 0, 0) \in Timeouts
      /\ Timeout("hash", Soon, 0, 0) \in Timeouts
      /\ Timeout("effect", EffectSpeed, old, n) \in Timeouts
      /\ Timeout("animate", AnimateDelay, 0, n) \in Timeouts
  BY SMT, <1>1, <1>2 DEF Timeout, Timeouts, Kinds, Slides
<1>4. HashOf(n) \in 0 .. Stages
  BY SMT, <1>2 DEF HashOf, Slides
<1> QED
  BY <1>3, <1>4 DEF ShowTimeouts, PopState

\* showSlide keeps the types.
LEMMA ShowSlideType ==
    ASSUME TypeOK, NEW n \in Slides, NEW others \in SUBSET Timeouts,
           ShowSlide(n, others)
    PROVE  /\ selected' \in Slides /\ active' \subseteq Slides /\ early' \subseteq Slides
           /\ hash' \in 0 .. Stages /\ blockScroll' \in BOOLEAN /\ zoomed' \in BOOLEAN
           /\ timeouts' \subseteq Timeouts
<1>1. Stages \in Nat
  BY SlideAssumption
<1>2. selected \in 0 .. Stages
  BY DEF TypeOK
<1>3. /\ selected' = n /\ hash' = HashOf(n) /\ zoomed' = FALSE
      /\ blockScroll' = (blockScroll \/ loaded)
      /\ timeouts' = others \cup ShowTimeouts(selected, n) \cup PopState(HashOf(n))
  BY DEF ShowSlide
<1>4. timeouts' \subseteq Timeouts /\ hash' \in 0 .. Stages
  BY <1>2, <1>3, ShowTimeoutsType
<1>5. {selected, n} \ {0} \subseteq Slides
  BY SMT, <1>1, <1>2 DEF Slides
<1>6. active' \subseteq Slides /\ early' \subseteq Slides
  BY <1>5 DEF ShowSlide, TypeOK
<1>7. blockScroll' \in BOOLEAN
  BY <1>3 DEF TypeOK
<1> QED
  BY <1>3, <1>4, <1>6, <1>7

\* changeSlide keeps the types.
LEMMA ChangeSlideType ==
    ASSUME TypeOK, NEW n \in Nat \ {0}, NEW others \in SUBSET Timeouts,
           ChangeSlide(n, others)
    PROVE  /\ stage' \in Slides /\ inAction' \in BOOLEAN /\ zoomed' \in BOOLEAN
           /\ timeouts' \subseteq Timeouts
<1>1. Stages \in Nat /\ ZoomPause \in Nat
  BY SlideAssumption
<1>2. Timeout("change", IF zoomed THEN ZoomPause ELSE 0, 0, 0) \in Timeouts
  BY SMT, <1>1 DEF Timeout, Timeouts, Kinds
<1>3. CASE Accepts(n)
  <2>1. n \in Slides
    BY SMT, <1>1, <1>3 DEF Accepts, Slides
  <2>2. /\ inAction' = TRUE /\ stage' = n /\ zoomed' = FALSE
        /\ timeouts' = others \cup {Timeout("change", IF zoomed THEN ZoomPause ELSE 0, 0, 0)}
    BY <1>3 DEF ChangeSlide
  <2> QED
    BY <1>2, <2>1, <2>2
<1>4. CASE ~Accepts(n)
  BY <1>4 DEF ChangeSlide, TypeOK
<1> QED
  BY <1>3, <1>4

\* The slide after or before the stage is a slide.
LEMMA FollowingType ==
    ASSUME TypeOK, NEW down \in BOOLEAN
    PROVE  Following(down) \in Slides
BY SMT, SlideAssumption DEF TypeOK, Following, Slides

LEMMA TypedInit == Init => Typed
<1>1. 0 \in 0 .. Stages /\ 1 \in Slides /\ 0 \in Int
  BY SMT, SlideAssumption DEF Slides
<1> QED
  BY Zenon, <1>1 DEF Init, Typed, TypeOK, ReadySelected

\* The user's input keeps the types.
LEMMA TypedUser ==
    ASSUME Typed, UserActs
    PROVE  Typed'
<1> USE DEF Typed, ReadySelected
<1>0. timeouts \in SUBSET Timeouts /\ Stages \in Nat \ {0} /\ Slides = 1 .. Stages
  BY SlideAssumption DEF Slides
<1>1. ASSUME NEW n \in Nat \ {0}, ChangeSlide(n, timeouts),
             UNCHANGED <<showing, hash, collectScrolls>>
      PROVE  Typed'
  BY <1>0, <1>1, ChangeSlideType DEF TypeOK, Timeouts, showing
<1>2. ASSUME NEW down \in BOOLEAN, Step(down)
      PROVE  Typed'
  BY <1>0, <1>1, <1>2, FollowingType DEF Step
<1>3. ASSUME NEW n \in ToSlides \cup {s \in Slides : DotOf[s] = s}, Choose(n)
      PROVE  Typed'
  <2>1. n \in Nat \ {0}
    BY SlideAssumption, <1>0
  <2> QED
    BY <1>1, <1>3, <2>1 DEF Choose
<1>4. ASSUME NEW n \in {1, Stages}, ToEnd(n)
      PROVE  Typed'
  <2>1. n \in Nat \ {0} /\ 0 \in 0 .. Stages
    BY <1>0
  <2> QED
    BY <1>0, <1>4, <2>1, ChangeSlideType DEF ToEnd, TypeOK, Timeouts, showing
<1>5. ASSUME NEW n \in DataNames \cup Ids \cup {1}, Follow(n)
      PROVE  Typed'
  <2>1. n \in Slides
    BY SlideAssumption, <1>0
  <2>2. TypeOK /\ ShowSlide(n, timeouts)
    BY <1>5 DEF Follow
  <2>3. /\ selected' \in Slides /\ active' \subseteq Slides /\ early' \subseteq Slides
        /\ hash' \in 0 .. Stages /\ blockScroll' \in BOOLEAN /\ zoomed' \in BOOLEAN
        /\ timeouts' \subseteq Timeouts
    BY <1>0, <2>1, <2>2, ShowSlideType
  <2>4. stage' = n /\ UNCHANGED <<ready, loaded, animate, dot, inAction, collectScrolls, jumps>>
    BY <1>5 DEF Follow
  <2> QED
    BY <1>0, <2>1, <2>2, <2>3, <2>4 DEF TypeOK, Timeouts
<1>6. ASSUME NEW h \in 0 .. Stages, Navigate(h)
      PROVE  Typed'
  <2>1. Timeout("hash", Soon, 0, 0) \in Timeouts
    BY SMT, SlideAssumption DEF Timeout, Timeouts, Kinds
  <2> QED
    BY <1>0, <1>6, <2>1 DEF Navigate, TypeOK, Timeouts, showing
<1>7. ASSUME NEW down \in BOOLEAN, NEW size \in ScrollSizes, Wheel(down, size)
      PROVE  Typed'
  <2>1. Timeout("wheel", WheelPause, 0, 0) \in Timeouts
    BY SMT, SlideAssumption DEF Timeout, Timeouts, Kinds
  <2> DEFINE others == timeouts \cup {Timeout("wheel", WheelPause, 0, 0)}
  <2>2. others \in SUBSET Timeouts
    BY <1>0, <2>1
  <2>3. collectScrolls' \in Int /\ UNCHANGED <<showing, hash>>
    BY SMT, SlideAssumption, <1>7 DEF Wheel, TypeOK
  <2>4. \/ ChangeSlide(Following(down), others)
        \/ timeouts' = others /\ UNCHANGED <<inAction, stage, zoomed>>
    BY <1>7 DEF Wheel
  <2>5. stage' \in Slides /\ inAction' \in BOOLEAN /\ zoomed' \in BOOLEAN
        /\ timeouts' \subseteq Timeouts
    <3>1. Following(down) \in Nat \ {0}
      BY <1>0, FollowingType
    <3> QED
      BY <2>2, <2>4, <3>1, ChangeSlideType DEF TypeOK
  <2> QED
    BY <2>3, <2>5 DEF TypeOK, Timeouts, showing
<1>8. CASE Zoom
  BY <1>8 DEF Zoom, TypeOK, showing
<1> QED
  BY <1>2, <1>3, <1>4, <1>5, <1>6, <1>7, <1>8 DEF UserActs

\* So do the callbacks of the timeouts.
LEMMA TypedFire ==
    ASSUME Typed, NEW t \in timeouts, ready,
           \/ UpdateNavigation(t) \/ UpdateHash(t) \/ EndEffect(t) \/ Animate(t)
           \/ Change(t) \/ EndChange(t) \/ ForgetScrolls(t) \/ ShowFirst(t)
    PROVE  Typed'
<1> USE DEF Typed, ReadySelected
<1>0. timeouts \in SUBSET Timeouts /\ Stages \in Nat \ {0} /\ Slides = 1 .. Stages
      /\ Rest(t) \in SUBSET Timeouts /\ stage \in Slides
  BY SlideAssumption DEF Slides, TypeOK, Rest
<1>1. CASE UpdateNavigation(t)
  <2>1. dot' \in 0 .. Stages
    <3>1. selected \in Slides
      OBVIOUS
    <3>3. DotOf \in [Slides -> 0 .. Stages]
      BY SlideAssumption
    <3>2. selected # 0
      BY SMT, <1>0, <3>1
    <3>4. dot' = DotOf[selected]
      BY <1>1, <3>2 DEF UpdateNavigation
    <3> QED
      BY <3>1, <3>3, <3>4
  <2> QED
    BY <1>0, <1>1, <2>1 DEF UpdateNavigation, TypeOK, Timeouts
<1>2. CASE UpdateHash(t)
  <2>1. CASE hash \in DataNames
    <3>1. hash \in Slides
      BY <2>1, SlideAssumption
    <3>2. ShowSlide(hash, Rest(t)) /\ stage' = hash
      BY <1>2, <2>1 DEF UpdateHash
    <3> HIDE DEF Typed
    <3>3. TypeOK
      BY DEF Typed
    <3>4. /\ selected' \in Slides /\ active' \subseteq Slides /\ early' \subseteq Slides
          /\ hash' \in 0 .. Stages /\ blockScroll' \in BOOLEAN /\ zoomed' \in BOOLEAN
          /\ timeouts' \subseteq Timeouts
      BY <1>0, <3>1, <3>2, <3>3, ShowSlideType
    <3> QED
      BY <1>0, <1>2, <3>1, <3>2, <3>3, <3>4 DEF UpdateHash, Typed, TypeOK, Timeouts
  <2>2. CASE hash \notin DataNames
    BY <1>0, <1>2, <2>2 DEF UpdateHash, TypeOK, Timeouts
  <2> QED
    BY <2>1, <2>2
<1>3. CASE EndEffect(t)
  BY <1>0, <1>3 DEF EndEffect, TypeOK, Timeouts
<1>4. CASE Animate(t)
  <2>1. t.new \in Slides
    BY <1>0, <1>4 DEF Animate, Timeouts
  <2> QED
    BY <1>0, <1>4, <2>1 DEF Animate, TypeOK, Timeouts
<1>5. CASE Change(t)
  <2>1. Timeout("end", SlideSpeed, 0, 0) \in Timeouts
    BY SMT, SlideAssumption DEF Timeout, Timeouts, Kinds
  <2>2. Rest(t) \cup {Timeout("end", SlideSpeed, 0, 0)} \in SUBSET Timeouts
    BY <1>0, <2>1
  <2>3. ShowSlide(stage, Rest(t) \cup {Timeout("end", SlideSpeed, 0, 0)})
    BY <1>5 DEF Change
  <2> HIDE DEF Typed
  <2>4. TypeOK
    BY DEF Typed
  <2>5. /\ selected' \in Slides /\ active' \subseteq Slides /\ early' \subseteq Slides
        /\ hash' \in 0 .. Stages /\ blockScroll' \in BOOLEAN /\ zoomed' \in BOOLEAN
        /\ timeouts' \subseteq Timeouts
    BY <1>0, <2>2, <2>3, <2>4, ShowSlideType
  <2>6. UNCHANGED <<ready, loaded, stage, animate, dot, inAction, collectScrolls, jumps>>
    BY <1>5 DEF Change
  <2> QED
    BY <1>0, <2>4, <2>5, <2>6 DEF Typed, TypeOK, Timeouts
<1>6. CASE EndChange(t)
  BY <1>0, <1>6 DEF EndChange, TypeOK, Timeouts, showing
<1>7. CASE ForgetScrolls(t)
  BY <1>0, <1>7 DEF ForgetScrolls, TypeOK, Timeouts, showing
<1>8. CASE ShowFirst(t)
  <2>1. ShowSlide(stage, Rest(t)) /\ Rest(t) \in SUBSET Timeouts
    BY <1>0, <1>8 DEF ShowFirst
  <2> HIDE DEF Typed
  <2>2. TypeOK
    BY DEF Typed
  <2>3. /\ selected' \in Slides /\ active' \subseteq Slides /\ early' \subseteq Slides
        /\ hash' \in 0 .. Stages /\ blockScroll' \in BOOLEAN /\ zoomed' \in BOOLEAN
        /\ timeouts' \subseteq Timeouts
    BY <1>0, <2>1, <2>2, ShowSlideType
  <2>4. UNCHANGED <<ready, loaded, stage, animate, dot, inAction, collectScrolls, jumps>>
    BY <1>8 DEF ShowFirst
  <2> QED
    BY <1>0, <2>2, <2>3, <2>4 DEF Typed, TypeOK, Timeouts
<1> QED
  BY <1>1, <1>2, <1>3, <1>4, <1>5, <1>6, <1>7, <1>8

\* Every step keeps the types, from the code at ready to the ticks of the clock.
LEMMA TypedStep ==
    ASSUME Typed, ready \/ timeouts = {}, [Next]_vars
    PROVE  Typed'
<1> USE DEF Typed, ReadySelected
<1>0. timeouts \in SUBSET Timeouts /\ Stages \in Nat \ {0} /\ Slides = 1 .. Stages
  BY SlideAssumption DEF Slides
<1>1. CASE Ready
  <2>1. PICK first \in Slides, waits \in BOOLEAN :
            /\ first = IF hash \in DataNames THEN hash ELSE 1
            /\ stage' = first
            /\ selected' = first
            /\ active' = {first}
            /\ hash' = HashOf(first)
            /\ loaded' = (loaded \/ ~waits)
            /\ inAction' = ~loaded'
            /\ blockScroll' = ~loaded'
            /\ timeouts' = (IF hash \in DataNames THEN ShowTimeouts(first, first)
                                                  ELSE {})
                           \cup ShowTimeouts(0, first) \cup PopState(hash')
                           \cup (IF loaded' THEN {Run} ELSE {})
    BY <1>1 DEF Ready
  <2>2. Run \in Timeouts
    BY SMT, SlideAssumption DEF Run, Timeout, Timeouts, Kinds
  <2>3. first \in 0 .. Stages /\ 0 \in 0 .. Stages
    BY SMT, <1>0
  <2>4. timeouts' \subseteq Timeouts /\ hash' \in 0 .. Stages
    BY <2>1, <2>2, <2>3, ShowTimeoutsType
  <2> QED
    BY <1>0, <1>1, <2>1, <2>3, <2>4 DEF Ready, TypeOK, Timeouts
<1>2. CASE Load
  <2>1. Run \in Timeouts
    BY SMT, SlideAssumption DEF Run, Timeout, Timeouts, Kinds
  <2> QED
    BY <1>0, <1>2, <2>1 DEF Load, TypeOK, Timeouts
<1>3. CASE UserActs
  BY <1>3, TypedUser
<1>4. CASE Fire
  BY <1>4, TypedFire DEF Fire, Due
<1>5. CASE Tick
  <2>1. ASSUME NEW t \in timeouts
        PROVE  [t EXCEPT !.left = @ - 1] \in Timeouts
    <3>1. t \in Timeouts /\ t.left > 0
      BY <1>0, <1>5, <2>1 DEF Tick
    <3>2. t.left - 1 \in Nat
      BY SMT, <3>1 DEF Timeouts
    <3> QED
      BY SMT, <3>1, <3>2 DEF Timeouts
  <2>2. timeouts' \subseteq Timeouts
    BY <1>5, <2>1 DEF Tick
  <2> QED
    BY <1>0, <1>5, <2>2 DEF Tick, TypeOK, Timeouts, showing
<1>6. CASE UNCHANGED vars
  BY <1>6 DEF vars, TypeOK
<1> QED
  BY <1>1, <1>2, <1>3, <1>4, <1>5, <1>6 DEF Next

\* Nothing is set before the code at ready.
Started == ready \/ timeouts = {}

LEMMA StartedStep ==
    ASSUME Started, [Next]_vars
    PROVE  Started'
<1>1. CASE Ready \/ Load \/ UNCHANGED vars
  BY <1>1 DEF Started, Ready, Load, vars
<1>2. CASE UserActs
  BY <1>2 DEF Started, UserActs, MayAct, Step, Choose, ToEnd, Follow, Navigate, Wheel,
     Zoom, showing
<1>3. CASE Fire
  BY <1>3 DEF Started, Fire, UpdateNavigation, UpdateHash, EndEffect, Animate, Change,
     EndChange, ForgetScrolls, ShowFirst, showing
<1>4. CASE Tick
  BY <1>4 DEF Started, Tick, showing
<1> QED
  BY <1>1, <1>2, <1>3, <1>4 DEF Next

LEMMA TypedAlways == Spec => [](Typed /\ Started)
<1>1. Init => Typed /\ Started
  BY TypedInit DEF Init, Started
<1>2. Typed /\ Started /\ [Next]_vars => (Typed /\ Started)'
  BY TypedStep, StartedStep DEF Started
<1> QED
  BY <1>1, <1>2, PTL DEF Spec

\* The state of the slide manager keeps its type, for every page and every
\* order of input, timeouts and load.
THEOREM TypeCorrect == Spec => []TypeOK
BY TypedAlways, PTL DEF Typed

-----------------------------------------------------------------------------
(* What a step leaves of the timeouts *)

\* The input that asks for a change, or only adds to the scrolls.
Asked ==
    /\ UNCHANGED showing
    /\ hash' \in {hash, 0}
    /\ \E others \in {timeouts, timeouts \cup {Timeout("wheel", WheelPause, 0, 0)}} :
          /\ \/ collectScrolls' = collectScrolls
             \/ Timeout("wheel", WheelPause, 0, 0) \in others
          /\ \/ timeouts' = others /\ UNCHANGED <<inAction, stage>>
             \/ /\ ~inAction /\ inAction' = TRUE
                /\ \E delay \in {0, ZoomPause} :
                      timeouts' = others \cup {Timeout("change", delay, 0, 0)}

LEMMA UserShapes ==
    ASSUME UserActs
    PROVE  /\ ready
           /\ Asked \/ (\E n \in Slides : Follow(n)) \/ (\E h \in 0 .. Stages : Navigate(h))
<1>1. ready
  BY DEF UserActs, MayAct, Step, Choose, ToEnd, Follow, Navigate, Wheel, Zoom
<1>2. ASSUME NEW n, NEW others \in {timeouts, timeouts \cup {Timeout("wheel", WheelPause, 0, 0)}},
             ChangeSlide(n, others), UNCHANGED showing, hash' \in {hash, 0},
             collectScrolls' = collectScrolls \/ Timeout("wheel", WheelPause, 0, 0) \in others
      PROVE  Asked
  BY <1>2 DEF ChangeSlide, Accepts, Asked
<1>3. CASE \E down \in BOOLEAN : Step(down)
  <2>1. PICK down \in BOOLEAN : Step(down)
    BY <1>3
  <2>2. ChangeSlide(Following(down), timeouts)
    BY <2>1 DEF Step
  <2>3. UNCHANGED showing /\ hash' = hash /\ collectScrolls' = collectScrolls
    BY <2>1 DEF Step
  <2> QED
    BY <1>1, <1>2, <2>2, <2>3
<1>4. CASE \E n \in ToSlides \cup {s \in Slides : DotOf[s] = s} : Choose(n)
  <2>1. PICK n \in ToSlides \cup {s \in Slides : DotOf[s] = s} : Choose(n)
    BY <1>4
  <2>2. ChangeSlide(n, timeouts)
    BY <2>1 DEF Choose
  <2>3. UNCHANGED showing /\ hash' = hash /\ collectScrolls' = collectScrolls
    BY <2>1 DEF Choose
  <2> QED
    BY <1>1, <1>2, <2>2, <2>3
<1>5. CASE \E n \in {1, Stages} : ToEnd(n)
  <2>1. PICK n \in {1, Stages} : ToEnd(n)
    BY <1>5
  <2>2. ChangeSlide(n, timeouts) /\ hash' = 0
    BY <2>1 DEF ToEnd
  <2>3. UNCHANGED showing /\ collectScrolls' = collectScrolls
    BY <2>1 DEF ToEnd
  <2> QED
    BY <1>1, <1>2, <2>2, <2>3
<1>6. CASE \E n \in DataNames \cup Ids \cup {1} : Follow(n)
  <2>1. DataNames \cup Ids \cup {1} \subseteq Slides
    BY SMT, SlideAssumption DEF Slides
  <2> QED
    BY <1>1, <1>6, <2>1
<1>7. CASE \E down \in BOOLEAN, size \in ScrollSizes : Wheel(down, size)
  <2>1. PICK down \in BOOLEAN, size \in ScrollSizes : Wheel(down, size)
    BY <1>7
  <2> DEFINE others == timeouts \cup {Timeout("wheel", WheelPause, 0, 0)}
  <2>2. UNCHANGED showing /\ hash' = hash
    BY <2>1 DEF Wheel
  <2>3. \/ ChangeSlide(Following(down), others)
        \/ timeouts' = others /\ UNCHANGED <<inAction, stage>>
    BY <2>1 DEF Wheel
  <2>4. CASE ChangeSlide(Following(down), others)
    BY <1>1, <1>2, <2>2, <2>4
  <2>5. CASE timeouts' = others /\ UNCHANGED <<inAction, stage>>
    BY <1>1, <2>2, <2>5 DEF Asked
  <2> QED
    BY <2>3, <2>4, <2>5
<1>8. CASE Zoom
  <2>1. UNCHANGED showing /\ hash' = hash /\ collectScrolls' = collectScrolls
        /\ timeouts' = timeouts /\ UNCHANGED <<inAction, stage>>
    BY <1>8 DEF Zoom
  <2> QED
    BY <1>1, <2>1 DEF Asked
<1> QED
  BY <1>1, <1>3, <1>4, <1>5, <1>6, <1>7, <1>8 DEF UserActs

\* A tick keeps every timeout: nearer by one.
LEMMA TickKeeps ==
    ASSUME Typed, Tick
    PROVE  /\ \A t \in timeouts : \E u \in timeouts' :
                 u.kind = t.kind /\ u.old = t.old /\ u.new = t.new
           /\ \A u \in timeouts' : \E t \in timeouts :
                 u = [t EXCEPT !.left = @ - 1] /\ u.kind = t.kind
           /\ UNCHANGED <<showing, stage, hash, inAction, collectScrolls>>
<1>1. ASSUME NEW t \in timeouts
      PROVE  LET u == [t EXCEPT !.left = @ - 1]
             IN  u.kind = t.kind /\ u.old = t.old /\ u.new = t.new
  BY <1>1, SMT DEF Typed, Timeouts
<1>2. timeouts' = {[t EXCEPT !.left = @ - 1] : t \in timeouts}
  BY DEF Tick
<1> QED
  BY <1>1, <1>2 DEF Tick

-----------------------------------------------------------------------------
(* What the page says of itself agrees *)

LEMMA ShowSlideAgrees ==
    ASSUME Typed, NEW n \in Slides, NEW others, ShowSlide(n, others), stage' = n
    PROVE  PartsAgree'
<1>1. Timeout("dot", Soon, 0, 0) \in timeouts' /\ selected' = n
  BY DEF ShowSlide, ShowTimeouts
<1>2. Timeout("dot", Soon, 0, 0).kind = "dot"
  BY SMT DEF Timeout
<1>3. 0 \notin DataNames
  BY SMT, SlideAssumption DEF Slides
<1>4. hash' \in DataNames => hash' = n
  BY <1>3 DEF ShowSlide, HashOf
<1> QED
  BY <1>1, <1>2, <1>4 DEF PartsAgree, Pending

LEMMA AgreesStep ==
    ASSUME Typed, Started, PartsAgree, [Next]_vars
    PROVE  PartsAgree'
<1>0. 0 \notin DataNames /\ (ready => stage \in Slides)
  BY SMT, SlideAssumption DEF Slides, Typed, TypeOK
<1>1. CASE Ready
  <2>1. PICK first \in Slides :
            /\ stage' = first /\ selected' = first /\ hash' = HashOf(first)
            /\ ShowTimeouts(0, first) \subseteq timeouts'
    BY <1>1 DEF Ready
  <2>2. Timeout("dot", Soon, 0, 0) \in timeouts'
    BY <2>1 DEF ShowTimeouts
  <2>3. Timeout("dot", Soon, 0, 0).kind = "dot"
    BY SMT DEF Timeout
  <2> QED
    BY <1>0, <2>1, <2>2, <2>3 DEF PartsAgree, Pending, HashOf
<1>2. CASE Load
  BY <1>2 DEF Load, PartsAgree, Pending
<1>3. CASE UserActs
  <2>1. CASE Asked
    <3>1. timeouts \subseteq timeouts' /\ hash' \in {hash, 0}
      BY <2>1 DEF Asked
    <3>2. UNCHANGED <<ready, selected, dot>>
      BY <2>1 DEF Asked, showing
    <3>3. stage' = stage \/ \E delay : Timeout("change", delay, 0, 0) \in timeouts'
      BY <2>1 DEF Asked
    <3>4. \A delay : Timeout("change", delay, 0, 0).kind = "change"
      BY SMT DEF Timeout
    <3> QED
      BY <1>0, <3>1, <3>2, <3>3, <3>4 DEF PartsAgree, Pending
  <2>2. ASSUME NEW n \in Slides, Follow(n)
        PROVE  PartsAgree'
    BY <2>2, ShowSlideAgrees DEF Follow
  <2>3. ASSUME NEW h \in 0 .. Stages, Navigate(h)
        PROVE  PartsAgree'
    <3>1. /\ timeouts \subseteq timeouts' /\ Timeout("hash", Soon, 0, 0) \in timeouts'
          /\ UNCHANGED <<showing, stage>>
      BY <2>3 DEF Navigate
    <3>2. UNCHANGED <<ready, selected, dot, stage>>
      BY <3>1 DEF showing
    <3>3. Timeout("hash", Soon, 0, 0).kind = "hash"
      BY SMT DEF Timeout
    <3> QED
      BY <3>1, <3>2, <3>3 DEF PartsAgree, Pending
  <2> QED
    BY <1>3, <2>1, <2>2, <2>3, UserShapes
<1>4. CASE Fire
  <2>1. PICK t \in timeouts :
           \/ UpdateNavigation(t) \/ UpdateHash(t) \/ EndEffect(t) \/ Animate(t)
           \/ Change(t) \/ EndChange(t) \/ ForgetScrolls(t) \/ ShowFirst(t)
    BY <1>4 DEF Fire
  <2>2. ready
    BY <2>1 DEF Started
  <2>3. CASE UpdateNavigation(t)
    <3>1. selected # 0
      BY SMT, <2>2, SlideAssumption DEF Typed, ReadySelected, Slides
    <3> QED
      BY <2>2, <2>3, <3>1 DEF UpdateNavigation, PartsAgree, Pending, Rest
  <2>4. CASE UpdateHash(t)
    <3>1. CASE hash \in DataNames
      <4>1. hash \in Slides /\ ShowSlide(hash, Rest(t)) /\ stage' = hash
        BY <2>4, <3>1, SlideAssumption DEF UpdateHash
      <4> QED
        BY <4>1, ShowSlideAgrees
    <3>2. CASE hash \notin DataNames
      BY <2>2, <2>4, <3>2 DEF UpdateHash, PartsAgree, Pending, Rest
    <3> QED
      BY <3>1, <3>2
  <2>5. CASE EndEffect(t) \/ Animate(t)
    BY <2>2, <2>5 DEF EndEffect, Animate, PartsAgree, Pending, Rest
  <2>6. CASE Change(t) \/ ShowFirst(t)
    <3>1. /\ stage' = stage
          /\ \/ ShowSlide(stage, Rest(t) \cup {Timeout("end", SlideSpeed, 0, 0)})
             \/ ShowSlide(stage, Rest(t))
      BY <2>6 DEF Change, ShowFirst
    <3> QED
      BY <1>0, <2>2, <3>1, ShowSlideAgrees
  <2>7. CASE EndChange(t) \/ ForgetScrolls(t)
    BY <2>2, <2>7 DEF EndChange, ForgetScrolls, showing, PartsAgree, Pending, Rest
  <2> QED
    BY <2>1, <2>3, <2>4, <2>5, <2>6, <2>7
<1>5. CASE Tick
  <2>1. UNCHANGED <<ready, selected, dot, stage, hash>>
    BY <1>5 DEF Tick, showing
  <2> QED
    BY <1>5, <2>1, TickKeeps DEF PartsAgree, Pending
<1>6. CASE UNCHANGED vars
  BY <1>6 DEF vars, PartsAgree, Pending
<1> QED
  BY <1>1, <1>2, <1>3, <1>4, <1>5, <1>6 DEF Next

\* The stage, the slide shown, the dot and the address never disagree without
\* a timeout that will bring them together, whatever the user asks in between.
THEOREM PagePartsAgree == Spec => []PartsAgree
<1>1. Init => PartsAgree
  BY DEF Init, PartsAgree
<1>2. Typed /\ Started /\ PartsAgree /\ [Next]_vars => PartsAgree'
  BY AgreesStep
<1> QED
  BY <1>1, <1>2, TypedAlways, PTL DEF Spec

-----------------------------------------------------------------------------
(* Nothing that holds the input back stays *)

\* The timeouts of a change.
ChangeSteps(T) == {t \in T : t.kind \in {"change", "end"}}

\* Until the page runs, inAction stands and no change is on its way.
HeldUntilRun == (ready /\ loaded) \/ (inAction /\ ChangeSteps(timeouts) = {})

Locks == LocksAreReleased /\ HeldUntilRun

LEMMA NewKinds ==
    /\ \A d, o, n : Timeout("dot", d, o, n).kind = "dot"
    /\ \A d, o, n : Timeout("hash", d, o, n).kind = "hash"
    /\ \A d, o, n : Timeout("effect", d, o, n).kind = "effect"
    /\ \A d, o, n : Timeout("animate", d, o, n).kind = "animate"
    /\ \A d, o, n : Timeout("change", d, o, n).kind = "change"
    /\ \A d, o, n : Timeout("end", d, o, n).kind = "end"
    /\ \A d, o, n : Timeout("wheel", d, o, n).kind = "wheel"
    /\ \A d, o, n : Timeout("run", d, o, n).kind = "run"
    /\ \A d, o, n : Timeout("effect", d, o, n).old = o /\ Timeout("effect", d, o, n).new = n
BY SMT DEF Timeout

\* showSlide neither starts a change nor ends one, and if it blocks the scroll
\* sets the timeout that frees it.
LEMMA ShowSlideLocks ==
    ASSUME NEW n, NEW others, ShowSlide(n, others)
    PROVE  /\ ChangeSteps(timeouts') = ChangeSteps(others)
           /\ others \subseteq timeouts'
           /\ loaded => Pending("effect")'
           /\ blockScroll' => blockScroll \/ loaded
<1>1. timeouts' = others \cup ShowTimeouts(selected, n) \cup PopState(HashOf(n))
  BY DEF ShowSlide
<1>2. \A t \in ShowTimeouts(selected, n) \cup PopState(HashOf(n)) :
         t.kind \notin {"change", "end"}
  BY NewKinds DEF ShowTimeouts, PopState
<1>3. loaded => Timeout("effect", EffectSpeed, selected, n) \in timeouts'
  BY <1>1 DEF ShowTimeouts
<1>4. blockScroll' => blockScroll \/ loaded
  BY DEF ShowSlide
<1> QED
  BY <1>1, <1>2, <1>3, <1>4, NewKinds DEF ChangeSteps, Pending

LEMMA LocksStep ==
    ASSUME Typed, Started, Locks, [Next]_vars
    PROVE  Locks'
<1> DEFINE Steps == ChangeSteps(timeouts)
<1>0. /\ \A t, u \in Steps : t = u
      /\ ready /\ loaded => (inAction <=> Steps # {})
      /\ ready /\ loaded /\ blockScroll => Pending("effect")
      /\ collectScrolls # 0 => Pending("wheel")
      /\ (ready /\ loaded) \/ (inAction /\ Steps = {})
  BY Zenon DEF Locks, LocksAreReleased, OneChangeAtATime, ScrollsForgotten,
     HeldUntilRun, ChangeSteps
\* It is enough to show these five of the next state.
<1>i. ASSUME \A t, u \in Steps' : t = u,
             (ready /\ loaded => (inAction <=> Steps # {}))',
             (ready /\ loaded /\ blockScroll => Pending("effect"))',
             (collectScrolls # 0 => Pending("wheel"))',
             ((ready /\ loaded) \/ (inAction /\ Steps = {}))'
      PROVE  Locks'
  BY Zenon, <1>i DEF Locks, LocksAreReleased, OneChangeAtATime, ScrollsForgotten,
     HeldUntilRun, ChangeSteps
<1> HIDE DEF Steps
\* showSlide in a state whose changes are those that are left.
<1>s. ASSUME NEW n, NEW others, ShowSlide(n, others), ready,
             UNCHANGED <<ready, loaded, inAction, collectScrolls>>,
             \A t, u \in ChangeSteps(others) : t = u,
             ChangeSteps(others) = {} <=> Steps = {},
             \A t \in timeouts : t.kind = "wheel" => t \in others
      PROVE  Locks'
  <2>1. Steps' = ChangeSteps(others)
    BY <1>s, ShowSlideLocks DEF Steps
  <2>2. Pending("wheel") => Pending("wheel")'
    BY <1>s, ShowSlideLocks DEF Pending
  <2>3. ready /\ loaded /\ blockScroll' => Pending("effect")'
    BY <1>s, ShowSlideLocks
  <2> QED
    BY Zenon, <1>0, <1>i, <1>s, <2>1, <2>2, <2>3
<1>1. CASE Ready
  <2>1. PICK first \in Slides :
            /\ inAction' = ~loaded' /\ blockScroll' = ~loaded'
            /\ timeouts' \subseteq ShowTimeouts(first, first) \cup ShowTimeouts(0, first)
                                   \cup PopState(hash') \cup {Run}
    BY <1>1 DEF Ready
  <2>2. Steps' = {}
    BY <2>1, NewKinds DEF Steps, ChangeSteps, ShowTimeouts, PopState, Run
  <2>3. ready' /\ collectScrolls' = collectScrolls /\ ~ready
    BY <1>1 DEF Ready
  <2>4. ~Pending("wheel")
    BY <2>3 DEF Started, Pending
  <2> QED
    BY Zenon, <1>0, <1>i, <2>1, <2>2, <2>3, <2>4
<1>2. CASE Load
  <2>1. ~loaded /\ loaded' /\ ready' = ready /\ collectScrolls' = collectScrolls
        /\ timeouts \subseteq timeouts' /\ timeouts' \subseteq timeouts \cup {Run}
    BY <1>2 DEF Load
  <2>2. IF ready THEN ~inAction' /\ ~blockScroll' ELSE inAction' = inAction
    BY <1>2 DEF Load
  <2>3. Steps' = Steps
    BY <2>1, NewKinds DEF Steps, ChangeSteps, Run
  <2>4. Pending("wheel") => Pending("wheel")'
    BY <2>1 DEF Pending
  <2> QED
    BY Zenon, <1>0, <1>i, <2>1, <2>2, <2>3, <2>4
<1>3. CASE UserActs
  <2>0. ready
    BY <1>3, UserShapes
  <2>1. CASE Asked
    <3>1. UNCHANGED <<ready, loaded, blockScroll>>
      BY <2>1 DEF Asked, showing
    <3>2. PICK others \in {timeouts, timeouts \cup {Timeout("wheel", WheelPause, 0, 0)}} :
            /\ \/ collectScrolls' = collectScrolls
               \/ Timeout("wheel", WheelPause, 0, 0) \in others
            /\ \/ timeouts' = others /\ UNCHANGED <<inAction, stage>>
               \/ /\ ~inAction /\ inAction' = TRUE
                  /\ \E delay \in {0, ZoomPause} :
                        timeouts' = others \cup {Timeout("change", delay, 0, 0)}
      BY <2>1 DEF Asked
    <3>3. timeouts \subseteq timeouts' /\ others \subseteq timeouts'
      BY <3>2
    <3>4. (Pending("wheel") \/ collectScrolls' # collectScrolls) => Pending("wheel")'
      BY <3>2, <3>3, NewKinds DEF Pending
    <3>5. Pending("effect") => Pending("effect")'
      BY <3>3 DEF Pending
    <3>6. CASE timeouts' = others /\ UNCHANGED <<inAction, stage>>
      <4>1. Steps' = Steps
        BY <3>2, <3>6, NewKinds DEF Steps, ChangeSteps
      <4> QED
        BY Zenon, <1>0, <1>i, <3>1, <3>4, <3>5, <3>6, <4>1
    <3>7. ASSUME ~inAction, inAction' = TRUE, NEW delay \in {0, ZoomPause},
                 timeouts' = others \cup {Timeout("change", delay, 0, 0)}
          PROVE  Locks'
      <4>1. Steps = {} /\ loaded
        BY Zenon, <1>0, <2>0, <3>7
      <4>2. Steps' = {Timeout("change", delay, 0, 0)}
        BY <3>2, <3>7, <4>1, NewKinds DEF Steps, ChangeSteps
      <4>3. (\A t, u \in Steps' : t = u) /\ Steps' # {}
        BY <4>2
      <4> QED
        BY Zenon, <1>0, <1>i, <2>0, <3>1, <3>4, <3>5, <3>7, <4>1, <4>3
    <3> QED
      BY <3>2, <3>6, <3>7
  <2>2. ASSUME NEW n \in Slides, Follow(n)
        PROVE  Locks'
    BY <1>0, <1>s, <2>0, <2>2 DEF Follow, Steps
  <2>3. ASSUME NEW h \in 0 .. Stages, Navigate(h)
        PROVE  Locks'
    <3>1. /\ timeouts' = timeouts \cup {Timeout("hash", Soon, 0, 0)}
          /\ UNCHANGED <<inAction, collectScrolls>> /\ UNCHANGED showing
      BY <2>3 DEF Navigate
    <3>2. UNCHANGED <<ready, loaded, blockScroll>>
      BY <3>1 DEF showing
    <3>3. Steps' = Steps
      BY <3>1, NewKinds DEF Steps, ChangeSteps
    <3>4. \A k : Pending(k) => Pending(k)'
      BY <3>1 DEF Pending
    <3> QED
      BY Zenon, <1>0, <1>i, <3>1, <3>2, <3>3, <3>4
  <2> QED
    BY <1>3, <2>1, <2>2, <2>3, UserShapes
<1>4. CASE Fire
  <2>1. PICK t \in timeouts :
           \/ UpdateNavigation(t) \/ UpdateHash(t) \/ EndEffect(t) \/ Animate(t)
           \/ Change(t) \/ EndChange(t) \/ ForgetScrolls(t) \/ ShowFirst(t)
    BY <1>4 DEF Fire
  <2>2. ready
    BY <2>1 DEF Started
  <2>r. t.kind \notin {"change", "end"} => ChangeSteps(Rest(t)) = Steps
    BY DEF Steps, ChangeSteps, Rest
  <2>c. t.kind \in {"change", "end"} => ChangeSteps(Rest(t)) = {} /\ t \in Steps
    BY <1>0, <2>1 DEF Steps, ChangeSteps, Rest
  <2>k. ASSUME NEW k, t.kind # k, Pending(k), timeouts' = Rest(t)
        PROVE  Pending(k)'
    BY <2>k DEF Pending, Rest
  <2>3. CASE UpdateNavigation(t) \/ Animate(t)
    <3>1. /\ timeouts' = Rest(t) /\ t.kind \in {"dot", "animate"}
          /\ UNCHANGED <<ready, loaded, inAction, blockScroll, collectScrolls>>
      BY <2>3 DEF UpdateNavigation, Animate
    <3>2. Steps' = Steps
      BY <2>r, <3>1 DEF Steps
    <3>3. /\ Pending("wheel") => Pending("wheel")'
          /\ Pending("effect") => Pending("effect")'
      BY <2>k, <3>1
    <3> QED
      BY Zenon, <1>0, <1>i, <3>1, <3>2, <3>3
  <2>4. CASE UpdateHash(t)
    <3>0. t.kind = "hash" /\ UNCHANGED <<ready, loaded, inAction, collectScrolls>>
      BY <2>4 DEF UpdateHash
    <3>1. CASE hash \in DataNames
      <4>1. ShowSlide(hash, Rest(t))
        BY <2>4, <3>1 DEF UpdateHash
      <4>2. \A u \in timeouts : u.kind = "wheel" => u \in Rest(t)
        BY <3>0 DEF Rest
      <4> QED
        BY <1>0, <1>s, <2>2, <2>r, <3>0, <4>1, <4>2
    <3>2. CASE hash \notin DataNames
      <4>1. timeouts' = Rest(t) /\ blockScroll' = blockScroll
        BY <2>4, <3>2 DEF UpdateHash
      <4>2. Steps' = Steps
        BY <2>r, <3>0, <4>1 DEF Steps
      <4>3. /\ Pending("wheel") => Pending("wheel")'
            /\ Pending("effect") => Pending("effect")'
        BY <2>k, <3>0, <4>1
      <4> QED
        BY Zenon, <1>0, <1>i, <3>0, <4>1, <4>2, <4>3
    <3> QED
      BY <3>1, <3>2
  <2>5. CASE EndEffect(t)
    <3>1. /\ timeouts' = Rest(t) /\ t.kind = "effect" /\ blockScroll' = FALSE
          /\ UNCHANGED <<ready, loaded, inAction, collectScrolls>>
      BY <2>5 DEF EndEffect
    <3>2. Steps' = Steps
      BY <2>r, <3>1 DEF Steps
    <3>3. Pending("wheel") => Pending("wheel")'
      BY <2>k, <3>1
    <3> QED
      BY Zenon, <1>0, <1>i, <3>1, <3>2, <3>3
  <2>6. CASE Change(t)
    <3> DEFINE end == Timeout("end", SlideSpeed, 0, 0)
    <3>1. /\ t.kind = "change" /\ ShowSlide(stage, Rest(t) \cup {end})
          /\ UNCHANGED <<ready, loaded, inAction, collectScrolls>>
      BY <2>6 DEF Change
    <3>2. ChangeSteps(Rest(t) \cup {end}) = ChangeSteps(Rest(t)) \cup {end}
      BY NewKinds DEF ChangeSteps
    <3>3. ChangeSteps(Rest(t) \cup {end}) = {end} /\ Steps # {}
      BY <2>c, <3>1, <3>2
    <3>4. \A u \in timeouts : u.kind = "wheel" => u \in Rest(t) \cup {end}
      BY <3>1 DEF Rest
    <3> QED
      BY <1>s, <2>2, <3>1, <3>3, <3>4
  <2>7. CASE EndChange(t)
    <3>1. /\ timeouts' = Rest(t) /\ t.kind = "end" /\ inAction' = FALSE
          /\ collectScrolls' = collectScrolls /\ UNCHANGED showing
      BY <2>7 DEF EndChange
    <3>2. UNCHANGED <<ready, loaded, blockScroll>>
      BY <3>1 DEF showing
    <3>3. Steps' = {} /\ Steps # {}
      BY <2>c, <3>1 DEF Steps
    <3>4. /\ Pending("wheel") => Pending("wheel")'
          /\ Pending("effect") => Pending("effect")'
      BY <2>k, <3>1
    <3> QED
      BY Zenon, <1>0, <1>i, <3>1, <3>2, <3>3, <3>4
  <2>8. CASE ForgetScrolls(t)
    <3>1. /\ timeouts' = Rest(t) /\ t.kind = "wheel" /\ collectScrolls' = 0
          /\ inAction' = inAction /\ UNCHANGED showing
      BY <2>8 DEF ForgetScrolls
    <3>2. UNCHANGED <<ready, loaded, blockScroll>>
      BY <3>1 DEF showing
    <3>3. Steps' = Steps
      BY <2>r, <3>1 DEF Steps
    <3>4. Pending("effect") => Pending("effect")'
      BY <2>k, <3>1
    <3> QED
      BY Zenon, <1>0, <1>i, <3>1, <3>2, <3>3, <3>4
  <2>9. CASE ShowFirst(t)
    <3>1. /\ t.kind = "run" /\ ShowSlide(stage, Rest(t))
          /\ UNCHANGED <<ready, loaded, inAction, collectScrolls>>
      BY <2>9 DEF ShowFirst
    <3>2. \A u \in timeouts : u.kind = "wheel" => u \in Rest(t)
      BY <3>1 DEF Rest
    <3> QED
      BY <1>0, <1>s, <2>2, <2>r, <3>1, <3>2
  <2> QED
    BY <2>1, <2>3, <2>4, <2>5, <2>6, <2>7, <2>8, <2>9
<1>5. CASE Tick
  <2>1. UNCHANGED showing /\ UNCHANGED <<inAction, collectScrolls>>
    BY <1>5 DEF Tick
  <2>2. UNCHANGED <<ready, loaded, blockScroll>>
    BY <2>1 DEF showing
  <2>3. \A k : Pending(k) => Pending(k)'
    BY <1>5, TickKeeps DEF Pending
  <2>4. \A u \in Steps' : \E t \in Steps : u = [t EXCEPT !.left = @ - 1]
    BY <1>5, TickKeeps DEF Steps, ChangeSteps
  <2>5. Steps # {} => Steps' # {}
    BY <1>5, TickKeeps DEF Steps, ChangeSteps
  <2>6. Steps' # {} => Steps # {}
    BY <2>4
  <2>7. \A t, u \in Steps' : t = u
    BY <1>0, <2>4
  <2> QED
    BY Zenon, <1>0, <1>i, <2>1, <2>2, <2>3, <2>5, <2>6, <2>7
<1>6. CASE UNCHANGED vars
  BY Zenon, <1>0, <1>i, <1>6 DEF vars, Pending, Steps, ChangeSteps
<1> QED
  BY <1>1, <1>2, <1>3, <1>4, <1>5, <1>6 DEF Next

\* One change goes at a time and its own timeout will end it, the block of the
\* scroll has a timeout that frees it, and collected scrolls one that forgets
\* them: inAction, blockScroll and collectScrolls never stay as they are.
THEOREM NoLockStays == Spec => []LocksAreReleased
<1>1. Init => Locks
  BY Zenon DEF Init, Locks, LocksAreReleased, OneChangeAtATime, ScrollsForgotten,
     HeldUntilRun, ChangeSteps, Pending
<1>2. Typed /\ Started /\ Locks /\ [Next]_vars => Locks'
  BY LocksStep
<1> QED
  BY <1>1, <1>2, TypedAlways, PTL DEF Spec, Locks

-----------------------------------------------------------------------------
(* A slide that was left goes *)

\* showSlide leaves one slide, with the timeout that takes its classes.
LEMMA ShowSlideStays ==
    ASSUME OnlySelectedStays, selected # 0, NEW n, NEW others, ShowSlide(n, others),
           \A t \in timeouts : t.kind = "effect" => t \in others
    PROVE  OnlySelectedStays'
<1>1. timeouts' = others \cup ShowTimeouts(selected, n) \cup PopState(HashOf(n))
  BY DEF ShowSlide
<1>2. selected' = n
  BY DEF ShowSlide
<1>3. CASE n = selected
  <2>1. active' = active /\ early' = early
    BY <1>3 DEF ShowSlide
  <2> QED
    BY <1>1, <1>2, <1>3, <2>1 DEF OnlySelectedStays
<1>4. CASE n # selected
  <2>1. SUFFICES ASSUME NEW s \in active' \ ({n} \cup early')
                 PROVE  \E t \in timeouts' : t.kind = "effect" /\ t.old = s /\ t.old # t.new
    BY <1>2 DEF OnlySelectedStays
  <2>2. active' = active \cup ({selected, n} \ {0})
    BY <1>4 DEF ShowSlide
  <2>3. early' = IF loaded THEN early ELSE early \cup ({selected} \ {0})
    BY <1>4 DEF ShowSlide
  <2>4. CASE s = selected
    <3>1. loaded
      BY <2>1, <2>2, <2>3, <2>4, <1>4
    <3>2. Timeout("effect", EffectSpeed, selected, n) \in timeouts'
      BY <1>1, <3>1 DEF ShowTimeouts
    <3> QED
      BY <1>4, <2>4, <3>2, NewKinds
  <2>5. CASE s # selected
    <3>1. s \in active \ ({selected} \cup early)
      BY <2>1, <2>2, <2>3, <2>5
    <3> QED
      BY <1>1, <3>1 DEF OnlySelectedStays
  <2> QED
    BY <2>4, <2>5
<1> QED
  BY <1>3, <1>4

LEMMA StaysStep ==
    ASSUME Typed, Started, OnlySelectedStays, [Next]_vars
    PROVE  OnlySelectedStays'
<1>k. ASSUME UNCHANGED <<active, selected, early>>,
             \A t \in timeouts : t.kind = "effect" => t \in timeouts'
      PROVE  OnlySelectedStays'
  BY <1>k DEF OnlySelectedStays
<1>s. ready => selected # 0
  BY SMT, SlideAssumption DEF Typed, ReadySelected, Slides
<1>1. CASE Ready
  BY <1>1 DEF Ready, OnlySelectedStays
<1>2. CASE Load
  BY <1>k, <1>2 DEF Load
<1>3. CASE UserActs
  <2>1. CASE Asked
    <3>1. timeouts \subseteq timeouts'
      BY <2>1 DEF Asked
    <3> QED
      BY <1>k, <2>1, <3>1 DEF Asked, showing
  <2>2. ASSUME NEW n \in Slides, Follow(n)
        PROVE  OnlySelectedStays'
    BY <1>s, <2>2, ShowSlideStays DEF Follow, MayAct
  <2>3. ASSUME NEW h \in 0 .. Stages, Navigate(h)
        PROVE  OnlySelectedStays'
    BY <1>k, <2>3 DEF Navigate, showing
  <2> QED
    BY <1>3, <2>1, <2>2, <2>3, UserShapes
<1>4. CASE Fire
  <2>1. PICK t \in timeouts :
           \/ UpdateNavigation(t) \/ UpdateHash(t) \/ EndEffect(t) \/ Animate(t)
           \/ Change(t) \/ EndChange(t) \/ ForgetScrolls(t) \/ ShowFirst(t)
    BY <1>4 DEF Fire
  <2>s. selected # 0
    BY <1>s, <2>1 DEF Started
  <2>2. t.kind # "effect" => \A u \in timeouts : u.kind = "effect" => u \in Rest(t)
    BY DEF Rest
  <2>3. CASE UpdateNavigation(t) \/ Animate(t) \/ EndChange(t) \/ ForgetScrolls(t)
    BY <1>k, <2>2, <2>3 DEF UpdateNavigation, Animate, EndChange, ForgetScrolls, showing
  <2>4. CASE UpdateHash(t)
    <3>1. CASE hash \in DataNames
      BY <2>2, <2>s, <2>4, <3>1, ShowSlideStays DEF UpdateHash
    <3>2. CASE hash \notin DataNames
      BY <1>k, <2>2, <2>4, <3>2 DEF UpdateHash
    <3> QED
      BY <3>1, <3>2
  <2>5. CASE EndEffect(t)
    <3>1. /\ timeouts' = Rest(t) /\ UNCHANGED <<selected, early>>
          /\ active' = active \ (IF t.old = t.new THEN {} ELSE {t.old})
      BY <2>5 DEF EndEffect
    <3>2. ASSUME NEW s \in active' \ ({selected} \cup early)
          PROVE  \E u \in timeouts' : u.kind = "effect" /\ u.old = s /\ u.old # u.new
      <4>1. s \in active /\ (t.old # t.new => s # t.old)
        BY <3>1, <3>2
      <4>2. PICK u \in timeouts : u.kind = "effect" /\ u.old = s /\ u.old # u.new
        BY <3>2, <4>1 DEF OnlySelectedStays
      <4>3. u # t
        BY <4>1, <4>2
      <4> QED
        BY <3>1, <4>2, <4>3 DEF Rest
    <3> QED
      BY <3>1, <3>2 DEF OnlySelectedStays
  <2>6. CASE Change(t)
    <3>1. t.kind # "effect" /\ ShowSlide(stage, Rest(t) \cup {Timeout("end", SlideSpeed, 0, 0)})
      BY <2>6 DEF Change
    <3> QED
      BY <2>2, <2>s, <3>1, ShowSlideStays
  <2>7. CASE ShowFirst(t)
    <3>1. t.kind # "effect" /\ ShowSlide(stage, Rest(t))
      BY <2>7 DEF ShowFirst
    <3> QED
      BY <2>2, <2>s, <3>1, ShowSlideStays
  <2> QED
    BY <2>1, <2>3, <2>4, <2>5, <2>6, <2>7
<1>5. CASE Tick
  <2>1. UNCHANGED <<active, selected, early>>
    BY <1>5 DEF Tick, showing
  <2> QED
    BY <1>5, <2>1, TickKeeps DEF OnlySelectedStays
<1>6. CASE UNCHANGED vars
  BY <1>6 DEF vars, OnlySelectedStays
<1> QED
  BY <1>1, <1>2, <1>3, <1>4, <1>5, <1>6 DEF Next

\* Once the page is loaded a slide that is left does not stay active: as long
\* as it is, the timeout that takes its classes is set.
THEOREM LeftSlidesGo == Spec => []OnlySelectedStays
<1>1. Init => OnlySelectedStays
  BY DEF Init, OnlySelectedStays
<1>2. Typed /\ Started /\ OnlySelectedStays /\ [Next]_vars => OnlySelectedStays'
  BY StaysStep
<1> QED
  BY <1>1, <1>2, TypedAlways, PTL DEF Spec

-----------------------------------------------------------------------------
(* Who only changes slides in turn sees the one selected *)

\* The effects that will take the classes of a slide that is not selected again.
MovingIn(set) == {t \in set : t.kind = "effect" /\ t.old \notin {0, t.new}}
Moving == MovingIn(timeouts)

\* An effect that is on its way is that of the change to the selected slide, and
\* will be over when the change is; the address does not lead anywhere else.
InTurn ==
    ready /\ ~jumps =>
        /\ hash \in DataNames => hash = selected
        /\ Pending("run") => loaded
        /\ \A t \in Moving :
              /\ t.new = selected /\ stage = selected /\ t.left <= EffectSpeed
              /\ \E u \in ChangeSteps(timeouts) : u.kind = "change" \/ t.left <= u.left

\* What showSlide leaves is in turn, if what it finds is, and if the step that the
\* slide is a part of ends after the effect that this begins.
LEMMA ShowSlideInTurn ==
    ASSUME Typed, SelectedIsShown, ready, ~jumps, NEW n \in Slides, NEW others,
           ShowSlide(n, others), stage' = n, UNCHANGED <<ready, loaded, animate, jumps>>,
           (\E t \in others : t.kind = "run") => loaded,
           \A t \in MovingIn(others) :
              /\ t.new = n /\ t.left <= EffectSpeed
              /\ \E u \in ChangeSteps(others) : u.kind = "change" \/ t.left <= u.left,
           loaded /\ n # selected =>
              \E u \in ChangeSteps(others) : u.kind = "change" \/ EffectSpeed <= u.left
    PROVE  (InTurn /\ SelectedIsShown)'
<1>1. /\ selected' = n /\ hash' = HashOf(n)
      /\ timeouts' = others \cup ShowTimeouts(selected, n) \cup PopState(HashOf(n))
      /\ active' = IF n = selected THEN active ELSE active \cup ({selected, n} \ {0})
  BY DEF ShowSlide
<1>2. 0 \notin Slides /\ 0 \notin DataNames
  BY SMT, SlideAssumption DEF Slides
<1>3. n \in active'
  BY <1>1, <1>2 DEF SelectedIsShown
<1>4. hash' \in DataNames => hash' = n
  BY <1>1, <1>2 DEF HashOf
<1>5. Pending("run")' => loaded
  BY <1>1, NewKinds DEF Pending, ShowTimeouts, PopState
<1>6. loaded => \E t \in timeouts' : t.kind = "animate" /\ t.new = n
  <2>1. ASSUME loaded
        PROVE  Timeout("animate", AnimateDelay, 0, n) \in timeouts'
    BY <1>1, <2>1 DEF ShowTimeouts
  <2>2. LET t == Timeout("animate", AnimateDelay, 0, n) IN t.kind = "animate" /\ t.new = n
    BY SMT DEF Timeout
  <2> QED
    BY <2>1, <2>2
<1>7. SelectedIsShown'
  BY <1>1, <1>3, <1>6 DEF SelectedIsShown
<1>8. ChangeSteps(timeouts') = ChangeSteps(others)
  BY ShowSlideLocks
<1>9. ASSUME NEW t \in Moving'
      PROVE  /\ t.new = n /\ t.left <= EffectSpeed
             /\ \E u \in ChangeSteps(others) : u.kind = "change" \/ t.left <= u.left
  <2>1. t \in timeouts' /\ t.kind = "effect" /\ t.old # 0 /\ t.old # t.new
    BY <1>9 DEF Moving, MovingIn
  <2>2. CASE t \in others
    BY <2>1, <2>2 DEF MovingIn
  <2>3. CASE t \notin others
    <3> DEFINE new == Timeout("effect", EffectSpeed, selected, n)
    <3>1. loaded /\ t = new
      BY <1>1, <2>1, <2>3, NewKinds DEF ShowTimeouts, PopState
    <3>2. new.old = selected /\ new.new = n /\ new.left = EffectSpeed
      BY SMT DEF Timeout
    <3>3. EffectSpeed <= EffectSpeed
      BY SMT, SlideAssumption
    <3> QED
      BY <2>1, <3>1, <3>2, <3>3
  <2> QED
    BY <2>2, <2>3
<1>10. InTurn'
  BY <1>1, <1>4, <1>5, <1>8, <1>9 DEF InTurn
<1> QED
  BY <1>7, <1>10

\* A tick brings an effect and the end of its change nearer alike.
LEMMA TickInTurn ==
    ASSUME Typed, InTurn, Tick
    PROVE  InTurn'
<1>1. ASSUME NEW t \in timeouts
      PROVE  LET u == [t EXCEPT !.left = @ - 1]
             IN  /\ u.kind = t.kind /\ u.old = t.old /\ u.new = t.new
                 /\ u.left = t.left - 1 /\ t.left \in Nat
  BY <1>1, SMT DEF Typed, Timeouts
<1>2. timeouts' = {[t EXCEPT !.left = @ - 1] : t \in timeouts}
  BY DEF Tick
<1>3. UNCHANGED <<ready, jumps, loaded, selected, stage, hash>>
  BY DEF Tick, showing
<1>4. Pending("run")' => Pending("run")
  BY TickKeeps DEF Pending
<1>5. SUFFICES ASSUME ready, ~jumps, NEW v \in Moving'
               PROVE  /\ v.new = selected /\ stage = selected /\ v.left <= EffectSpeed
                      /\ \E u \in ChangeSteps(timeouts') :
                            u.kind = "change" \/ v.left <= u.left
  BY <1>3, <1>4 DEF InTurn
<1>6. PICK t \in timeouts : v = [t EXCEPT !.left = @ - 1]
  BY <1>2 DEF Moving, MovingIn
<1>7. t \in Moving
  BY <1>1, <1>6 DEF Moving, MovingIn
<1>8. PICK u \in ChangeSteps(timeouts) : u.kind = "change" \/ t.left <= u.left
  BY <1>5, <1>7 DEF InTurn
<1>9. u \in timeouts /\ u.kind \in {"change", "end"}
  BY DEF ChangeSteps
<1> DEFINE w == [u EXCEPT !.left = @ - 1]
<1>10. w \in timeouts' /\ w.kind = u.kind /\ w.left = u.left - 1 /\ u.left \in Nat
  BY <1>1, <1>2, <1>9
<1> HIDE DEF w
<1>11. w \in ChangeSteps(timeouts')
  BY <1>9, <1>10 DEF ChangeSteps
<1>12. /\ t.new = selected /\ stage = selected /\ t.left <= EffectSpeed
  BY <1>5, <1>7 DEF InTurn
<1>13. v.new = t.new /\ v.left = t.left - 1 /\ t.left \in Nat
  BY <1>1, <1>6
<1>14. EffectSpeed \in Nat
  BY SlideAssumption
<1>15. v.left <= EffectSpeed /\ (t.left <= u.left => v.left <= w.left)
  BY SMT, <1>10, <1>12, <1>13, <1>14
<1> QED
  BY <1>8, <1>10, <1>11, <1>12, <1>13, <1>15

\* The callbacks of the timeouts keep the turn.
LEMMA FireInTurn ==
    ASSUME EffectSpeed <= SlideSpeed, Typed, PartsAgree, Locks, InTurn, SelectedIsShown,
           ready, ~jumps, NEW t \in timeouts, Due(t),
           \/ UpdateNavigation(t) \/ UpdateHash(t) \/ EndEffect(t) \/ Animate(t)
           \/ Change(t) \/ EndChange(t) \/ ForgetScrolls(t) \/ ShowFirst(t)
    PROVE  (InTurn /\ SelectedIsShown)'
<1>0. /\ selected \in Slides /\ stage \in Slides /\ 0 \notin Slides
      /\ EffectSpeed \in Nat /\ SlideSpeed \in Nat
      /\ \A u \in timeouts : u.left \in Nat
  BY SMT, SlideAssumption DEF Typed, TypeOK, ReadySelected, Slides, Timeouts
\* What is known of this state.
<1>k. /\ hash \in DataNames => hash = selected
      /\ Pending("run") => loaded
      /\ \A u \in Moving :
            /\ u.new = selected /\ stage = selected /\ u.left <= EffectSpeed
            /\ \E v \in ChangeSteps(timeouts) : v.kind = "change" \/ u.left <= v.left
  BY DEF InTurn
<1>m. ASSUME NEW u \in MovingIn(Rest(t))
      PROVE  u \in Moving
  BY <1>m DEF Moving, MovingIn, Rest
<1>c. t.kind \notin {"change", "end"} => ChangeSteps(timeouts) \subseteq ChangeSteps(Rest(t))
  BY DEF ChangeSteps, Rest
<1>r. (\E u \in Rest(t) : u.kind = "run") => loaded
  BY <1>k DEF Pending, Rest
\* A callback that shows no slide and is not of a change.
<1>i. ASSUME timeouts' = Rest(t), t.kind \notin {"change", "end"},
             UNCHANGED <<ready, jumps, loaded, selected, stage, hash>>
      PROVE  InTurn'
  <2>1. Pending("run")' => Pending("run")
    BY <1>i DEF Pending, Rest
  <2>2. \A u \in Moving' : u \in Moving
    BY <1>i, <1>m DEF Moving
  <2>3. ChangeSteps(timeouts) \subseteq ChangeSteps(timeouts')
    BY <1>i, <1>c
  <2> QED
    BY <1>i, <1>k, <2>1, <2>2, <2>3 DEF InTurn
<1>s. ASSUME timeouts' = Rest(t), t.kind \notin {"animate", "run"},
             UNCHANGED <<ready, jumps, loaded, selected>>,
             selected \in active => selected \in active',
             selected \in animate => selected \in animate'
      PROVE  SelectedIsShown'
  <2>1. \A u \in timeouts : u.kind \in {"animate", "run"} => u \in timeouts'
    BY <1>s DEF Rest
  <2> QED
    BY <1>s, <2>1 DEF SelectedIsShown, Pending
<1>1. CASE UpdateNavigation(t)
  BY <1>1, <1>i, <1>s DEF UpdateNavigation
<1>2. CASE UpdateHash(t)
  <2>1. CASE hash \in DataNames
    <3>1. ShowSlide(selected, Rest(t)) /\ stage' = selected
      BY <1>2, <1>k, <2>1 DEF UpdateHash
    <3>2. UNCHANGED <<ready, loaded, animate, jumps>> /\ t.kind = "hash"
      BY <1>2 DEF UpdateHash
    <3>3. \A u \in MovingIn(Rest(t)) :
             /\ u.new = selected /\ u.left <= EffectSpeed
             /\ \E v \in ChangeSteps(Rest(t)) : v.kind = "change" \/ u.left <= v.left
      BY <1>c, <1>k, <1>m, <3>2
    <3> QED
      BY <1>0, <1>r, <3>1, <3>2, <3>3, ShowSlideInTurn
  <2>2. CASE hash \notin DataNames
    BY <1>2, <1>i, <1>s, <2>2 DEF UpdateHash
  <2> QED
    BY <2>1, <2>2
<1>3. CASE EndEffect(t)
  <2>1. /\ timeouts' = Rest(t) /\ t.kind = "effect"
        /\ UNCHANGED <<ready, jumps, loaded, selected, stage, hash>>
        /\ active' = active \ (IF t.old = t.new THEN {} ELSE {t.old})
        /\ animate' = animate \ (IF t.old = t.new THEN {} ELSE {t.old})
    BY <1>3 DEF EndEffect
  <2>2. t.old # t.new => t.old # selected
    BY <1>0, <1>k, <2>1 DEF Moving, MovingIn
  <2> QED
    BY <1>i, <1>s, <2>1, <2>2
<1>4. CASE Animate(t)
  <2>1. /\ timeouts' = Rest(t) /\ t.kind = "animate" /\ animate' = animate \cup {t.new}
        /\ UNCHANGED <<ready, jumps, loaded, selected, stage, hash, active>>
    BY <1>4 DEF Animate
  <2>2. \A u \in timeouts : u # t => u \in timeouts'
    BY <2>1 DEF Rest
  <2>3. Pending("run") => Pending("run")'
    BY <2>1, <2>2 DEF Pending
  <2>4. SelectedIsShown'
    BY <2>1, <2>2, <2>3 DEF SelectedIsShown
  <2> QED
    BY <1>i, <2>1, <2>4
<1>5. CASE Change(t)
  <2> DEFINE end == Timeout("end", SlideSpeed, 0, 0)
             others == Rest(t) \cup {end}
  <2>1. /\ t.kind = "change" /\ ShowSlide(stage, others)
        /\ UNCHANGED <<ready, loaded, stage, animate, jumps>>
    BY <1>5 DEF Change
  <2>2. end.kind = "end" /\ end.left = SlideSpeed
    BY SMT DEF Timeout
  <2>3. end \in ChangeSteps(others)
    BY <2>2 DEF ChangeSteps
  <2>4. (\E u \in others : u.kind = "run") => loaded
    BY <1>r, <2>2
  <2>5. ASSUME NEW u \in MovingIn(others)
        PROVE  /\ u.new = stage /\ u.left <= EffectSpeed
               /\ u.left <= end.left
    <3>1. u \in MovingIn(Rest(t))
      BY <2>2, <2>5 DEF MovingIn
    <3>2. u.new = stage /\ u.left <= EffectSpeed /\ u \in timeouts
      BY <1>k, <1>m, <3>1 DEF Moving, MovingIn
    <3>3. u.left <= SlideSpeed
      BY SMT, <1>0, <3>2
    <3> QED
      BY <2>2, <3>2, <3>3
  <2>6. EffectSpeed <= end.left
    BY <2>2
  <2> HIDE DEF end, others
  <2> QED
    BY <1>0, <2>1, <2>3, <2>4, <2>5, <2>6, ShowSlideInTurn
<1>6. CASE EndChange(t)
  <2>1. /\ timeouts' = Rest(t) /\ t.kind = "end" /\ UNCHANGED <<stage, hash>>
        /\ UNCHANGED showing
    BY <1>6 DEF EndChange
  <2>2. UNCHANGED <<ready, jumps, loaded, selected, active, animate>>
    BY <2>1 DEF showing
  <2>3. Moving = {}
    <3>1. SUFFICES ASSUME NEW u \in Moving
                   PROVE  FALSE
      OBVIOUS
    <3>2. PICK v \in ChangeSteps(timeouts) : v.kind = "change" \/ u.left <= v.left
      BY <1>k
    <3>3. v = t
      BY <2>1 DEF ChangeSteps, Locks, LocksAreReleased, OneChangeAtATime
    <3>4. u.left <= 0 /\ u \in timeouts /\ u.kind = "effect"
      BY <2>1, <3>2, <3>3 DEF Due, Moving, MovingIn
    <3>5. u.left = 0
      BY SMT, <1>0, <3>4
    <3> QED
      BY <2>1, <3>4, <3>5 DEF Due
  <2>4. Moving' = {}
    BY <1>m, <2>1, <2>3 DEF Moving
  <2>5. Pending("run")' => Pending("run")
    BY <2>1 DEF Pending, Rest
  <2>6. InTurn'
    BY <1>k, <2>1, <2>2, <2>4, <2>5 DEF InTurn
  <2> QED
    BY <1>s, <2>1, <2>2, <2>6
<1>7. CASE ForgetScrolls(t)
  <2>1. /\ timeouts' = Rest(t) /\ t.kind = "wheel" /\ UNCHANGED <<stage, hash>>
        /\ UNCHANGED showing
    BY <1>7 DEF ForgetScrolls
  <2>2. UNCHANGED <<ready, jumps, loaded, selected, active, animate>>
    BY <2>1 DEF showing
  <2> QED
    BY <1>i, <1>s, <2>1, <2>2
<1>8. CASE ShowFirst(t)
  <2>1. /\ t.kind = "run" /\ ShowSlide(stage, Rest(t))
        /\ UNCHANGED <<ready, loaded, stage, animate, jumps>>
    BY <1>8 DEF ShowFirst
  <2>2. \A u \in MovingIn(Rest(t)) :
           /\ u.new = stage /\ u.left <= EffectSpeed
           /\ \E v \in ChangeSteps(Rest(t)) : v.kind = "change" \/ u.left <= v.left
    BY <1>c, <1>k, <1>m, <2>1
  <2>3. stage # selected => \E u \in ChangeSteps(Rest(t)) : u.kind = "change"
    BY <2>1 DEF PartsAgree, Pending, ChangeSteps, Rest
  <2> QED
    BY <1>0, <1>r, <2>1, <2>2, <2>3, ShowSlideInTurn
<1> QED
  BY <1>1, <1>2, <1>3, <1>4, <1>5, <1>6, <1>7, <1>8

LEMMA InTurnStep ==
    ASSUME EffectSpeed <= SlideSpeed, Typed, Started, PartsAgree, Locks,
           InTurn, SelectedIsShown, [Next]_vars
    PROVE  (InTurn /\ SelectedIsShown)'
<1>0. 0 \notin DataNames /\ jumps' = jumps
  <2>1. jumps' = jumps
    BY UserShapes DEF Next, vars, Ready, Load, Asked, Follow, Navigate, Fire, Tick,
       UpdateNavigation, UpdateHash, EndEffect, Animate, Change, EndChange, ForgetScrolls,
       ShowFirst, showing
  <2> QED
    BY SMT, <2>1, SlideAssumption DEF Slides
<1>1. CASE Ready
  <2>1. PICK first \in Slides :
            /\ stage' = first /\ selected' = first /\ active' = {first}
            /\ hash' = HashOf(first)
            /\ timeouts' = (IF hash \in DataNames THEN ShowTimeouts(first, first)
                                                  ELSE {})
                           \cup ShowTimeouts(0, first) \cup PopState(hash')
                           \cup (IF loaded' THEN {Run} ELSE {})
    BY <1>1 DEF Ready
  <2>2. Moving' = {}
    BY <2>1, NewKinds DEF Moving, MovingIn, ShowTimeouts, PopState, Run
  <2>3. hash' \in DataNames => hash' = selected'
    BY <1>0, <2>1 DEF HashOf
  <2>4. Pending("run")' <=> loaded'
    BY <2>1, NewKinds DEF Pending, ShowTimeouts, PopState, Run
  <2> QED
    BY <2>1, <2>2, <2>3, <2>4 DEF InTurn, SelectedIsShown
<1>2. CASE Load
  <2>1. /\ loaded' /\ timeouts' = (IF ready THEN timeouts \cup {Run} ELSE timeouts)
        /\ UNCHANGED <<ready, stage, selected, active, animate, hash>>
    BY <1>2 DEF Load
  <2>2. Moving' = Moving
    BY <2>1, NewKinds DEF Moving, MovingIn, Run
  <2>3. ChangeSteps(timeouts) \subseteq ChangeSteps(timeouts')
    BY <2>1 DEF ChangeSteps
  <2>4. ready => Pending("run")'
    BY <2>1, NewKinds DEF Pending, Run
  <2> QED
    BY <1>0, <2>1, <2>2, <2>3, <2>4 DEF InTurn, SelectedIsShown
<1>3. CASE UserActs
  <2>1. CASE Asked
    <3>1. UNCHANGED <<ready, loaded, selected, active, animate>> /\ hash' \in {hash, 0}
      BY <2>1 DEF Asked, showing
    <3>2. PICK others \in {timeouts, timeouts \cup {Timeout("wheel", WheelPause, 0, 0)}} :
            \/ timeouts' = others /\ UNCHANGED <<inAction, stage>>
            \/ /\ ~inAction
               /\ \E delay \in {0, ZoomPause} :
                     timeouts' = others \cup {Timeout("change", delay, 0, 0)}
      BY <2>1 DEF Asked
    <3>3. timeouts \subseteq timeouts'
      BY <3>2
    <3>4. \A u \in timeouts' \ timeouts : u.kind \in {"wheel", "change"}
      BY <3>2, NewKinds
    <3>5. SelectedIsShown'
      BY <1>0, <3>1, <3>3 DEF SelectedIsShown, Pending
    <3>6. Moving' = Moving /\ (Pending("run")' => Pending("run"))
      BY <3>3, <3>4 DEF Moving, MovingIn, Pending
    <3>7. ChangeSteps(timeouts) \subseteq ChangeSteps(timeouts')
      BY <3>3 DEF ChangeSteps
    <3>8. CASE stage' = stage
      BY <1>0, <3>1, <3>5, <3>6, <3>7, <3>8 DEF InTurn
    <3>9. CASE ready /\ ~jumps /\ ~inAction
      <4>1. ChangeSteps(timeouts) = {}
        BY Zenon, <3>9 DEF Locks, HeldUntilRun, LocksAreReleased, OneChangeAtATime,
           ChangeSteps
      <4>2. Moving = {}
        BY <3>9, <4>1 DEF InTurn
      <4> QED
        BY <1>0, <3>1, <3>5, <3>6, <4>2 DEF InTurn
    <3> QED
      BY <1>0, <3>1, <3>2, <3>5, <3>8, <3>9 DEF InTurn
  <2>2. CASE \E n \in Slides : Follow(n)
    BY <1>0, <2>2 DEF Follow, InTurn, SelectedIsShown
  <2>3. CASE \E h \in 0 .. Stages : Navigate(h)
    BY <1>0, <2>3 DEF Navigate, InTurn, SelectedIsShown
  <2> QED
    BY <1>3, <2>1, <2>2, <2>3, UserShapes
<1>4. CASE Fire
  <2>1. PICK t \in timeouts : /\ Due(t)
           /\ \/ UpdateNavigation(t) \/ UpdateHash(t) \/ EndEffect(t) \/ Animate(t)
              \/ Change(t) \/ EndChange(t) \/ ForgetScrolls(t) \/ ShowFirst(t)
    BY <1>4 DEF Fire
  <2>2. ready
    BY <2>1 DEF Started
  <2>3. CASE jumps
    BY <1>0, <2>3 DEF InTurn, SelectedIsShown
  <2>4. CASE ~jumps
    BY <2>1, <2>2, <2>4, FireInTurn
  <2> QED
    BY <2>3, <2>4
<1>5. CASE Tick
  <2>1. UNCHANGED <<ready, loaded, selected, active, animate>>
    BY <1>5 DEF Tick, showing
  <2>2. SelectedIsShown'
    BY <1>0, <1>5, <2>1, TickKeeps DEF SelectedIsShown, Pending
  <2> QED
    BY <1>5, <2>2, TickInTurn
<1>6. CASE UNCHANGED vars
  BY <1>6 DEF vars, InTurn, SelectedIsShown, Moving, Pending
<1> QED
  BY <1>1, <1>2, <1>3, <1>4, <1>5, <1>6 DEF Next

\* Who changes slides by keys, buttons, dots and the wheel sees the slide that is
\* selected, whatever is zoomed, loaded or still on its way: an effect is over before
\* the next change begins. It has to be: with a longer effect (class fast) line 342
\* takes the classes of a slide that is selected again.
THEOREM SelectedSlideShows ==
    ASSUME EffectSpeed <= SlideSpeed
    PROVE  Spec => []SelectedIsShown
<1>1. Init => PartsAgree /\ Locks /\ InTurn /\ SelectedIsShown
  BY Zenon DEF Init, PartsAgree, Locks, LocksAreReleased, OneChangeAtATime,
     ScrollsForgotten, HeldUntilRun, ChangeSteps, Pending, InTurn, SelectedIsShown
<1>2. /\ Typed /\ Started /\ PartsAgree /\ Locks /\ InTurn /\ SelectedIsShown
      /\ [Next]_vars
      => (PartsAgree /\ Locks /\ InTurn /\ SelectedIsShown)'
  BY AgreesStep, LocksStep, InTurnStep
<1> QED
  BY <1>1, <1>2, TypedAlways, PTL DEF Spec

=============================================================================
