-------------------------------- MODULE Widgets --------------------------------
(***************************************************************************)
(* A page with a slider, dialogs and a sound.  They share no state, so each *)
(* is looked at alone: the user uses one of them.  The names differ from    *)
(* those of ScrollMode, as PageProofs extends both.                         *)
(***************************************************************************)
EXTENDS Integers, Sequences, FiniteSets

CONSTANTS Items, Dialogs, Hidden, Delayed, HideDelayed, WithCookie, MaxQueue, MaxFades

VARIABLES
    item, hide, ending, pointed, pointedHide, autoplay,
    visible, queue, reveals, hides, cookies, dismissed, interrupted,
    action, paused, volume, fades, playing,
    used        \* the widget the user uses

TheSlider == INSTANCE Slider WITH selected <- item
TheDialogs == INSTANCE Dialog
TheSound == INSTANCE Sound

ASSUME WidgetsAssumption ==
    /\ TheSlider!SliderAssumption
    /\ TheDialogs!DialogAssumption
    /\ TheSound!SoundAssumption

sliderVars == <<item, hide, ending, pointed, pointedHide, autoplay>>
dialogVars == <<visible, queue, reveals, hides, cookies, dismissed, interrupted>>
soundVars == <<action, paused, volume, fades, playing>>
widgetVars == <<sliderVars, dialogVars, soundVars, used>>

WidgetsInit ==
    /\ TheSlider!Init /\ TheDialogs!Init /\ TheSound!Init
    /\ used \in {"slider", "dialogs", "sound"}

UseSlider == used = "slider" /\ TheSlider!Next /\ UNCHANGED <<dialogVars, soundVars>>
UseDialogs == used = "dialogs" /\ TheDialogs!Next /\ UNCHANGED <<sliderVars, soundVars>>
UseSound == used = "sound" /\ TheSound!Next /\ UNCHANGED <<sliderVars, dialogVars>>

WidgetsNext == (UseSlider \/ UseDialogs \/ UseSound) /\ UNCHANGED used

WidgetsSpec == WidgetsInit /\ [][WidgetsNext]_widgetVars

\* A slider and its controller are in step (slides.js 1536-1715).
InStep == TheSlider!TypeOK /\ TheSlider!InStep

\* What was closed for good stays closed, but for a delay that reveals it and for a load
\* of the page that comes before its cookie (slides.js 1945-1984).
StaysDismissed == TheDialogs!TypeOK /\ TheDialogs!StaysDismissed

\* No sound plays on with its button off (slides.js 2088-2105).
NothingPlaysOn == TheSound!TypeOK /\ TheSound!NothingPlaysOn
=============================================================================
