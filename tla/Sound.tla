--------------------------------- MODULE Sound ---------------------------------
(***************************************************************************)
(* A sound of the page and its button (slides.js): a click plays or pauses  *)
(* it, and the volume is faded, one fade after the other.                   *)
(***************************************************************************)
EXTENDS Integers, Sequences

CONSTANT MaxFades   \* bound: fades that wait for each other

SoundAssumption == MaxFades \in Nat

VARIABLES
    action,    \* data-sound-action
    paused,    \* the audio element is paused
    volume,    \* its volume once no fade is under way
    fades,     \* the fades under way and waiting
    playing    \* the button is of class "playing"

vars == <<action, paused, volume, fades, playing>>

TypeOK ==
    /\ action \in {"toggle", "play", "pause"}
    /\ {paused, playing} \subseteq BOOLEAN
    /\ volume \in {0, 1}
    /\ fades \in Seq({"in", "out"})

\* The browser may refuse to play the sound of a page nobody has touched.
Init ==
    /\ action \in {"toggle", "play", "pause"}
    /\ playing \in BOOLEAN
    /\ paused \in {TRUE, ~playing}
    /\ volume = 1
    /\ fades = << >>

ClickPlay ==
    /\ paused /\ action \in {"toggle", "play"}
    /\ paused' = FALSE
    /\ fades' = Append(fades, "in")
    /\ playing' = TRUE

ClickPause ==
    /\ ~(paused /\ action = "toggle") /\ action \in {"toggle", "pause"}
    /\ fades' = Append(fades, "out")
    /\ playing' = FALSE
    /\ UNCHANGED paused

Click ==
    /\ Len(fades) < MaxFades
    /\ ClickPlay \/ ClickPause
    /\ UNCHANGED <<action, volume>>

\* Mutant: the sound is silent, and not paused.
PausedAfterMutant(fade) == paused

\* The sound is paused when a fade out ends.
PausedAfter(fade) == paused \/ fade = "out"

FadeEnds ==
    /\ fades # << >>
    /\ fades' = Tail(fades)
    /\ volume' = IF Head(fades) = "in" THEN 1 ELSE 0
    /\ paused' = PausedAfter(Head(fades))
    /\ UNCHANGED <<action, playing>>

SoundEnds ==
    /\ ~paused
    /\ paused' = TRUE
    /\ UNCHANGED <<action, volume, fades, playing>>

Next == Click \/ FadeEnds \/ SoundEnds

Spec == Init /\ [][Next]_vars

\* However fast the user clicks, once the fades are over nothing plays on with
\* the button off, or in silence.
NothingPlaysOn == fades = << >> /\ ~paused => playing /\ volume = 1
=============================================================================
