---------------------------- MODULE PlayerProofs ----------------------------
(***************************************************************************)
(* The types of Player, for every number of frames and clicks and whatever *)
(* the stream has: in particular that the slider's value is within its range, *)
(* which the timer sets from a range and a position of different instants. *)
(***************************************************************************)
EXTENDS Player, TLAPS

\* The range that a query of the timer has returned is in order.
PlayerInv == TypeOK /\ main.start <= main.end

LEMMA AppendTypes ==
  ASSUME NEW S, NEW s \in Seq(S), NEW e \in S
  PROVE  Append(s, e) \in Seq(S)
OBVIOUS

\* Twice an ordered triple of frames, as the slider counts.
LEMMA Doubled ==
  ASSUME NEW n \in Nat, NEW a \in 0 .. n, NEW c \in 0 .. n, NEW b \in a .. c
  PROVE  2 * a \in 0 .. 2 * n /\ 2 * c \in 0 .. 2 * n /\ 2 * b \in 0 .. 2 * n
         /\ 2 * b \in 2 * a .. 2 * c
OBVIOUS

LEMMA PlayerInit == Init => PlayerInv
<1> SUFFICES ASSUME Init PROVE PlayerInv
  OBVIOUS
<1>1. MaxTime \in Nat
  BY PlayerAssumption
<1>2. audiosinks \in Seq(Nat) /\ bus \in Nat /\ kinds \in Contents
  BY DEF Init
<1>3. slider \in Slider /\ slider.value \in slider.lo .. slider.hi
  BY <1>1 DEF Init, Slider, SliderTimes
<1>4. main \in Main /\ main.start <= main.end
  BY <1>1 DEF Init, MainIn, Main, NONE
<1>5. /\ head \in 0 .. tail + 1 /\ tail \in NONE .. MaxTime /\ sealed \in BOOLEAN
      /\ state \in States /\ pos \in NONE .. MaxTime /\ wanted \in 0 .. MaxTime + 1
  <2>1. head = 0 /\ tail \in {-1, 0} /\ sealed = FALSE /\ state = "Null" /\ pos = -1 /\ wanted = 0
    BY DEF Init, NONE
  <2>2. sealed \in BOOLEAN /\ state \in States
    BY <2>1 DEF States
  <2>3. head \in 0 .. tail + 1 /\ tail \in NONE .. MaxTime /\ wanted \in 0 .. MaxTime + 1
    BY <1>1, <2>1 DEF NONE
  <2>4. pos \in NONE .. MaxTime
    BY <1>1, <2>1 DEF NONE
  <2> QED
    BY <2>2, <2>3, <2>4
<1>6. /\ flow \in {"stopped", "running", "error", "eos"} /\ activation \in Nat
      /\ pads \subseteq kinds /\ videosink \in {NONE} \cup Nat
  BY DEF Init
<1> QED
  BY <1>2, <1>3, <1>4, <1>5, <1>6 DEF PlayerInv, TypeOK

\* The helpers by which callbacks change the pipeline.
LEMMA SetStateTypes ==
  ASSUME PlayerInv, NEW s \in States, SetState(s)
  PROVE  /\ state' \in States /\ pos' \in NONE .. MaxTime /\ wanted' \in 0 .. MaxTime + 1
         /\ flow' \in {"stopped", "running", "error", "eos"}
         /\ activation' \in Nat /\ pads' \subseteq kinds /\ videosink' \in {NONE} \cup Nat
         /\ audiosinks' \in Seq(Nat)
BY PlayerAssumption DEF PlayerInv, TypeOK, SetState, HasFrames, links, NONE

LEMMA SeekTypes ==
  ASSUME PlayerInv, NEW v \in SliderTimes, Seek(v)
  PROVE  /\ state' \in States /\ pos' \in NONE .. MaxTime /\ wanted' \in 0 .. MaxTime + 1
         /\ flow' \in {"stopped", "running", "error", "eos"}
         /\ activation' \in Nat /\ pads' \subseteq kinds /\ videosink' \in {NONE} \cup Nat
         /\ audiosinks' \in Seq(Nat)
<1>1. MaxTime \in Nat /\ v \div 2 \in 0 .. MaxTime
  BY PlayerAssumption DEF SliderTimes
<1>2. next \in 0 .. MaxTime + 1
  BY <1>1 DEF PlayerInv, TypeOK, next, NONE
<1>3. HasFrames => Max(head, Min(v \div 2, tail)) \in 0 .. MaxTime
  BY <1>1 DEF PlayerInv, TypeOK, HasFrames, Max, Min, NONE
<1> QED
  BY <1>1, <1>2, <1>3 DEF PlayerInv, TypeOK, Seek, links, pipeline, NONE

LEMMA PlayerStep == PlayerInv /\ [Next]_vars => PlayerInv'
<1> SUFFICES ASSUME PlayerInv, [Next]_vars PROVE PlayerInv'
  OBVIOUS
<1> USE PlayerAssumption DEF PlayerInv, TypeOK, NONE
<1>1. CASE Append1
  BY <1>1 DEF Append1, pipeline
<1>2. CASE Truncate
  BY <1>2 DEF Truncate, pipeline
<1>3. CASE Seal
  BY <1>3 DEF Seal, pipeline
<1>4. CASE Run
  BY <1>4, SetStateTypes DEF Run, MainIn, stream, States, Main
<1>5. CASE PlayFails
  BY <1>5, SetStateTypes DEF PlayFails, MainIn, stream, States, Main
<1>6. CASE QueryRange
  <2>1. head \in 0 .. MaxTime /\ tail \in 0 .. MaxTime /\ head <= tail
    BY <1>6 DEF QueryRange, HasFrames
  <2>2. main' \in Main /\ main'.start <= main'.end
    <3>1. main' = [pc |-> "position", start |-> head, end |-> tail, pos |-> NONE]
      BY <1>6 DEF QueryRange, MainIn
    <3> QED
      BY <2>1, <3>1 DEF Main
  <2> QED
    BY <1>6, <2>2 DEF QueryRange, stream, pipeline
<1>7. CASE QueryPosition
  <2>1. main' \in Main /\ main'.start <= main'.end
    <3>1. CASE pos = NONE
      BY <1>7, <3>1 DEF QueryPosition, MainIn, Main
    <3>2. CASE pos # NONE
      BY <1>7, <3>2 DEF QueryPosition, Main
    <3> QED
      BY <3>1, <3>2
  <2> QED
    BY <1>7, <2>1 DEF QueryPosition, stream, pipeline
<1>8. CASE UpdateSlider
  <2> DEFINE value == 2 * Max(main.start, main.pos)
  <2>1. /\ main.start \in 0 .. MaxTime /\ main.end \in 0 .. MaxTime /\ main.pos \in NONE .. MaxTime
        /\ MaxTime \in Nat
    BY DEF Main
  <2>2. value \in SliderTimes /\ 2 * main.start \in SliderTimes /\ 2 * SliderEnd \in SliderTimes
        /\ value \in 2 * main.start .. 2 * SliderEnd
    <3>1. main.start <= main.end
      OBVIOUS
    <3>2. /\ Max(main.start, main.pos) \in main.start .. SliderEnd
          /\ SliderEnd \in main.start .. MaxTime
      BY <2>1, <3>1 DEF SliderEnd, Max
    <3>3. main.start \in 0 .. MaxTime /\ SliderEnd \in 0 .. MaxTime /\ MaxTime \in Nat
      BY <2>1, <3>2
    <3>4. /\ 2 * main.start \in 0 .. 2 * MaxTime /\ 2 * SliderEnd \in 0 .. 2 * MaxTime
          /\ value \in 0 .. 2 * MaxTime /\ value \in 2 * main.start .. 2 * SliderEnd
      BY <3>2, <3>3, Doubled
    <3> QED
      BY <3>4 DEF SliderTimes
  <2>3. slider' = [lo |-> 2 * main.start, hi |-> 2 * SliderEnd, value |-> value]
    BY <1>8 DEF UpdateSlider
  <2>4. slider' \in Slider /\ slider'.value \in slider'.lo .. slider'.hi
    BY <2>2, <2>3 DEF Slider
  <2>5. main' \in Main /\ main'.start <= main'.end
    BY <1>8 DEF UpdateSlider, MainIn, Main
  <2>6. CASE Seek(value)
    BY <1>8, <2>2, <2>4, <2>5, <2>6, SeekTypes DEF UpdateSlider, stream
  <2>7. CASE UNCHANGED pipeline
    BY <1>8, <2>4, <2>5, <2>7 DEF UpdateSlider, stream, pipeline
  <2> QED
    BY <1>8, <2>6, <2>7 DEF UpdateSlider
<1>9. CASE Message
  BY <1>9, SetStateTypes DEF Message, stream, States
<1>10. CASE DeleteEvent
  BY <1>10 DEF DeleteEvent, MainIn, stream, pipeline, Main
<1>11. CASE Shutdown
  <2>1. main' \in Main /\ main'.start <= main'.end
    BY <1>11 DEF Shutdown, MainIn, Main
  <2>3. bus' = 0
    BY <1>11 DEF Shutdown
  <2>2. SetState("Null") /\ "Null" \in States /\ UNCHANGED <<head, tail, sealed, kinds, slider>>
    BY <1>11 DEF Shutdown, stream, States
  <2> QED
    BY <2>1, <2>2, <2>3, SetStateTypes
<1>12. ASSUME NEW s \in {"Playing", "Paused", "Ready"}, Click(s)
       PROVE  PlayerInv'
  BY <1>12, SetStateTypes DEF Click, stream, States
<1>13. ASSUME NEW v \in SliderTimes, MoveSlider(v)
       PROVE  PlayerInv'
  <2>1. slider' \in Slider /\ slider'.value \in slider'.lo .. slider'.hi
    BY <1>13 DEF MoveSlider, Slider
  <2> QED
    BY <1>13, <2>1, SeekTypes DEF MoveSlider, stream
<1>14. ASSUME NEW kind \in kinds, PadAdded(kind)
       PROVE  PlayerInv'
  <2>1. pads' \subseteq kinds
    BY <1>14 DEF PadAdded
  <2>2. audiosinks' \in Seq(Nat) /\ videosink' \in {NONE} \cup Nat
    <3>1. \/ videosink' = activation /\ audiosinks' = audiosinks
          \/ videosink' = videosink /\ audiosinks' = Append(audiosinks, activation)
      BY <1>14 DEF PadAdded, MoveSink
    <3>2. activation \in Nat /\ audiosinks \in Seq(Nat) /\ videosink \in {NONE} \cup Nat
      OBVIOUS
    <3> QED
      BY <3>1, <3>2, AppendTypes
  <2> QED
    BY <1>14, <2>1, <2>2 DEF PadAdded, stream
<1>15. CASE Preroll
  BY <1>15 DEF Preroll, stream, links, Max, Min, NONE
<1>16. CASE Play
  BY <1>16 DEF Play, stream, links, NONE
<1>17. CASE SourceFails
  BY <1>17 DEF SourceFails, stream, links
<1>18. CASE EndOfStream
  BY <1>18 DEF EndOfStream, stream, links
<1>19. CASE UNCHANGED vars
  BY <1>19 DEF vars, stream, pipeline
<1> QED
  BY <1>1, <1>2, <1>3, <1>4, <1>5, <1>6, <1>7, <1>8, <1>9, <1>10, <1>11, <1>12, <1>13, <1>14,
     <1>15, <1>16, <1>17, <1>18, <1>19 DEF Next, Timer

\* Whatever the user, the timer, the pipeline's threads and the stream do, every variable
\* keeps its type, and the slider is set to a value within the range it is given.
THEOREM PlayerTypes == Spec => []TypeOK
<1>1. PlayerInv => TypeOK
  BY DEF PlayerInv
<1> QED
  BY <1>1, PlayerInit, PlayerStep, PTL DEF Spec
=============================================================================
