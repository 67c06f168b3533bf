------------------------------- MODULE Player -------------------------------
(***************************************************************************)
(* pravega-video-player: the callbacks of the GTK main loop (buttons,      *)
(* slider, timer, bus messages) and of GStreamer's threads (pads of        *)
(* decodebin), around the pipeline pravegasrc ! queue2 ! decodebin, over a *)
(* stream that grows, is truncated and is sealed.                          *)
(*                                                                         *)
(* Main loop callbacks exclude each other; the stream and the pipeline go  *)
(* on between the two queries of the timer and its update of the slider.   *)
(*                                                                         *)
(* Simplifications: a frame has a time of its own, from 0, and a record in *)
(* the index.  The slider counts half frames, and the user leaves it       *)
(* between two frames; its f64 tell times apart that differ by more than   *)
(* 256 ns.                                                                 *)
(***************************************************************************)
EXTENDS Integers, Sequences

CONSTANTS
  Contents,   \* what the stream may have: {"video"} or {"video", "audio"}
  MaxTime,    \* bound on the frames
  MaxClicks   \* bound on the user's clicks and moves of the slider

ASSUME PlayerAssumption ==
  /\ \A c \in Contents : "video" \in c
  /\ MaxTime \in Nat \ {0} /\ MaxClicks \in Nat

NONE == -1

VARIABLES
  head, tail, sealed, \* the stream holds the frames head .. tail, none if tail < head
  kinds,      \* what they are, and so the pads of decodebin
  state,      \* what the pipeline was last set to
  pos,        \* the position that it reports, NONE before it has prerolled
  wanted,     \* the frame that the source reads first after a seek
  flow,       \* its streaming threads
  activation, \* how often it has left Ready
  pads,       \* the pads decodebin has added since
  videosink,  \* the activation of the pad it is linked to, NONE if not in the pipeline
  audiosinks, \* the activations of the pads of the audio sinks in the pipeline
  bus,        \* the Eos messages not yet handled (an error is only logged)
  slider, main, clicks

stream == <<head, tail, sealed, kinds>>
pipeline == <<state, pos, wanted, flow, activation, pads, videosink, audiosinks>>
vars == <<stream, pipeline, bus, slider, main, clicks>>

States == {"Null", "Ready", "Paused", "Playing"}
Active == state \in {"Paused", "Playing"}
SliderTimes == 0 .. 2 * MaxTime
Slider == [lo : SliderTimes, hi : SliderTimes, value : SliderTimes]
Main == [pc : {"begin", "loop", "position", "update", "quit", "ended", "panicked"},
         start : 0 .. MaxTime, end : 0 .. MaxTime, pos : NONE .. MaxTime]
MainIn(pc) == [pc |-> pc, start |-> 0, end |-> 0, pos |-> NONE]

Init ==
  /\ head = 0 /\ tail \in {NONE, 0} /\ sealed = FALSE /\ kinds \in Contents
  /\ state = "Null" /\ pos = NONE /\ wanted = 0 /\ flow = "stopped"
  /\ activation = 0 /\ pads = {} /\ videosink = NONE /\ audiosinks = <<>>
  /\ bus = 0 /\ clicks = 0
  /\ slider = [lo |-> 0, hi |-> 2 * MaxTime, value |-> 0]
  /\ main = MainIn("begin")

Max(a, b) == IF a > b THEN a ELSE b
Min(a, b) == IF a < b THEN a ELSE b
InLoop == main.pc = "loop"
HasFrames == head <= tail

-----------------------------------------------------------------------------
(* The stream *)

Append1 ==
  /\ ~sealed /\ tail < MaxTime /\ tail' = tail + 1
  /\ UNCHANGED <<head, sealed, kinds, pipeline, bus, slider, main, clicks>>

Truncate ==
  /\ head <= tail /\ head' = head + 1
  /\ UNCHANGED <<tail, sealed, kinds, pipeline, bus, slider, main, clicks>>

Seal ==
  /\ ~sealed /\ sealed' = TRUE
  /\ UNCHANGED <<head, tail, kinds, pipeline, bus, slider, main, clicks>>

-----------------------------------------------------------------------------
(* What the callbacks do to the pipeline *)

links == <<activation, pads, videosink, audiosinks>>

\* The pads of decodebin go when the pipeline returns to Ready.  To leave it, pravegasrc
\* seeks to the head, which fails if the index is empty (PlayFails).
SetState(s) ==
  /\ state' = s
  /\ IF s \in {"Null", "Ready"}
     THEN /\ pos' = NONE /\ flow' = "stopped" /\ pads' = {}
          /\ UNCHANGED <<wanted, activation, videosink, audiosinks>>
     ELSE IF Active THEN UNCHANGED <<pos, wanted, flow, links>>
     ELSE /\ HasFrames /\ wanted' = head
          /\ pos' = NONE /\ flow' = "running" /\ activation' = activation + 1
          /\ UNCHANGED <<pads, videosink, audiosinks>>

\* The frame that the source reads next.
next == IF pos = NONE THEN wanted ELSE pos + 1

\* seek_simple: a flush, and do_seek to the record at or before the time, or the first one.
\* If do_seek fails the source goes on where it was; the flush has happened all the same.
\* Without a sink the seek goes nowhere, which is printed.
Seek(v) ==
  IF Active /\ videosink = activation
  THEN /\ pos' = NONE /\ flow' = "running"
       /\ \/ HasFrames /\ wanted' = Max(head, Min(v \div 2, tail))
          \/ wanted' = next
       /\ UNCHANGED <<state, links>>
  ELSE UNCHANGED pipeline

-----------------------------------------------------------------------------
(* Callbacks of the main loop *)

\* run, up to gtk::main.
Run ==
  /\ main.pc = "begin" /\ main' = MainIn("loop")
  /\ SetState("Playing")
  /\ UNCHANGED <<stream, bus, slider, clicks>>

\* The play, pause and stop buttons.
Click(s) ==
  /\ InLoop /\ clicks < MaxClicks /\ clicks' = clicks + 1
  /\ SetState(s)
  /\ UNCHANGED <<stream, bus, slider, main>>

\* pravegasrc does not start: set_state fails, and expect panics.
PlayFails ==
  /\ main.pc \in {"begin", "loop"} /\ ~Active /\ clicks < MaxClicks /\ clicks' = clicks + 1
  /\ main' = MainIn("panicked")
  /\ SetState("Null")
  /\ UNCHANGED <<stream, bus, slider>>

\* value-changed, which GTK emits when the value is not the one it had.
MoveSlider(v) ==
  /\ InLoop /\ clicks < MaxClicks /\ clicks' = clicks + 1
  /\ v \in slider.lo .. slider.hi /\ v % 2 = 1 /\ v # slider.value
  /\ slider' = [slider EXCEPT !.value = v]
  /\ Seek(v)
  /\ UNCHANGED <<stream, bus, main>>

\* The timer: pravegasrc answers the seeking query from its index, if it has records, in
\* every state but Null and Ready.
QueryRange ==
  /\ InLoop /\ Active /\ HasFrames
  /\ main' = [MainIn("position") EXCEPT !.start = head, !.end = tail]
  /\ UNCHANGED <<stream, pipeline, bus, slider, clicks>>

QueryPosition ==
  /\ main.pc = "position"
  /\ main' = IF pos = NONE THEN MainIn("loop") ELSE [main EXCEPT !.pc = "update", !.pos = pos]
  /\ UNCHANGED <<stream, pipeline, bus, slider, clicks>>

\* Mutant: the handler is blocked also when truncation has overtaken the position.
EmitsNever(changed, value) == FALSE

\* Whether the update of the slider reaches the value-changed handler.
Emits(changed, value) == changed /\ slider.value # value

SliderEnd == Max(main.end, main.pos)

\* set_range and set_value.
UpdateSlider ==
  LET value == 2 * Max(main.start, main.pos) IN
  /\ main.pc = "update" /\ main' = MainIn("loop")
  /\ slider' = [lo |-> 2 * main.start, hi |-> 2 * SliderEnd, value |-> value]
  /\ IF Emits(main.pos < main.start, value) THEN Seek(value) ELSE UNCHANGED pipeline
  /\ UNCHANGED <<stream, bus, clicks>>

\* At the end of the stream the pipeline returns to Ready.
Message ==
  /\ InLoop /\ bus > 0 /\ bus' = bus - 1
  /\ SetState("Ready")
  /\ UNCHANGED <<stream, slider, main, clicks>>

DeleteEvent ==
  /\ InLoop /\ main' = MainIn("quit")
  /\ UNCHANGED <<stream, pipeline, bus, slider, clicks>>

\* run, after gtk::main; the bus has no watch any more.
Shutdown ==
  /\ main.pc = "quit" /\ main' = MainIn("ended")
  /\ SetState("Null") /\ bus' = 0
  /\ UNCHANGED <<stream, slider, clicks>>

-----------------------------------------------------------------------------
(* pad-added, on a thread of the pipeline *)

\* Mutant: the sink is not taken out of the pipeline first, so that adding it fails.
AddSink == IF videosink = NONE THEN activation ELSE videosink

\* The video sink leaves the elements of the pad before and joins the new ones.
MoveSink == activation

PadAdded(kind) ==
  /\ Active /\ flow = "running" /\ wanted <= tail /\ kind \in kinds \ pads
  /\ pads' = pads \cup {kind}
  /\ IF kind = "video"
     THEN videosink' = MoveSink /\ UNCHANGED audiosinks
     ELSE audiosinks' = Append(audiosinks, activation) /\ UNCHANGED videosink
  /\ UNCHANGED <<stream, state, pos, wanted, flow, activation, bus, slider, main, clicks>>

-----------------------------------------------------------------------------
(* The pipeline *)

\* Every sink in the pipeline has to have a frame, also one whose pad is gone.
SinksLinked ==
  /\ pads = kinds /\ videosink = activation
  /\ \A i \in DOMAIN audiosinks : audiosinks[i] = activation

\* The first frame may have been read before it was truncated.
Preroll ==
  /\ Active /\ flow = "running" /\ pos = NONE /\ SinksLinked /\ wanted <= tail
  /\ pos' = wanted
  /\ UNCHANGED <<stream, state, wanted, flow, links, bus, slider, main, clicks>>

\* The next frame may have been read before it was truncated.
Play ==
  /\ state = "Playing" /\ flow = "running" /\ pos # NONE /\ pos < tail
  /\ pos' = pos + 1
  /\ UNCHANGED <<stream, state, wanted, flow, links, bus, slider, main, clicks>>

\* create fails, with or without a frame shown: the next one has been truncated, or the
\* read fails.
SourceFails ==
  /\ Active /\ flow = "running" /\ flow' = "error"
  /\ UNCHANGED <<stream, state, pos, wanted, links, bus, slider, main, clicks>>

\* The source has read all there will be, or has failed, and tells the sinks so.
EndOfStream ==
  /\ state = "Playing" /\ SinksLinked
  /\ flow = "error" \/ (flow = "running" /\ sealed /\ next > tail)
  /\ flow' = "eos" /\ bus' = bus + 1
  /\ UNCHANGED <<stream, state, pos, wanted, links, slider, main, clicks>>

-----------------------------------------------------------------------------
Timer == QueryRange \/ QueryPosition \/ UpdateSlider

Next ==
  \/ Append1 \/ Truncate \/ Seal
  \/ Run \/ PlayFails \/ Timer \/ Message \/ DeleteEvent \/ Shutdown
  \/ \E s \in {"Playing", "Paused", "Ready"} : Click(s)
  \/ \E v \in SliderTimes : MoveSlider(v)
  \/ \E kind \in kinds : PadAdded(kind)
  \/ Preroll \/ Play \/ SourceFails \/ EndOfStream

\* The timer fires every 250 ms and the pipeline's threads run; nobody has to click.
Fairness ==
  /\ SF_vars(QueryRange) /\ WF_vars(QueryPosition) /\ WF_vars(UpdateSlider)
  /\ WF_vars(Preroll) /\ \A kind \in UNION Contents : WF_vars(PadAdded(kind))

Spec == Init /\ [][Next]_vars /\ Fairness

-----------------------------------------------------------------------------
(* Properties *)

TypeOK ==
  /\ head \in 0 .. tail + 1 /\ tail \in NONE .. MaxTime /\ sealed \in BOOLEAN
  /\ kinds \in Contents
  /\ state \in States /\ pos \in NONE .. MaxTime /\ wanted \in 0 .. MaxTime + 1
  /\ flow \in {"stopped", "running", "error", "eos"}
  /\ activation \in Nat /\ pads \subseteq kinds /\ videosink \in {NONE} \cup Nat
  /\ audiosinks \in Seq(Nat) /\ bus \in Nat
  /\ slider \in Slider /\ slider.value \in slider.lo .. slider.hi /\ main \in Main

Over == main.pc \in {"quit", "ended", "panicked"}

\* Playback that truncation has overtaken, and that an error may have stopped, is moved
\* to the frames that are left, if any are, without the user, if the slider followed it.
\* (If the slider stands at the very time of the first frame left, as after a restart,
\* GTK emits no value-changed and the timer never seeks.)
OvertakenGoesOn ==
  (Active /\ pos # NONE /\ pos < head /\ slider.value < 2 * head) ~>
    (~Active \/ pos = NONE \/ pos >= head \/ ~HasFrames \/ Over)

\* An audio sink of an earlier start is left in the pipeline.
StaleAudioSink == \E i \in DOMAIN audiosinks : audiosinks[i] # activation

\* "build the follow-up pipeline to display it": after each start and seek the stream is
\* shown, unless the source has failed, which is reported, or has nothing to read; and
\* unless it is a stream with audio that was stopped before, whose old audio sink stays.
StartShowsVideo ==
  (Active /\ pos = NONE) ~>
    (~Active \/ pos # NONE \/ flow \in {"error", "eos"} \/ wanted > tail \/ StaleAudioSink \/ Over)
=============================================================================
