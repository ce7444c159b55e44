------------------------------- MODULE Voice -------------------------------
(***************************************************************************)
(* One voice session: the listener's microphone and player on one side,    *)
(* the vendor's speech-to-speech socket on the other, and between them the *)
(* playback clock, the local barge-in detector and the live bridge with    *)
(* its spend gate.                                                         *)
(* voice/src/motet_voice: app.py, session.py, live.py, clock.py,           *)
(* bargein.py, tokens.py, realtime/openai_realtime.py.                     *)
(*                                                                         *)
(* Three coroutines share the session and switch at their awaits: the pump *)
(* that handles the client's frames one at a time, the reader of the       *)
(* vendor's events, and the guard that closes a silent floor.  The vendor  *)
(* is external: it hears what it is sent and answers through a FIFO.       *)
(* Positions count claims of the narration rather than milliseconds.       *)
(***************************************************************************)
EXTENDS Base, Integers, Sequences, FiniteSetsExt

CONSTANTS
    MaxPos,            \* length of the narration (bound)
    SpeechFrames,      \* consecutive_speech_frames of the policy
    MaxStream,         \* vendor events not yet read (bound)
    MaxTurns,          \* times the listener takes the floor or types (bound)
    MAX_LIVE_REOPENS   \* session.py

ASSUME VoiceAssumption ==
    /\ MaxPos \in Nat /\ MaxTurns \in Nat /\ MAX_LIVE_REOPENS \in Nat
    /\ SpeechFrames \in Nat \ {0} /\ MaxStream \in Nat \ {0}

VARIABLES
    session_at,      \* the session: not begun, minted, open or over
    narr,      \* the playback clock
    vad,       \* the detector: qualifying frames in a row, refractory window
    live,      \* the live bridge and its conversation, from the session's side
    vend,      \* external: the vendor's end, and its socket
    wire,      \* vendor events on their way to the reader
    pump,      \* where the pump is inside the frame it handles
    reader_at, \* whether the reader is inside a tool call
    trace      \* what the vendor and the listener got, for the properties

voiceVars == <<session_at, narr, vad, live, vend, wire, pump, reader_at, trace>>

Bridge == [there |-> "up", final |-> FALSE, active |-> FALSE, owed |-> FALSE,
           started |-> FALSE, talking |-> FALSE, spoke |-> FALSE, asked |-> FALSE,
           guard |-> FALSE, preroll |-> FALSE, follow |-> FALSE, tools |-> 0,
           inflight |-> FALSE, reopens |-> 0]
Vendor == [up |-> "up", hears |-> FALSE, speech |-> FALSE, answering |-> FALSE]

NoBridge == [Bridge EXCEPT !.there = "none"]
NoVendor == [Vendor EXCEPT !.up = "down"]
Silent == [spoken |-> 0, delivered |-> 0, playing |-> FALSE]
Quiet  == [run |-> 0, cooling |-> FALSE]
NoTrace == [placed |-> FALSE, blind |-> FALSE, narrating |-> FALSE, over |-> FALSE,
            turns |-> 0]

VoiceInit ==
    /\ session_at = "none" /\ narr = Silent /\ vad = Quiet
    /\ live = NoBridge /\ vend = NoVendor /\ wire = <<>>
    /\ pump = "idle" /\ reader_at = "idle"
    /\ trace = NoTrace

\* The types of the session's state.
VoiceTypeOK ==
    /\ session_at \in {"none", "minted", "open", "over"}
    /\ narr.spoken \in 0..narr.delivered /\ narr.delivered \in 0..MaxPos
    /\ vad.run \in 0..SpeechFrames
    /\ live.there \in {"none", "up", "failed"} /\ live.tools \in 0..1
    /\ live.reopens \in 0..MAX_LIVE_REOPENS
    /\ \A i \in DOMAIN wire : wire[i] \in
           {"started", "stopped", "created", "audio", "tool", "done", "cancelled"}
    /\ pump \in {"idle", "engaging", "forwarding", "cancelling"}
    /\ reader_at \in {"idle", "tool"}

(***************************************************************************)
(* The playback clock                                                      *)
(***************************************************************************)

\* deliver raises the ceiling and never the position.
deliver(c, n) == [c EXCEPT !.delivered = Min({MaxPos, @ + n})]

\* start
start(c) == [c EXCEPT !.playing = TRUE]

\* pause
pause(c) == [c EXCEPT !.playing = FALSE]

\* interrupt freezes the position, which is the offset on the wire.
interrupt(c) == [c EXCEPT !.playing = FALSE]

\* seek: the client's player says where it is, which is also what was delivered.
seek(c, pos) == [c EXCEPT !.spoken = pos, !.delivered = Max({@, pos})]

\* A position the frame may carry (_optional_position).
Positioned(c, pos) == IF pos = None THEN c ELSE seek(c, pos)

\* _settle: time passes while narration plays, never past what was delivered.
_settle ==
    /\ session_at = "open" /\ narr.playing /\ narr.spoken < narr.delivered
    /\ narr' = [narr EXCEPT !.spoken = @ + 1]
    /\ UNCHANGED <<session_at, vad, live, vend, wire, pump, reader_at, trace>>

(***************************************************************************)
(* The channel and what a send on it may do                                *)
(***************************************************************************)

\* _live_channel
_live_channel == live.there = "up"

\* _on_live: a call on the channel raised, so the channel is marked failed and
\* the client's socket lives on: the gate is closed, and of the dead bridge only
\* its pre-roll and why it died are ever read again.  _end, the reader's way of
\* finding the socket gone, leaves the same.
_on_live_failed(l) ==
    [Bridge EXCEPT !.there = "failed", !.final = vend.up = "refused",
                   !.preroll = l.preroll, !.reopens = l.reopens]
_end(l) == _on_live_failed(l)

\* Whether the vendor's socket takes a send.
Sends == vend.up = "up"

\* add_context: the position, which the clock of a playing narration has not left.  The
\* episode has a transcript: without one there is no position to tell, nothing is sent,
\* and the placing below is vacuous.
add_context(t, c) == [t EXCEPT !.placed = ~ c.playing]

\* append_audio: the vendor hears it, placed behind the position or blind.
append_audio(t) == [t EXCEPT !.blind = @ \/ ~ t.placed]

\* cancel_response: the reply in flight is cancelled, only if the session knows
\* of one, and audio not yet answered is thrown away.
cancel_response(l) ==
    /\ vend' = [vend EXCEPT !.hears = FALSE, !.speech = FALSE,
                            !.answering = @ /\ ~ l.inflight]
    /\ wire' = IF l.inflight /\ vend.answering THEN Append(wire, "cancelled") ELSE wire
    /\ live' = [l EXCEPT !.inflight = FALSE]

\* start_live and open_live: a fresh conversation, or none when it will not open.
start_live(opens) ==
    IF opens THEN Bridge ELSE NoBridge

\* _reopen_if_dropped: only a channel that opened and died, only for a reason a
\* reconnect can fix, and a bounded number of times; the pre-roll is adopted.
Reopens == live.there = "failed" /\ ~ live.final /\ live.reopens < MAX_LIVE_REOPENS
_reopen_if_dropped(opens) ==
    IF Reopens
    THEN [start_live(opens) EXCEPT !.preroll = live.preroll, !.reopens = live.reopens + 1]
    ELSE live

(***************************************************************************)
(* Opening and closing the session                                         *)
(***************************************************************************)

\* StartSession: _authorize_start_session, then mint.
start_session(authorized) ==
    /\ session_at = "none" /\ authorized
    /\ session_at' = "minted"
    /\ UNCHANGED <<narr, vad, live, vend, wire, pump, reader_at, trace>>

\* _authenticate: the first frame's token must be ours, alive, for this session
\* and for the config sent with it; then the session is created at the position
\* the caller knows and the live channel tried before ready is sent.
_authenticate(claims, opens, pos) ==
    /\ session_at = "minted"
    /\ session_at' = IF claims = {"signed", "alive", "same config", "this session"}
               THEN "open" ELSE "over"
    /\ narr' = IF session_at' = "open" THEN Positioned(narr, pos) ELSE narr
    /\ live' = IF session_at' = "open" THEN start_live(opens) ELSE live
    /\ vend' = IF session_at' = "open" /\ opens THEN Vendor ELSE vend
    /\ UNCHANGED <<vad, wire, pump, reader_at, trace>>

\* A close frame, or the client gone: _pump ends and aclose closes the bridge.
\* The session's object goes with its socket.
close_session ==
    /\ session_at = "open" /\ pump = "idle"
    /\ session_at' = "over"
    /\ narr' = Silent /\ vad' = Quiet /\ live' = NoBridge /\ vend' = NoVendor
    /\ wire' = <<>> /\ reader_at' = "idle" /\ trace' = NoTrace
    /\ UNCHANGED pump

Frame == session_at = "open" /\ pump = "idle"

(***************************************************************************)
(* The listener takes the floor                                            *)
(***************************************************************************)

\* A barge-in: the clock is frozen first, then the channel is reopened if it
\* dropped, and the position is sent.  What follows the await is engage_floor,
\* or the packet itself on a floor already open.  A packet offered to a channel
\* that was up is remembered for the pre-roll.
Barge(opens, packet) ==
    LET l == [_reopen_if_dropped(opens) EXCEPT !.preroll = @ \/ (packet /\ _live_channel)]
        c == interrupt(narr)
        lost == [trace EXCEPT !.placed = FALSE, !.narrating = FALSE, !.turns = @ + 1]
    IN  /\ trace.turns < MaxTurns
        /\ narr' = c
        /\ IF Reopens THEN /\ vend' = IF opens THEN Vendor ELSE vend
                           /\ wire' = <<>> /\ reader_at' = "idle"
                      ELSE UNCHANGED <<vend, wire, reader_at>>
        /\ \/ /\ l.there # "up"
              /\ live' = l /\ trace' = lost /\ UNCHANGED pump
           \/ /\ l.there = "up" /\ vend'.up # "up"
              /\ live' = _on_live_failed(l) /\ trace' = lost /\ UNCHANGED pump
           \/ /\ l.there = "up" /\ vend'.up = "up"
              /\ live' = l /\ trace' = add_context(lost, c)
              /\ pump' = CASE ~ l.active -> "engaging"
                           [] l.active /\ packet -> "forwarding"
                           [] OTHER -> "idle"

\* A packet sent the ordinary way, while the gate is open.
forward(l, t) ==
    \/ /\ l.active /\ Sends
       /\ live' = l /\ vend' = [vend EXCEPT !.hears = TRUE] /\ trace' = append_audio(t)
    \/ /\ l.active /\ ~ Sends
       /\ live' = _on_live_failed(l) /\ UNCHANGED vend /\ trace' = t
    \/ /\ ~ l.active
       /\ live' = l /\ UNCHANGED vend /\ trace' = t

\* VadTurnDetector.observe: a long enough run of qualifying frames, with
\* narration playing, outside the refractory window.
observe(qualifies) == [vad EXCEPT !.run = IF qualifies THEN Min({SpeechFrames, @ + 1}) ELSE 0]
Fires(d) == d.run = SpeechFrames /\ narr.playing /\ ~ vad.cooling

\* receive_audio: the local detector sees every packet before the vendor does.
receive_audio(qualifies, opens) ==
    LET d == observe(qualifies)
    IN  /\ Frame
        /\ \/ /\ Fires(d)
              /\ vad' = [d EXCEPT !.cooling = TRUE] /\ Barge(opens, TRUE)
           \/ /\ ~ Fires(d)
              /\ vad' = d
              /\ forward([live EXCEPT !.preroll = @ \/ _live_channel,
                                      !.active = @ /\ _live_channel], trace)
              /\ UNCHANGED <<narr, wire, pump, reader_at>>
        /\ UNCHANGED session_at

\* The refractory window ends.
refractory_over ==
    /\ session_at = "open" /\ vad.cooling
    /\ vad' = [vad EXCEPT !.cooling = FALSE]
    /\ UNCHANGED <<session_at, narr, live, vend, wire, pump, reader_at, trace>>

\* client_barge_in: push-to-talk or a button.
client_barge_in(opens) ==
    /\ Frame /\ Barge(opens, FALSE) /\ UNCHANGED <<session_at, vad>>

\* engage, once the position has gone out: the gate opens, a reply is owed, the
\* guard is armed, and the pre-roll is flushed.
engage ==
    LET l == [live EXCEPT !.active = TRUE, !.owed = TRUE, !.started = FALSE,
                          !.spoke = FALSE, !.asked = FALSE, !.guard = TRUE,
                          !.preroll = FALSE]
    IN  /\ pump = "engaging" /\ pump' = "idle"
        /\ IF live.preroll THEN forward(l, trace)
           ELSE live' = (IF _live_channel THEN l ELSE live) /\ UNCHANGED <<vend, trace>>
        /\ UNCHANGED <<session_at, narr, vad, wire, reader_at>>

\* The packet of a barge-in on a floor that was already open.
forward_packet ==
    /\ pump = "forwarding" /\ pump' = "idle"
    /\ forward([live EXCEPT !.active = @ /\ _live_channel], trace)
    /\ UNCHANGED <<session_at, narr, vad, wire, reader_at>>

(***************************************************************************)
(* Narration and the other control frames                                  *)
(***************************************************************************)

\* disengage, up to its first await: the gate closes before anything is sent,
\* and a reply that had begun is cut to what was heard before it is cancelled.
Disengaged(l) ==
    [l EXCEPT !.active = FALSE, !.owed = FALSE, !.follow = FALSE, !.guard = FALSE,
              !.started = FALSE]
disengage ==
    \/ /\ ~ Sends
       /\ live' = _on_live_failed(Disengaged(live)) /\ UNCHANGED <<vend, wire, pump>>
    \/ /\ Sends /\ ~ live.started
       /\ cancel_response(Disengaged(live)) /\ UNCHANGED pump
    \/ /\ Sends /\ live.started
       /\ live' = Disengaged(live) /\ pump' = "cancelling" /\ UNCHANGED <<vend, wire>>

\* disengage, after the truncation was sent.
cancel_cut_reply ==
    /\ pump = "cancelling" /\ pump' = "idle"
    /\ IF Sends THEN cancel_response(live)
                ELSE live' = _on_live_failed(live) /\ UNCHANGED <<vend, wire>>
    /\ UNCHANGED <<session_at, narr, vad, reader_at, trace>>

\* narration_delivered
narration_delivered(n) ==
    /\ Frame
    /\ narr' = start(deliver(narr, n))
    /\ UNCHANGED <<session_at, vad, live, vend, wire, pump, reader_at, trace>>

\* narration_paused
narration_paused(pos) ==
    /\ Frame /\ narr' = pause(Positioned(narr, pos))
    /\ UNCHANGED <<session_at, vad, live, vend, wire, pump, reader_at, trace>>

\* narration_resumed: the clock restarts, and an open floor is closed.  A reply
\* owed to a typed question, with no floor open, is not cancelled.
narration_resumed_gate_open(pos) ==
    /\ Frame /\ narr' = start(Positioned(narr, pos))
    /\ trace' = [trace EXCEPT !.narrating = TRUE]
    /\ UNCHANGED <<session_at, vad, live, vend, wire, pump, reader_at>>
narration_resumed(pos) ==
    /\ Frame /\ narr' = start(Positioned(narr, pos))
    /\ trace' = [trace EXCEPT !.narrating = TRUE]
    /\ IF _live_channel /\ live.active
       THEN disengage ELSE UNCHANGED <<live, vend, wire, pump>>
    /\ UNCHANGED <<session_at, vad, reader_at>>

\* playback_position; provider_position is recorded as drift and moves nothing.
client_reported_position(pos) ==
    /\ Frame /\ narr' = seek(narr, pos)
    /\ UNCHANGED <<session_at, vad, live, vend, wire, pump, reader_at, trace>>

\* respond_to_text: a typed question goes down the live channel, which then owes
\* a reply without opening the microphone; the guard stands down.  With no
\* channel the text arm answers and nothing of the floor changes.
respond_to_text(opens) ==
    LET l == _reopen_if_dropped(opens)
    IN  /\ Frame
        /\ IF Reopens THEN wire' = <<>> /\ reader_at' = "idle" ELSE UNCHANGED <<wire, reader_at>>
        /\ \/ /\ l.there = "up" /\ (Sends \/ Reopens)
              /\ live' = [l EXCEPT !.owed = TRUE, !.asked = TRUE, !.started = FALSE,
                                   !.guard = FALSE, !.inflight = TRUE]
              /\ vend' = [(IF Reopens THEN Vendor ELSE vend) EXCEPT !.answering = TRUE]
           \/ /\ l.there = "up" /\ ~ (Sends \/ Reopens)
              /\ live' = _on_live_failed(l) /\ UNCHANGED vend
           \/ /\ l.there # "up"
              /\ live' = l /\ UNCHANGED vend
        /\ trace.turns < MaxTurns /\ trace' = [trace EXCEPT !.turns = @ + 1]
        /\ UNCHANGED <<session_at, narr, vad, pump>>

(***************************************************************************)
(* The guard                                                               *)
(***************************************************************************)

\* _close_floor_if_silent: the timeout of the floor nobody spoke into.
_close_floor_if_silent ==
    /\ session_at = "open" /\ live.guard
    /\ IF live.active /\ ~ live.spoke /\ ~ live.started
       THEN IF Sends THEN cancel_response(Disengaged(live))
                     ELSE live' = Disengaged(live) /\ UNCHANGED <<vend, wire>>
       ELSE live' = [live EXCEPT !.guard = FALSE] /\ UNCHANGED <<vend, wire>>
    /\ UNCHANGED <<session_at, narr, vad, pump, reader_at, trace>>

(***************************************************************************)
(* The reader: vendor events to session events                             *)
(***************************************************************************)

Reads(event) ==
    /\ session_at = "open" /\ _live_channel /\ reader_at = "idle" /\ wire # <<>>
    /\ Head(wire) = event /\ wire' = Tail(wire)
    /\ UNCHANGED <<session_at, narr, vad, pump>>

\* SpeechStarted: not a barge-in.  Talking over a reply cuts it, which is a send.
on_speech_started ==
    /\ Reads("started")
    /\ live' = IF live.started /\ ~ Sends THEN _end(live)
               ELSE [live EXCEPT !.spoke = TRUE, !.talking = TRUE, !.guard = FALSE,
                                 !.started = FALSE]
    /\ UNCHANGED <<vend, reader_at, trace>>

\* SpeechStopped
on_speech_stopped ==
    /\ Reads("stopped") /\ live' = [live EXCEPT !.talking = FALSE]
    /\ UNCHANGED <<vend, reader_at, trace>>

\* response.created is kept by the conversation and shown to no one.
on_created ==
    /\ Reads("created") /\ live' = [live EXCEPT !.inflight = TRUE]
    /\ UNCHANGED <<vend, reader_at, trace>>

\* AssistantAudio: dropped unless a reply is owed, otherwise to the listener.
on_audio_any ==
    /\ Reads("audio") /\ live' = [live EXCEPT !.started = TRUE]
    /\ trace' = [trace EXCEPT !.over = @ \/ (trace.narrating /\ ~ live.asked)]
    /\ UNCHANGED <<vend, reader_at>>
on_audio ==
    /\ Reads("audio")
    /\ \/ /\ ~ live.owed /\ UNCHANGED <<live, trace>>
       \/ /\ live.owed
          /\ live' = [live EXCEPT !.started = TRUE]
          /\ trace' = [trace EXCEPT !.over = @ \/ (trace.narrating /\ ~ live.asked)]
    /\ UNCHANGED <<vend, reader_at>>

\* ToolCallRequested: the reader waits for the tool.
on_tool_call ==
    /\ Reads("tool")
    /\ live' = [live EXCEPT !.follow = TRUE, !.tools = 1] /\ reader_at' = "tool"
    /\ UNCHANGED <<vend, trace>>

\* tool_output: the result goes back and the vendor is asked to go on.
tool_output ==
    /\ session_at = "open" /\ reader_at = "tool" /\ reader_at' = "idle"
    /\ live' = IF Sends THEN [live EXCEPT !.tools = 0, !.inflight = TRUE] ELSE _end(live)
    /\ vend' = [vend EXCEPT !.answering = @ \/ Sends]
    /\ UNCHANGED <<session_at, narr, vad, wire, pump, trace>>

\* TurnDone: a response that called a tool does not end the turn, nor does one
\* that was cut off; any other closes the gate.
on_turn_done(cancelled) ==
    LET calling == live.tools > 0 \/ live.follow
        l == [live EXCEPT !.inflight = FALSE, !.follow = FALSE]
    IN  /\ Reads(IF cancelled THEN "cancelled" ELSE "done")
        /\ live' = IF cancelled \/ calling \/ live.talking \/ ~ live.owed THEN l
                   ELSE [l EXCEPT !.active = FALSE, !.owed = FALSE, !.guard = FALSE,
                                  !.started = FALSE]
        /\ UNCHANGED <<vend, reader_at, trace>>

\* The stream is over: _read calls _end.
stream_ends ==
    /\ session_at = "open" /\ _live_channel /\ reader_at = "idle" /\ wire = <<>> /\ ~ Sends
    /\ live' = _end(live)
    /\ UNCHANGED <<session_at, narr, vad, vend, wire, pump, reader_at, trace>>

(***************************************************************************)
(* The vendor (external)                                                   *)
(***************************************************************************)

VendorSays(events) ==
    /\ session_at = "open" /\ Sends /\ Len(wire) < MaxStream
    /\ wire' = wire \o events
    /\ UNCHANGED <<session_at, narr, vad, live, pump, reader_at, trace>>

\* Its VAD hears speech, which cuts off a reply it was giving.
vendor_speech_starts ==
    /\ vend.hears /\ ~ vend.speech
    /\ VendorSays(<<"started">> \o IF vend.answering THEN <<"cancelled">> ELSE <<>>)
    /\ vend' = [vend EXCEPT !.speech = TRUE, !.answering = FALSE]

\* It decides the utterance ended, and starts to answer.
vendor_speech_ends ==
    /\ vend.speech
    /\ VendorSays(<<"stopped", "created">>)
    /\ vend' = [vend EXCEPT !.speech = FALSE, !.hears = FALSE, !.answering = TRUE]

\* It speaks, calls a tool, or finishes.
vendor_answers ==
    /\ vend.answering
    /\ \/ VendorSays(<<"audio">>) /\ UNCHANGED vend
       \/ VendorSays(<<"tool", "done">>) /\ vend' = [vend EXCEPT !.answering = FALSE]
       \/ VendorSays(<<"done">>) /\ vend' = [vend EXCEPT !.answering = FALSE]

\* Its socket drops, for a reason a reconnect may or may not fix.
vendor_drops ==
    /\ session_at = "open" /\ Sends
    /\ \E why \in {"down", "refused"} : vend' = [Vendor EXCEPT !.up = why]
    /\ UNCHANGED <<session_at, narr, vad, live, wire, pump, reader_at, trace>>

(***************************************************************************)
(* The specification                                                       *)
(***************************************************************************)

ClientFrame ==
    \/ \E q, o \in BOOLEAN : receive_audio(q, o)
    \/ \E o \in BOOLEAN : client_barge_in(o) \/ respond_to_text(o)
    \/ \E n \in 1..MaxPos : narration_delivered(n)
    \/ \E p \in (0..MaxPos) \cup {None} : narration_paused(p) \/ narration_resumed(p)
    \/ \E p \in 0..MaxPos : client_reported_position(p)

Reader ==
    \/ on_speech_started \/ on_speech_stopped \/ on_created \/ on_audio \/ on_tool_call
    \/ tool_output \/ stream_ends
    \/ \E c \in BOOLEAN : on_turn_done(c)

VoiceNext ==
    \/ \E a \in BOOLEAN : start_session(a)
    \/ \E c \in SUBSET {"signed", "alive", "same config", "this session"},
          o \in BOOLEAN, p \in {0, MaxPos} : _authenticate(c, o, p)
    \/ ClientFrame \/ engage \/ forward_packet \/ cancel_cut_reply
    \/ _close_floor_if_silent \/ Reader
    \/ vendor_speech_starts \/ vendor_speech_ends \/ vendor_answers \/ vendor_drops
    \/ _settle \/ refractory_over \/ close_session

VoiceSpec == VoiceInit /\ [][VoiceNext]_voiceVars

(***************************************************************************)
(* Properties                                                              *)
(***************************************************************************)

\* The spend gate: once the client said narration plays again, and until the
\* next barge-in, listener audio does not go to the vendor, and no reply talks
\* over the narration but one owed to a typed question.
SpendGate ==
    /\ (trace.narrating /\ pump = "idle" /\ _live_channel) => ~ live.active
    /\ ~ trace.over

\* A floor nobody has spoken into, typed over or been answered on has its guard
\* armed, so noise cannot leave the microphone streaming to a billed socket.
SilentFloorIsGuarded ==
    (_live_channel /\ live.active /\ ~ live.spoke /\ ~ live.started /\ ~ live.asked)
        => live.guard

\* The vendor never hears the listener before it was told the position at which
\* the clock froze for this interruption.
VendorIsPlaced == ~ trace.blind

\* What the live bridge promises across its three coroutines and the vendor.
FloorIsKept == SpendGate /\ SilentFloorIsGuarded /\ VendorIsPlaced

=============================================================================
