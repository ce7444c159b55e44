------------------------------- MODULE Hearing ------------------------------
(***************************************************************************)
(* Hearing the listener: the adaptive noise floor of EnergyVad, the turn   *)
(* detector that needs a run of qualifying frames outside the refractory   *)
(* window, and what was playing at the offset a turn is taken.             *)
(* voice/src/motet_voice/vad.py, bargein.py, position.py.                  *)
(*                                                                         *)
(* Levels are whole steps above the absolute floor, which is 0; a frame is *)
(* counted, not timed.  The probability a frame reaches and the SNR gate   *)
(* come to one threshold, and a frame outside the zero-crossing band keeps *)
(* a quarter of its probability, so it never reaches it.                   *)
(***************************************************************************)
EXTENDS Base, Integers, Sequences, FiniteSets

CONSTANTS
    MaxLevel,        \* the loudest frame
    UpStep,          \* up_step_db
    DownStep,        \* down_step_db
    Warmup,          \* warmup_frames
    WarmupTimes,     \* warmup_multiplier
    Threshold,       \* the SNR at which a frame qualifies
    Consecutive,     \* consecutive_speech_frames
    Refractory,      \* refractory_ms, in frames
    NeedsNarration,  \* require_narration_playing
    Transcripts      \* each a sequence of segments, each a sequence of claim lengths

ASSUME HearingAssumption ==
    /\ MaxLevel \in Nat /\ UpStep \in Nat \ {0} /\ DownStep \in Nat \ {0}
    /\ Warmup \in Nat /\ WarmupTimes \in Nat \ {0}
    /\ Threshold \in Nat /\ Consecutive \in Nat \ {0} /\ Refractory \in Nat /\ None \notin Nat
    /\ \A t \in Transcripts : t \in Seq(Seq(Nat)) /\ t # <<>>

VARIABLES
    floor,     \* _floor_dbfs: None before the first frame that is not silent
    warm,      \* _seen, as far as the warm-up counts
    turn,      \* _run (as far as it is compared) and frames since _last_fired_ms
    decided,   \* the decision the last frame produced, if it did
    steady,    \* how long the level has not changed, and how long it has been quiet
    playing_at \* a transcript, and the offset a turn was taken at

hearVars == <<floor, warm, turn, decided, steady, playing_at>>

\* Frames, at one step each; none where no level can stand out
SettleTime == IF Threshold > MaxLevel THEN 0 ELSE MaxLevel - Threshold + 1
QuietTime == (MaxLevel + UpStep * WarmupTimes) \div DownStep + 1

\* A frame: exact zeros; above zero and below the absolute floor; or a level
Frames == {[kind |-> "silent", level |-> 0], [kind |-> "quiet", level |-> 0]}
            \cup [kind : {"heard"}, level : 0..MaxLevel]

HearInit ==
    /\ floor = None /\ warm = 0
    /\ turn = [run |-> 0, since |-> None]
    /\ decided = None
    /\ steady = [level |-> 0, for |-> 0, quiet |-> 0]
    /\ playing_at = None

HearTypeOK ==
    /\ floor \in {None} \cup 0..(MaxLevel + UpStep * WarmupTimes)
    /\ warm \in 0..Warmup /\ turn.run \in 0..Consecutive
    /\ turn.since \in {None} \cup 0..Refractory
    /\ steady.for \in 0..(SettleTime + 1) /\ steady.quiet \in 0..QuietTime

CapAt(n, bound) == IF n > bound THEN bound ELSE n

(* ------------------------------ EnergyVad ------------------------------ *)

\* The floor a frame is measured against: the first frame that is not silent seeds it
Seeded(f) == IF floor # None THEN floor
             ELSE IF f.kind = "silent" THEN None
             ELSE f.level

\* Every frame that is not silent moves the floor one bounded step; never below 0
Adapt_frozen(f, base) ==
    IF f.kind = "heard" /\ f.level - base >= Threshold THEN base
    ELSE IF base > DownStep THEN base - DownStep ELSE 0
Adapt(f, base) ==
    LET scale == IF warm < Warmup /\ f.kind = "heard" THEN WarmupTimes ELSE 1
        moved == CASE f.kind = "silent" -> base
                   [] f.kind = "heard" /\ f.level > base -> base + UpStep * scale
                   [] OTHER -> base - DownStep * scale
    IN IF moved < 0 THEN 0 ELSE moved

\* VadTurnDetector.observe: whether the frame counts towards a turn
Qualifies(f, in_band) ==
    /\ f.kind = "heard" /\ in_band
    /\ f.level - Seeded(f) >= Threshold

(* --------------------------- VadTurnDetector --------------------------- *)

Suppressed == turn.since # None /\ turn.since < Refractory
Decides(run, playing) ==
    /\ run >= Consecutive
    /\ NeedsNarration => playing
    /\ ~Suppressed

\* One frame.  The run is counted up to Consecutive, which is all it is compared with,
\* and is not cleared by firing.
hear(f, in_band, playing) ==
    LET base == Seeded(f)
        run == IF Qualifies(f, in_band) THEN CapAt(turn.run + 1, Consecutive) ELSE 0
        fires == run > 0 /\ Decides(run, playing)
    IN /\ floor' = IF base = None THEN None ELSE Adapt(f, base)
       /\ warm' = IF f.kind = "heard" THEN CapAt(warm + 1, Warmup) ELSE warm
       /\ turn' = [run |-> run,
                   since |-> IF fires THEN CapAt(1, Refractory)
                             ELSE IF turn.since = None THEN None
                             ELSE CapAt(turn.since + 1, Refractory)]
       /\ decided' = IF fires THEN [after |-> turn.since, while |-> playing,
                                    snr |-> f.level - base]
                     ELSE None
       /\ steady' = [level |-> f.level,
                     for |-> IF f.kind # "heard" THEN 0
                             ELSE IF f.level = steady.level
                             THEN CapAt(steady.for + 1, SettleTime + 1) ELSE 1,
                     quiet |-> CASE f.kind = "quiet" -> CapAt(steady.quiet + 1, QuietTime)
                                 [] f.kind = "silent" -> steady.quiet
                                 [] OTHER -> 0]
       /\ playing_at' = None

(* ------------------------------- position ------------------------------ *)

\* A transcript laid out in time: its claims in narration order, with their segment
Starts(t, k) == Total([i \in 1..(k - 1) |-> Total(t[i])])
Ends(t, k) == Starts(t, k) + Total(t[k])
ClaimStarts(t, k, c) == Starts(t, k) + Total(SubSeq(t[k], 1, c - 1))
ClaimEnds(t, k, c) == ClaimStarts(t, k, c) + t[k][c]
Later_of(m, n) == IF m > n THEN m ELSE n
Least(S) == CHOOSE n \in S : \A m \in S : n <= m

\* locate: a segment plays while start <= offset < end, and an empty one for an instant
During_closed(start, end, offset) == start <= offset /\ offset <= end
During(start, end, offset) == start <= offset /\ offset < Later_of(end, start + 1)
locate(t, offset) ==
    LET now == {k \in 1..Len(t) : During(Starts(t, k), Ends(t, k), offset)}
        seg == IF now # {} THEN Least(now)
               ELSE IF offset >= Ends(t, Len(t)) THEN Len(t) ELSE 1
        said == {c \in 1..Len(t[seg]) :
                    During(ClaimStarts(t, seg, c), ClaimEnds(t, seg, c), offset)}
    IN [segment |-> seg,
        claim |-> IF said # {} THEN Least(said)
                  ELSE IF Len(t[seg]) > 0 /\ offset >= Ends(t, seg) THEN Len(t[seg])
                  ELSE None,
        heard |-> UNION {{<<k, c>> : c \in {c \in 1..Len(t[k]) : ClaimEnds(t, k, c) <= offset}}
                             : k \in 1..Len(t)}]

\* position_notes for a turn taken at an offset of a transcript
take_turn(t, offset) ==
    /\ playing_at' = [of |-> t, offset |-> offset, is |-> locate(t, offset)]
    /\ UNCHANGED <<floor, warm, turn, decided, steady>>

\* VadTurnDetector.reset
reset_detector ==
    /\ floor' = None /\ warm' = 0 /\ turn' = [run |-> 0, since |-> None]
    /\ decided' = None /\ steady' = [steady EXCEPT !.for = 0, !.quiet = 0]
    /\ playing_at' = None

HearNext ==
    \/ \E f \in Frames, in_band \in BOOLEAN, playing \in BOOLEAN : hear(f, in_band, playing)
    \/ /\ decided # None
       /\ \E t \in Transcripts : \E offset \in 0..(Ends(t, Len(t)) + 1) : take_turn(t, offset)
    \/ reset_detector

HearSpec == HearInit /\ [][HearNext]_hearVars

(* ----------------------------- properties ------------------------------ *)

\* The floor never steps down so far that the level it follows stands out again: so with
\* the settings there are by default, though a caller may ask for as little as 0 dB.
StepsAreSmall == DownStep * WarmupTimes < Threshold

\* The detector cannot latch: whatever it heard before, a level that stays the same
\* stops counting as speech within a bounded number of frames, and a quiet microphone
\* brings a floor seeded by a voice back down to the absolute floor (vad.py observe,
\* the freeze and the browser-microphone defects its comments record).
CannotLatch ==
    /\ StepsAreSmall /\ steady.for > SettleTime => turn.run = 0
    /\ steady.quiet >= QuietTime => floor = 0

\* Turns are decided on a full run that stands out from the floor, no closer together
\* than the refractory window, and only over narration where the policy asks for it
\* (bargein.py observe, _suppressed).
TurnsAreSpaced ==
    decided # None =>
        /\ decided.after = None \/ decided.after >= Refractory
        /\ decided.snr >= Threshold
        /\ NeedsNarration => decided.while

\* What a turn is told was playing: everything called heard had ended, the claim
\* being said had not unless the episode was over or the claim takes no time, and an
\* offset on a boundary belongs to what starts there (position.py locate).
PositionIsWhatPlayed ==
    playing_at # None =>
        LET t == playing_at.of
            p == playing_at.is
            over == playing_at.offset >= Ends(t, Len(t))
        IN /\ p.claim # None /\ ~over /\ t[p.segment][p.claim] > 0 =>
                <<p.segment, p.claim>> \notin p.heard
           /\ ~over => Starts(t, p.segment) <= playing_at.offset
           /\ p.claim # None =>
                \A k \in 1..Len(t) : \A c \in 1..Len(t[k]) :
                    k < p.segment \/ (k = p.segment /\ c < p.claim) => <<k, c>> \in p.heard

HearingHolds == CannotLatch /\ TurnsAreSpaced /\ PositionIsWhatPlayed

=============================================================================
