------------------------------ MODULE Serving -------------------------------
(***************************************************************************)
(* What a player is served of a finished episode: byte ranges of its       *)
(* audio, the times its claims, captions and chapters carry, and the       *)
(* passages the listener saves.                                            *)
(* api/src/motet_api/main.py and shownotes.py, handlers.py of              *)
(* motet_workers, db/src/motet_db/phase2.py.                               *)
(*                                                                         *)
(* The algorithms are operators.  A step answers one request with inputs   *)
(* of its own and leaves both in `answered`, where the properties compare  *)
(* them with a reference definition; the behaviour ends there.  Text is    *)
(* its length.                                                             *)
(***************************************************************************)
EXTENDS Base, FiniteSets

CONSTANTS
    MaxBytes,     \* the longest body (bound)
    MaxMs,        \* the longest segment, in milliseconds (bound)
    MaxChars,     \* the longest claim or word (bound)
    MaxParts,     \* claims of a segment, words of a claim (bound)
    MaxCue,       \* MAX_CUE_CHARS
    Passages      \* source items of the story and of another, with their lengths

ASSUME ServingAssumption ==
    /\ {MaxBytes, MaxMs, MaxChars, MaxParts, MaxCue} \subseteq Nat
    /\ \A p \in Passages : p.length \in Nat

VARIABLES
    answered,     \* the last request and what it was answered
    saved       \* the highlights

servingVars == <<answered, saved>>

ServingInit == answered = None /\ saved = {}

ServingTypeOK ==
    /\ answered = None \/ answered.of \in {"range", "claims", "cues"}
    /\ \A h \in saved : h.start \in Nat /\ h.end \in Nat /\ h.note \in BOOLEAN

(***************************************************************************)
(* Byte ranges                                                             *)
(***************************************************************************)

\* A Range header: a first and a last byte, either left out.  -1 is a missing one.
Offsets == -1..(MaxBytes + 1)

\* _byte_range_response.  No header, or one that is no range, is the whole body.
_byte_range_response_unclamped(total, first, last) ==
    IF (first = -1 /\ last = -1) \/ (first # -1 /\ last # -1 /\ last < first)
    THEN [status |-> 200, start |-> 0, end |-> total - 1]
    ELSE LET start == IF first # -1 THEN first ELSE IF total > last THEN total - last ELSE 0
             end == IF first # -1 /\ last # -1 THEN last ELSE total - 1
         IN  IF start >= total \/ end < start THEN [status |-> 416, start |-> 0, end |-> -1]
             ELSE [status |-> 206, start |-> start, end |-> end]
_byte_range_response(total, first, last) ==
    IF (first = -1 /\ last = -1) \/ (first # -1 /\ last # -1 /\ last < first)
    THEN [status |-> 200, start |-> 0, end |-> total - 1]
    ELSE LET start == IF first # -1 THEN first ELSE IF total > last THEN total - last ELSE 0
             end == IF first # -1 /\ last # -1 /\ last < total - 1 THEN last ELSE total - 1
         IN  IF start >= total \/ end < start THEN [status |-> 416, start |-> 0, end |-> -1]
             ELSE [status |-> 206, start |-> start, end |-> end]

\* _audio_present: a store that cannot answer counts as having the object.
_audio_present(store) == store # "gone"

\* episode_audio
episode_audio(store, total, first, last) ==
    /\ _audio_present(store)
    /\ answered' = [of |-> "range", total |-> total, first |-> first, last |-> last,
                  got |-> IF store = "signs" THEN [status |-> 307, start |-> 0, end |-> -1]
                          ELSE _byte_range_response(total, first, last)]
    /\ UNCHANGED saved

(***************************************************************************)
(* Times                                                                   *)
(***************************************************************************)

\* Python's round of a quotient: a half goes to the even neighbour.
Round(n, d) ==
    LET q == n \div d
        r == n % d
    IN  IF 2 * r < d \/ (2 * r = d /\ q % 2 = 0) THEN q ELSE q + 1

\* A duration spread over weights: each gets its rounded share, the last the rest.
Spread_all_rounded(duration, weights) ==
    [k \in 1..Len(weights) |-> Round(duration * weights[k], Total(weights))]
Spread(duration, weights) ==
    LET share(k) == Round(duration * weights[k], Total(weights))
        before == Total([k \in 1..(Len(weights) - 1) |-> share(k)])
    IN  [k \in 1..Len(weights) |->
            IF k < Len(weights) THEN share(k)
            ELSE IF duration > before THEN duration - before ELSE 0]

\* apportion_claim_timings for one segment; an empty claim weighs one character.
apportion_claim_timings(duration, texts) ==
    /\ answered' = [of |-> "claims", duration |-> duration,
                  weights |-> [k \in 1..Len(texts) |-> IF texts[k] = 0 THEN 1 ELSE texts[k]],
                  spans |-> Spread(duration, [k \in 1..Len(texts) |->
                                                 IF texts[k] = 0 THEN 1 ELSE texts[k]])]
    /\ UNCHANGED saved

\* _split_cue: a word joins the cue it still fits in, or begins the next.
Pack(cues, w) ==
    IF cues.current # 0 /\ cues.current + 1 + w > MaxCue
    THEN [done |-> Append(cues.done, cues.current), current |-> w]
    ELSE [done |-> cues.done, current |-> IF cues.current = 0 THEN w ELSE cues.current + 1 + w]
Chunks(words) ==
    LET packed[k \in 0..Len(words)] ==
            IF k = 0 THEN [done |-> <<>>, current |-> 0] ELSE Pack(packed[k - 1], words[k])
        last == packed[Len(words)]
    IN  IF last.current = 0 THEN last.done ELSE Append(last.done, last.current)

\* _cues and _split_cue for one claim that has a duration and some text
_split_cue(duration, words) ==
    /\ duration > 0
    /\ answered' = [of |-> "cues", duration |-> duration, weights |-> Chunks(words),
                  words |-> words, spans |-> Spread(duration, Chunks(words))]
    /\ UNCHANGED saved

(***************************************************************************)
(* Highlights                                                              *)
(***************************************************************************)

\* save_highlight: the quote is the source's text at the span, and the story the one
\* the source belongs to.  The same span again keeps its note unless given another.
Resolves(p, start, end) == 0 <= start /\ start < end /\ end <= p.length

save_highlight(p, story, start, end, note) ==
    LET held == {h \in saved : h.passage = p /\ h.start = start /\ h.end = end}
    IN  /\ story = p.story /\ Resolves(p, start, end)
        /\ saved' = (saved \ held) \cup
               {[passage |-> p, start |-> start, end |-> end, story |-> p.story,
                 note |-> note \/ \E h \in held : h.note]}
        /\ UNCHANGED answered

delete_highlight(h) == saved' = saved \ {h} /\ UNCHANGED answered

ServingNext ==
  /\ answered = None
  /\ \/ \E store \in {"signs", "serves", "unanswerable"}, total \in 0..MaxBytes,
           first, last \in Offsets : episode_audio(store, total, first, last)
     \/ \E duration \in 0..MaxMs, n \in 1..MaxParts :
            \E lengths \in [1..n -> 0..MaxChars] : apportion_claim_timings(duration, lengths)
     \/ \E duration \in 0..MaxMs, n \in 1..MaxParts :
            \E words \in [1..n -> 1..MaxChars] : _split_cue(duration, words)
     \/ \E p \in Passages, story \in {q.story : q \in Passages}, start, end \in 0..2,
           note \in BOOLEAN : save_highlight(p, story, start, end, note)
     \/ \E h \in saved : delete_highlight(h)

ServingSpec == ServingInit /\ [][ServingNext]_servingVars

(***************************************************************************)
(* Properties                                                              *)
(***************************************************************************)

\* The bytes a range asks for, of a body: the reference definition
Asked(total, first, last) ==
    {b \in 0..(total - 1) :
        CASE first # -1 /\ last # -1 -> first <= b /\ b <= last
          [] first # -1 /\ last = -1 -> first <= b
          [] first = -1 /\ last # -1 -> total - last <= b}

\* A partial answer is exactly the bytes of the body that were asked for, and a
\* request for none of them is refused with 416 rather than answered empty.
RangeIsExact ==
    answered # None /\ answered.of = "range" =>
        LET got == answered.got
        IN  /\ got.status = 206 =>
                   /\ got.start..got.end = Asked(answered.total, answered.first, answered.last)
                   /\ got.start <= got.end
            /\ got.status = 416 => Asked(answered.total, answered.first, answered.last) = {}

\* The last part's share is worth at least the rounding the others may take from it.
\* Below this, parts of less than half a millisecond each, the rounded shares can add
\* up to more than the whole.
Roomy(a) == 2 * a.duration * a.weights[Len(a.weights)] >= (Len(a.weights) - 1) * Total(a.weights)

\* The claims of a segment, and the cues of a claim, follow one another without gap
\* or overlap and end exactly where the segment, or the claim, ends.
TimesTile ==
    answered # None /\ answered.of \in {"claims", "cues"} =>
        /\ \A k \in 1..Len(answered.spans) : answered.spans[k] >= 0
        /\ Roomy(answered) => Total(answered.spans) = answered.duration

\* No word of a claim is lost between cues, and a cue is too long for a line only
\* when it is a single word.
CuesKeepTheWords ==
    answered # None /\ answered.of = "cues" =>
        /\ Total(answered.weights) + Len(answered.weights) = Total(answered.words) + Len(answered.words)
        /\ \A k \in 1..Len(answered.weights) :
               answered.weights[k] <= MaxCue \/ \E w \in 1..Len(answered.words) :
                                                   answered.words[w] = answered.weights[k]

\* A player is served the bytes it asked for and times that add up, at every edge.
ServedAsAsked == RangeIsExact /\ TimesTile /\ CuesKeepTheWords

=============================================================================
