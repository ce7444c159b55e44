----------------------------- MODULE Listening ------------------------------
(***************************************************************************)
(* From the backlog to the ear and back: which stories an episode is made  *)
(* of, how the duration cap trims it, and how the positions that players   *)
(* report mark stories read.                                               *)
(* db/src/motet_db/phase2.py, repo.py and rules.py, handlers.py of         *)
(* motet_workers, api/src/motet_api/main.py.                               *)
(*                                                                         *)
(* A report is a request of one of several players; nothing orders them,   *)
(* and any may be lost or sent twice.  Neither a report nor a mark asks    *)
(* for an episode's state: one that comes while the episode is being made, *)
(* or after it failed, is measured against the segments of that moment.    *)
(* The stages' retries are module EpisodePipeline's.                       *)
(***************************************************************************)
EXTENDS Base, Integers, FiniteSets, Sequences, SequencesExt

CONSTANTS
    Stories,      \* the backlog, a set of numbers in created_at order
    Fresh,        \* those inside the window of a rule that has one
    Episodes,     \* episodes made
    Lengths,      \* lengths a segment may be estimated at or measured to have
    Cap,          \* max_duration_ms
    MaxItems,     \* MAX_ITEMS of a rule
    MaxListen         \* the largest position reported (bound)

ASSUME ListeningAssumption == /\ Stories \subseteq Nat /\ IsFiniteSet(Stories)
                              /\ Fresh \subseteq Stories
                              /\ Lengths \subseteq Nat
                              /\ Cap \in Nat /\ MaxItems \in Nat \ {0}
                              /\ MaxListen \in Nat

VARIABLES
    item,      \* the stories: read, and how many sources
    ep,        \* the episodes: state, rule, keep_in_backlog, segments, position
    heard      \* history: the furthest report; what came once an episode's segments were
               \* final, a report or a mark; the stories a report or a mark found passed
               \* before that; and the stories the owner last marked read, or unread
               \* since, by hand

listeningVars == <<item, ep, heard>>

NoEpisode == [st |-> "none", rule |-> None, keep |-> FALSE, segs |-> <<>>, pos |-> 0]

ListeningInit ==
    /\ item = [s \in Stories |-> [read |-> FALSE, n |-> s]]
    /\ ep = [e \in Episodes |-> NoEpisode]
    /\ heard = [through |-> [e \in Episodes |-> 0],
                final |-> [e \in Episodes |-> "nothing"],
                early |-> {}, hand |-> {}, undone |-> {}]

EpisodeStates == {"none", "pending", "scripting", "rendering", "ready", "failed"}

ListeningTypeOK ==
    /\ \A e \in Episodes : /\ ep[e].st \in EpisodeStates
                           /\ ep[e].keep \in BOOLEAN /\ ep[e].pos \in Nat
                           /\ \A k \in 1..Len(ep[e].segs) :
                                  ep[e].segs[k] \in [story : Stories, dur : Lengths]
    /\ \A e \in Episodes : heard.final[e] \in {"nothing", "report", "mark"}
    /\ heard.early \subseteq Stories
    /\ heard.hand \subseteq Stories /\ heard.undone \subseteq Stories

(***************************************************************************)
(* Choosing                                                                *)
(***************************************************************************)

\* SmartRule.manual, SmartRule.picked and a rule read by SmartRule.from_json
manual == [unread |-> TRUE, windowed |-> FALSE, only |-> {}, rank |-> "oldest",
           max |-> MaxItems]
picked(ids) == [unread |-> FALSE, windowed |-> FALSE, only |-> ids, rank |-> "oldest",
                max |-> Cardinality(ids)]
from_json(unread, rank, max) ==
    [unread |-> unread, windowed |-> TRUE, only |-> {}, rank |-> rank, max |-> max]

\* What each ranking puts first
Before(rank, a, b) ==
    CASE rank = "oldest" -> a < b
      [] rank = "newest" -> a > b
      [] rank = "coverage" -> item[a].n > item[b].n \/ (item[a].n = item[b].n /\ a < b)

\* select_for_rule, ordered and limited
select_for_rule(rule) ==
    LET match == {s \in Stories : /\ rule.unread => ~ item[s].read
                                  /\ rule.windowed => s \in Fresh
                                  /\ rule.only # {} => s \in rule.only}
        place(s) == Cardinality({m \in match : Before(rule.rank, m, s)}) + 1
        found == Cardinality(match)
    IN  [k \in 1..(IF found < rule.max THEN found ELSE rule.max) |->
            CHOOSE s \in match : place(s) = k]

TotalThrough(segs, k) == Total([i \in 1..k |-> segs[i].dur])

\* The cap, the same in handle_assemble and in _within_cap: the first segment always
\* fits, and the first that does not ends the episode.
_within_cap(segs) ==
    LET fits == {k \in 1..Len(segs) : \A j \in 2..k : TotalThrough(segs, j) <= Cap}
    IN  SubSeq(segs, 1, Cardinality(fits))

\* A length for each of n segments
Measures(n) == [1..n -> Lengths]
Segments(stories, dur) == [k \in 1..Len(stories) |-> [story |-> stories[k], dur |-> dur[k]]]

(***************************************************************************)
(* Making an episode                                                       *)
(***************************************************************************)

\* enqueue_episode and enqueue_smart_episode; news_items_owned is met by Stories.
make_episode(e, rule, keep) ==
    /\ ep[e].st = "none"
    /\ ep' = [ep EXCEPT ![e].st = "pending", ![e].rule = rule, ![e].keep = keep]
    /\ UNCHANGED <<item, heard>>

\* episode_failed, when a stage gave up: the state and nothing else, so segments and
\* position stay.  Nothing reads the rule again, here and below, so it is forgotten.
episode_failed(e) ==
    /\ ep[e].st \in {"pending", "scripting", "rendering"}
    /\ ep' = [ep EXCEPT ![e].st = "failed", ![e].rule = None]
    /\ UNCHANGED <<item, heard>>

\* handle_assemble: a rule that matches nothing leaves only the failure.  The lengths
\* are estimates, and they are committed.
choose_stories(e) ==
    LET stories == select_for_rule(ep[e].rule)
    IN  /\ ep[e].st = "pending"
        /\ stories # <<>>
        /\ \E dur \in Measures(Len(stories)) :
               ep' = [ep EXCEPT ![e].st = "scripting",
                                ![e].rule = None,
                                ![e].segs = _within_cap(Segments(stories, dur))]
        /\ UNCHANGED <<item, heard>>

\* ClaudeScriptGenerator.generate: segments for some of the episode's stories, one
\* each, in the order the model wrote them
generate(segs) == SetToAllKPermutations({segs[k].story : k \in 1..Len(segs)})

\* What handle_script makes of them: the copy's own lengths, and the cap applied
Scripts(segs) ==
    UNION {{_within_cap(Segments(written, dur)) : dur \in Measures(Len(written))} :
               written \in generate(segs)}

\* handle_script: replace_segments, in place of the ones assembled
handle_script(e, written) ==
    /\ ep[e].st = "scripting"
    /\ written # <<>>
    /\ ep' = [ep EXCEPT ![e].st = "rendering", ![e].segs = written]
    /\ UNCHANGED <<item, heard>>

\* handle_tts measures the audio: set_segment_durations and publish_episode
handle_tts(e, audio) ==
    /\ ep[e].st = "rendering"
    /\ ep' = [ep EXCEPT ![e].st = "ready",
                        ![e].segs = [k \in 1..Len(ep[e].segs) |->
                                        [ep[e].segs[k] EXCEPT !.dur = audio[k]]]]
    /\ UNCHANGED <<item, heard>>

(***************************************************************************)
(* Read state                                                              *)
(***************************************************************************)

mark_news_items_read(S) == [s \in Stories |-> [item[s] EXCEPT !.read = @ \/ s \in S]]

\* The stories whose segment ends at or before a position
Passed_at_start(segs, pos) ==
    {segs[k].story : k \in {j \in 1..Len(segs) : segs[j].dur > 0 /\ TotalThrough(segs, j - 1) <= pos}}
Passed(segs, pos) ==
    {segs[k].story : k \in {j \in 1..Len(segs) : segs[j].dur > 0 /\ TotalThrough(segs, j) <= pos}}

Furthest_reported(pos, ms) == ms
Furthest(pos, ms) == IF ms > pos THEN ms ELSE pos

\* Nothing replaces the segments of an episode any more.
SegmentsFinal(e) == ep[e].st \in {"ready", "failed"}
Counts(e) == SegmentsFinal(e) /\ ~ ep[e].keep

\* The stories segments are about, and those of a segment heard to its end at a position
Holds(segs) == {s \in Stories : \E k \in 1..Len(segs) : segs[k].story = s}
Ended(segs, ms) ==
    {s \in Stories : \E k \in 1..Len(segs) :
        segs[k].story = s /\ segs[k].dur > 0 /\ ms >= TotalThrough(segs, k)}

\* record_listen_progress
record_listen_progress(e, ms) ==
    LET pos == Furthest(ep[e].pos, ms)
        passed == IF ep[e].keep THEN {} ELSE Passed(ep[e].segs, pos)
        furthest == IF ms > heard.through[e] THEN ms ELSE heard.through[e]
    IN  /\ ep[e].st # "none"
        /\ ep' = [ep EXCEPT ![e].pos = pos]
        /\ item' = mark_news_items_read(passed)
        /\ heard' = [heard EXCEPT
                        !.through[e] = furthest,
                        !.final[e] = IF Counts(e) /\ @ = "nothing" THEN "report" ELSE @,
                        !.early = IF SegmentsFinal(e) \/ ep[e].keep THEN @
                                  ELSE @ \cup (Ended(ep[e].segs, furthest) \ heard.hand),
                        !.undone = @ \ passed]

\* mark_episode_listened
Whole_kept_too(e) == {ep[e].segs[k].story : k \in 1..Len(ep[e].segs)}
Whole(e) == IF ep[e].keep THEN {} ELSE {ep[e].segs[k].story : k \in 1..Len(ep[e].segs)}
mark_episode_listened(e) ==
    /\ ep[e].st # "none"
    /\ item' = mark_news_items_read(Whole(e))
    /\ heard' = [heard EXCEPT
                    !.final[e] = IF Counts(e) THEN "mark" ELSE @,
                    !.early = IF SegmentsFinal(e) \/ ep[e].keep THEN @
                              ELSE @ \cup (Holds(ep[e].segs) \ heard.hand),
                    !.undone = @ \ Whole(e)]
    /\ UNCHANGED ep

\* set_news_item_read
set_news_item_read(s, read) ==
    /\ item' = [item EXCEPT ![s].read = read]
    /\ heard' = [heard EXCEPT !.early = @ \ {s},
                              !.hand = IF read THEN @ \cup {s} ELSE @ \ {s},
                              !.undone = IF read THEN @ \ {s} ELSE @ \cup {s}]
    /\ UNCHANGED ep

ListeningRules == {manual} \cup {picked(ids) : ids \in SUBSET Stories \ {{}}}
                  \cup {from_json(TRUE, "newest", 1), from_json(FALSE, "coverage", MaxItems)}

ListeningNext ==
    \/ \E e \in Episodes :
           \/ \E rule \in ListeningRules, keep \in BOOLEAN : make_episode(e, rule, keep)
           \/ choose_stories(e)
           \/ ep[e].st = "scripting"
                  /\ \E written \in Scripts(ep[e].segs) : handle_script(e, written)
           \/ \E audio \in Measures(Len(ep[e].segs)) : handle_tts(e, audio)
           \/ episode_failed(e)
           \/ \E ms \in 0..MaxListen : record_listen_progress(e, ms)
           \/ mark_episode_listened(e)
    \/ \E s \in Stories, read \in BOOLEAN : set_news_item_read(s, read)

ListeningSpec == ListeningInit /\ [][ListeningNext]_listeningVars

(***************************************************************************)
(* Properties                                                              *)
(***************************************************************************)

\* A story is read for what was heard of an episode whose segments are final.
EarnedIn(e, s) ==
    /\ Counts(e)
    /\ \/ heard.final[e] = "report" /\ s \in Ended(ep[e].segs, heard.through[e])
       \/ heard.final[e] = "mark" /\ s \in Holds(ep[e].segs)

\* Whatever order the players' reports arrive in: an episode resumes where the
\* furthest of them got.  Once its segments are final and a report has come, every
\* story whose segment was passed is read, unless the owner took that back since.  And
\* a story is read only for a reason: by hand, a whole episode marked, its segment
\* passed, or found passed by a report or a mark that came while its episode was being
\* made; never in an episode made to leave the backlog alone.
ReadStateIsEarned ==
    /\ \A e \in Episodes : ep[e].pos = heard.through[e]
    /\ \A e \in Episodes, s \in Stories :
           /\ Counts(e) /\ heard.final[e] # "nothing"
           /\ s \in Ended(ep[e].segs, heard.through[e])
           => item[s].read \/ s \in heard.undone
    /\ \A s \in Stories : item[s].read =>
           s \in heard.hand \cup heard.early \/ \E e \in Episodes : EarnedIn(e, s)

=============================================================================
