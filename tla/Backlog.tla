------------------------------ MODULE Backlog -------------------------------
(***************************************************************************)
(* How a newly arrived source item becomes a story of the backlog or joins *)
(* one: the window it is compared with, the model's answer, the second     *)
(* look, the title backstop, and the owner marking stories read meanwhile. *)
(* workers/src/motet_workers/handlers.py, db/src/motet_db/repo.py,         *)
(* inference/src/motet_inference/adapters.py.                              *)
(*                                                                         *)
(* One integrate runs at a time: it holds the user's serialization key     *)
(* (module JobQueue).  It reads the window, waits for the model with no    *)
(* row locked, and then writes, so read state may move in between.         *)
(* A story's number is its place in created_at order.                      *)
(***************************************************************************)
EXTENDS Base, Integers, FiniteSets, Sequences, SequencesExt

CONSTANTS
    Words,         \* headlines, as they compare once case and spacing are folded
    MaxStories,    \* stories made (bound)
    WindowMax      \* WINDOW_MAX_ITEMS

ASSUME BacklogAssumption == MaxStories \in Nat /\ WindowMax \in Nat \ {0}

\* A title as written: a headline, or none, in one of two spellings.
RawTitles == [word : Words \cup {None}, loud : BOOLEAN]

\* _normalize_title: case and runs of whitespace, and nothing else
_normalize_title(t) == t.word

VARIABLES
    story,     \* the stories: read, title, and whether made within WINDOW_DAYS
    think,     \* the integrate waiting for its model: the window as it was read
    last,      \* history: where the integrate that landed in this step put its item
    twins      \* history: headlines two unread stories may share, see Excused

backlogVars == <<story, think, last, twins>>

BacklogInit == story = <<>> /\ think = None /\ last = None /\ twins = {}

BacklogTypeOK ==
    /\ Len(story) <= MaxStories
    /\ \A i \in 1..Len(story) : story[i] \in [read : BOOLEAN, recent : BOOLEAN,
                                              title : RawTitles]
    /\ think = None \/ think.window \subseteq 1..Len(story)
    /\ twins \subseteq Words

(***************************************************************************)
(* The window                                                              *)
(***************************************************************************)

InWindow(i) == ~ story[i].read \/ story[i].recent

\* news_item_window: everything unread or recent, and of those the newest
news_item_window ==
    {i \in 1..Len(story) : /\ InWindow(i)
                           /\ Cardinality({j \in (i + 1)..Len(story) : InWindow(j)})
                                  < WindowMax}

\* handle_integrate, up to the model: the rows are read once.
begin_integrate ==
    /\ think = None
    /\ think' = [window |-> news_item_window, rows |-> story]
    /\ last' = None
    /\ UNCHANGED <<story, twins>>

(***************************************************************************)
(* The model's answer                                                      *)
(***************************************************************************)

Relations == {"same_event", "related", "unrelated", "garbled"}

\* What the first pass may answer, the item's own title, and the second look
Answers == [relation : Relations, named : 0..MaxStories, title : RawTitles,
            own : {t \in RawTitles : ~ t.loud}, again : {"same", "different", "failed"}]

\* _is_same_event: every failure of the second look answers no.
_is_same_event(a) == a.again = "same"

\* ClaudeIntegrator._merged
_merged(i, title) == [merged |-> TRUE, into |-> i, title |-> title]

Titled(title, fallback) == IF title.word = None THEN fallback ELSE title

\* ClaudeIntegrator.integrate over the window's rows.  A story outside the window
\* is no candidate, and a relation outside the schema counts as related.
integrate(a) ==
    LET candidate == a.named \in think.window
        related == a.relation \in {"related", "garbled"}
    IN  IF a.relation = "same_event" /\ candidate
        THEN _merged(a.named, Titled(a.title, think.rows[a.named].title))
        ELSE IF related /\ candidate /\ _is_same_event(a)
        THEN _merged(a.named, think.rows[a.named].title)
        ELSE [merged |-> FALSE, into |-> 0, title |-> Titled(a.title, a.own)]

\* _merge_target: a new story under the title of an unread one of the window is
\* a merge that keeps the stored title.
Twin_raw(title) ==
    {i \in think.window : ~ think.rows[i].read /\ title.word # None
                          /\ think.rows[i].title = title}
Twin(title) ==
    {i \in think.window : ~ think.rows[i].read /\ title.word # None
                          /\ _normalize_title(think.rows[i].title) = _normalize_title(title)}

FirstOf(S) == CHOOSE i \in S : \A j \in S : i <= j

_merge_target_any_read(r) ==
    LET all == {i \in think.window : r.title.word # None
                       /\ _normalize_title(think.rows[i].title) = _normalize_title(r.title)}
    IN  IF r.merged \/ all = {} THEN r
        ELSE [r EXCEPT !.into = FirstOf(all), !.title = think.rows[FirstOf(all)].title]
_merge_target(r) ==
    IF r.merged \/ Twin(r.title) = {} THEN r
    ELSE [r EXCEPT !.into = FirstOf(Twin(r.title)),
                   !.title = think.rows[FirstOf(Twin(r.title))].title]

(***************************************************************************)
(* Writing it down                                                         *)
(***************************************************************************)

\* merge_source_into_news_item, insert_news_item
merge_source_into_news_item(i, title) == [story EXCEPT ![i].title = title]
insert_news_item(title) ==
    Append(story, [read |-> FALSE, recent |-> TRUE, title |-> title])

\* Headlines that may be carried twice after this landing: the model gave a story
\* another's title, or the older story has a windowful of newer ones.
Excused(t) ==
    IF t.into # 0 THEN (IF t.merged THEN {t.title.word} \ {None} ELSE {})
    ELSE {w \in Words : w = t.title.word /\
             \E i \in 1..Len(think.rows) :
                 /\ think.rows[i].title.word = w /\ ~ think.rows[i].read
                 /\ Len(think.rows) - i >= WindowMax}

\* handle_integrate, from the model's answer to the commit
handle_integrate(result) ==
    LET t == _merge_target(result)
    IN  /\ think # None
        /\ \/ /\ t.into # 0
              /\ story' = merge_source_into_news_item(t.into, t.title)
              /\ last' = [into |-> t.into, judged |-> t.merged,
                          stale |-> story[t.into].read # think.rows[t.into].read]
           \/ /\ t.into = 0 /\ Len(story) < MaxStories
              /\ story' = insert_news_item(t.title)
              /\ last' = [into |-> Len(story) + 1, judged |-> FALSE, stale |-> FALSE]
        /\ twins' = twins \cup Excused(t)
        /\ think' = None

\* The model failed: the transaction is rolled back and the job retried.
integrate_fails ==
    /\ think # None /\ think' = None /\ last' = None
    /\ UNCHANGED <<story, twins>>

(***************************************************************************)
(* Read state, and time                                                    *)
(***************************************************************************)

\* set_news_item_read; a story marked unread may meet one that took its title.
set_backlog_item_read(i, read) ==
    /\ story[i].read # read
    /\ story' = [story EXCEPT ![i].read = read]
    /\ twins' = IF read THEN twins ELSE twins \cup ({story[i].title.word} \ {None})
    /\ last' = None
    /\ UNCHANGED think

\* A story leaves the WINDOW_DAYS; the oldest first.
story_ages(i) ==
    /\ story[i].recent /\ \A j \in 1..(i - 1) : ~ story[j].recent
    /\ story' = [story EXCEPT ![i].recent = FALSE]
    /\ last' = None
    /\ UNCHANGED <<think, twins>>

BacklogNext ==
    \/ begin_integrate \/ integrate_fails
    \/ think # None /\ \E result \in {integrate(a) : a \in Answers} : handle_integrate(result)
    \/ \E i \in 1..Len(story) : \/ story_ages(i)
                                \/ \E read \in BOOLEAN : set_backlog_item_read(i, read)

BacklogSpec == BacklogInit /\ [][BacklogNext]_backlogVars

(***************************************************************************)
(* Properties                                                              *)
(***************************************************************************)

\* An item the model did not judge to be an existing story lands where assembly
\* will find it, in an unread story, unless the owner marked that story read
\* while the model was thinking.
LandsUnread ==
    last # None /\ ~ last.judged => ~ story[last.into].read \/ last.stale

\* Two unread stories carry one headline only when the model wrote it onto a
\* second story, a windowful of stories came between, or the owner brought one back.
TwinsAreExplained ==
    \A i, j \in 1..Len(story) :
        /\ i # j /\ ~ story[i].read /\ ~ story[j].read
        /\ story[i].title.word = story[j].title.word /\ story[i].title.word # None
        => story[i].title.word \in twins

\* Dedup neither buries a fresh story in a read one nor tells one story twice.
DedupKeepsItsWord == LandsUnread /\ TwinsAreExplained

=============================================================================
