------------------------------ MODULE Extract -------------------------------
(***************************************************************************)
(* From a newsletter's parts to the text a source item holds:              *)
(* sources/src/motet_sources/extract.py.  The HTML part arrives as parser  *)
(* events (start tag, end tag, data) of well-formed markup; beside the     *)
(* parser's state the model keeps the elements that are really open, so    *)
(* that what the parser keeps can be compared with what a reader sees.     *)
(*                                                                         *)
(* A line is its kind: prose, a footer marker, a "view in browser" line, a *)
(* bare URL, a divider.  Every line counts one toward the minimum length.  *)
(***************************************************************************)
EXTENDS Base, Integers, Sequences, SequencesExt, FiniteSets

CONSTANTS
    MaxTags,     \* parser events of one HTML part (bound)
    MinText,       \* MIN_TEXT_CHARS, in lines
    MaxLinks,      \* MAX_LINKS
    PlainParts     \* the text/plain parts a message may carry, None for none

Lines == {"prose", "footer", "preamble", "url", "divider"}

ASSUME ExtractAssumption ==
    /\ {MaxTags, MinText, MaxLinks} \subseteq Nat /\ MaxLinks > 0
    /\ PlainParts \subseteq Seq(Lines) \cup {None}

VARIABLES
    open_,     \* the elements really open, innermost last
    parser,    \* _TextExtractor
    visible,   \* history: the lines and links a reader of the HTML sees
    confused,  \* history: markup of the three kinds the parser loses track in
    plain,     \* the text/plain part
    message    \* what extract_newsletter made of it, None before

extractVars == <<open_, parser, visible, confused, plain, message>>

Void    == {"img", "br"}
Dropped == {"style"}
Tags    == {"div", "span", "a"} \cup Void \cup Dropped

ExtractTypeOK ==
    /\ open_ \in Seq([tag : Tags \ Void, hidden : BOOLEAN])
    /\ parser.suppress \in Nat /\ parser.hidden \in Seq(Tags)
    /\ parser.text \in Seq(Lines) /\ visible.text \in Seq(Lines)
    /\ parser.fed \in 0..MaxTags /\ confused \in BOOLEAN

ExtractInit ==
    /\ open_ = <<>>
    /\ parser = [suppress |-> 0, hidden |-> <<>>, text |-> <<>>, links |-> <<>>, fed |-> 0]
    /\ visible = [text |-> <<>>, links |-> <<>>]
    /\ confused = FALSE
    /\ plain \in PlainParts
    /\ message = None

(***************************************************************************)
(* _TextExtractor                                                          *)
(***************************************************************************)

Seen == \A i \in DOMAIN open_ : ~ open_[i].hidden /\ open_[i].tag \notin Dropped

\* A dropped element only counts depth; a link is kept under the text's rules;
\* a hidden element is remembered by its tag, except <br>.
StartTag(p, tag, hidden, href) ==
    IF tag \in Dropped THEN [p EXCEPT !.suppress = @ + 1]
    ELSE IF p.suppress > 0 THEN p
    ELSE [p EXCEPT !.links = IF tag = "a" /\ p.hidden = <<>> THEN Append(@, href) ELSE @,
                   !.hidden = IF hidden /\ tag # "br" THEN Append(@, tag) ELSE @]
EndTag_any(p, tag) ==
    IF tag \in Dropped THEN [p EXCEPT !.suppress = IF @ > 0 THEN @ - 1 ELSE 0]
    ELSE [p EXCEPT !.hidden = IF @ # <<>> THEN Front(@) ELSE @]
EndTag(p, tag) ==
    IF tag \in Dropped THEN [p EXCEPT !.suppress = IF @ > 0 THEN @ - 1 ELSE 0]
    ELSE [p EXCEPT !.hidden = IF @ # <<>> /\ Last(@) = tag THEN Front(@) ELSE @]
Data(p, line) == IF p.suppress > 0 \/ p.hidden # <<>> THEN p
                 ELSE [p EXCEPT !.text = Append(@, line)]

Fed(p) == [p EXCEPT !.fed = @ + 1]

\* The three confusions: a hidden void element that is not <br> never closes;
\* the end tag of an element inside a hidden one of the same name closes the
\* hidden one; a link's address is taken before its own style is looked at.
Confuses(tag, hidden) ==
    \/ hidden /\ tag \in Void \ {"br"} /\ parser.suppress = 0
    \/ ~ hidden /\ tag \notin Void /\ parser.hidden # <<>> /\ Last(parser.hidden) = tag
    \/ hidden /\ tag = "a" /\ parser.suppress = 0

handle_starttag(tag, hidden, href) ==
    /\ message = None /\ parser.fed < MaxTags
    /\ open_ # <<>> => Last(open_).tag \notin Dropped   \* script and style hold text only
    /\ parser' = Fed(StartTag(parser, tag, hidden, href))
    /\ visible' = [visible EXCEPT !.links = IF tag = "a" /\ Seen /\ ~ hidden
                                           THEN Append(@, href) ELSE @]
    /\ confused' = (confused \/ Confuses(tag, hidden))
    /\ open_' = IF tag \in Void THEN open_
                ELSE Append(open_, [tag |-> tag, hidden |-> hidden])
    /\ UNCHANGED <<plain, message>>

handle_endtag ==
    /\ message = None /\ parser.fed < MaxTags /\ open_ # <<>>
    /\ parser' = Fed(EndTag(parser, Last(open_).tag))
    /\ open_' = Front(open_)
    /\ UNCHANGED <<visible, confused, plain, message>>

handle_data(line) ==
    /\ message = None /\ parser.fed < MaxTags
    /\ parser' = Fed(Data(parser, line))
    /\ visible' = [visible EXCEPT !.text = IF Seen THEN Append(@, line) ELSE @]
    /\ UNCHANGED <<open_, confused, plain, message>>

(***************************************************************************)
(* _clean                                                                  *)
(***************************************************************************)

\* The lines that are of some kinds, in their order
Only(lines, kinds) ==
    LET kept[k \in 0..Len(lines)] ==
            IF k = 0 THEN <<>>
            ELSE IF lines[k] \in kinds THEN Append(kept[k - 1], lines[k]) ELSE kept[k - 1]
    IN  kept[Len(lines)]

ContentKinds == Lines \ {"divider"}
ContentLines(lines) == Len(Only(lines, ContentKinds))
Filtered(lines) == Only(lines, Lines \ {"preamble", "url"})

\* _content_floor: past the minimum of content and past the tail's fraction.
_content_floor_fraction(lines) == (Len(lines) * 6) \div 10
_content_floor(lines) ==
    LET enough == {i \in DOMAIN lines : ContentLines(SubSeq(lines, 1, i)) >= MinText}
    IN  IF enough = {} THEN None
        ELSE LET first == CHOOSE i \in enough : \A k \in enough : i <= k
                 tail  == (Len(lines) * 6) \div 10
             IN  IF first >= tail THEN first ELSE tail

\* _cut_footer: at the first marker of the tail (indexes count from 0 in the
\* code, so a cut at index i keeps i lines).
_cut_footer(lines) ==
    LET floor == _content_floor(lines)
        marks == {i \in DOMAIN lines : lines[i] = "footer" /\ floor # None /\ i - 1 >= floor}
    IN  IF marks = {} THEN lines
        ELSE SubSeq(lines, 1, (CHOOSE i \in marks : \A k \in marks : i <= k) - 1)

\* _clean: preamble and bare URLs go line by line, then the footer; dividers
\* are blank lines, and blank lines do not count.
_clean(lines) == Only(_cut_footer(Filtered(lines)), ContentKinds)

(***************************************************************************)
(* The message                                                             *)
(***************************************************************************)

find_links(lines) == [i \in 1..Len(Only(lines, {"url"})) |-> "plain"]

\* dict.fromkeys: each link once, where it came first.
Distinct(links) ==
    LET met[k \in 0..Len(links)] ==
            IF k = 0 THEN <<>>
            ELSE IF \E i \in 1..Len(met[k - 1]) : met[k - 1][i] = links[k] THEN met[k - 1]
            ELSE Append(met[k - 1], links[k])
    IN  met[Len(links)]

\* merge_links: HTML's first, then the plain part's, each once, bounded.
merge_links_unbounded(html, text) == html \o text
merge_links(html, text) ==
    LET links == Distinct(html \o text)
    IN  SubSeq(links, 1, IF Len(links) < MaxLinks THEN Len(links) ELSE MaxLinks)

\* _body_and_links: the plain part where there is one, links from both.
_body_and_links == [body  |-> IF plain # None THEN plain ELSE parser.text,
                    links |-> merge_links(parser.links,
                                          IF plain = None THEN <<>> ELSE find_links(plain))]

\* extract_newsletter: raises where nothing remains or too little.
extract_newsletter ==
    /\ message = None /\ open_ = <<>>
    /\ LET got == _body_and_links  text == _clean(got.body) IN
       message' = IF got.body = <<>> \/ Len(text) < MinText THEN [raised |-> TRUE]
                  ELSE [raised |-> FALSE, text |-> text, links |-> got.links]
    /\ UNCHANGED <<open_, parser, visible, confused, plain>>

ExtractNext ==
    \/ \E tag \in Tags, hidden \in BOOLEAN, href \in {"x", "y"} :
           (tag # "a" => href = "x") /\ handle_starttag(tag, hidden, href)
    \/ handle_endtag
    \/ \E line \in Lines : handle_data(line)
    \/ extract_newsletter

ExtractSpec == ExtractInit /\ [][ExtractNext]_extractVars

(***************************************************************************)
(* Properties                                                              *)
(***************************************************************************)

Prose(lines) == Only(lines, {"prose"})
ReaderSees == IF plain # None THEN plain ELSE visible.text

\* The parser keeps what a reader sees, text and links, in its order, and
\* nothing of a hidden preheader or a style sheet, unless the markup was of
\* the three kinds it loses track in.
KeepsTheVisible ==
    ~ confused => parser.text = visible.text /\ parser.links = visible.links

\* Nothing is lost in the middle: the prose that is kept is where the prose
\* began; a message with enough lines is never cut below the minimum, so it is
\* never skipped; and its links are distinct, the first being the HTML's.
TrimsOnlyTheEnds ==
    message # None /\ (~ confused \/ plain # None) =>
        /\ message.raised <=>
               ContentLines(Filtered(ReaderSees)) < MinText \/ ReaderSees = <<>>
        /\ ~ message.raised =>
               /\ IsPrefix(Prose(message.text), Prose(ReaderSees))
               /\ IsInjective(message.links) /\ Len(message.links) <= MaxLinks
               /\ ~ confused /\ visible.links # <<>> =>
                      message.links[1] = visible.links[1]

ExtractionIsSound == KeepsTheVisible /\ TrimsOnlyTheEnds

=============================================================================
