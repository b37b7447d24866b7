----------------------------- MODULE TextFormats -----------------------------
(***************************************************************************)
(* Texts people write, and what is read out of them.                       *)
(*                                                                         *)
(* Credits read out of an artist text and a title (utils/artists.ts), and  *)
(* the run that turns legacy texts into credits (artist-migration.ts).  A  *)
(* text is the sequence of its words, separators, markers and brackets,    *)
(* written as people write it: a blank between any two, but none inside a  *)
(* bracket's ends nor before a comma.                                      *)
(*                                                                         *)
(* Lyrics written to LRC and SRT files and read back (utils/lrc.ts,        *)
(* utils/srt.ts, utils/furigana.ts).  A file is the sequence of its rows.  *)
(* A row keeps its stamps, its text and how the text is marked: plain,     *)
(* with a stamp before each word, or with readings.  The text of a line is *)
(* the text of its words.  Times are thousandths of a second.              *)
(***************************************************************************)
EXTENDS Integers, Sequences, FiniteSets, SequencesExt, TLC

CONSTANTS Words,        \* the words names and titles are made of
          MaxText,      \* bound: tokens of a text
          MaxCredits    \* bound: names of a list

Separators == {",", "&"}            \* "and", "x" and "×" do as "&"
Markers == {"feat.", "feat"}        \* a sure one and a weak one
Tokens == Words \cup Separators \cup Markers \cup {"(", ")"}
Texts == UNION {[1 .. n -> Tokens] : n \in 0 .. MaxText}
WordsOf(text) == ToSet(text) \cap Words

VARIABLES artistText, titleText, credited
creditVars == <<artistText, titleText, credited>>

-----------------------------------------------------------------------------
(* extractFeatured. *)
Depth(text, i, j) ==
    Cardinality({k \in i .. j : text[k] = "("}) - Cardinality({k \in i .. j : text[k] = ")"})
matchingClose(text, i) ==
    LET ends == {j \in i .. Len(text) : Depth(text, i, j) = 0}
    IN  IF ends = {} THEN 0 ELSE CHOOSE j \in ends : \A k \in ends : j <= k

(* A weak marker needs something after it, in brackets ... *)
OpensWithMarker(inner) ==
    inner # <<>> /\ (inner[1] = "feat." \/ (inner[1] = "feat" /\ Len(inner) > 1 /\ inner[2] # ","))

NoWalk == [rest |-> <<>>, segments |-> <<>>, flags |-> {}]
Then(w, v) == [rest |-> w.rest \o v.rest, segments |-> w.segments \o v.segments, flags |-> w.flags \cup v.flags]
Plain(text) == [NoWalk EXCEPT !.rest = text]

RECURSIVE walk(_)
walk(text) ==
    LET close == matchingClose(text, 1)
        inner == SubSeq(text, 2, close - 1)
        group == SubSeq(text, 1, close)
        within == walk(inner)
        ofGroup ==
            IF OpensWithMarker(inner)
            THEN IF Len(inner) > 1 THEN [NoWalk EXCEPT !.segments = <<Tail(inner)>>]
                 ELSE [Plain(group) EXCEPT !.flags = {"empty_feat_segment"}]
            ELSE [within EXCEPT !.rest = IF @ # <<>> THEN <<"(">> \o @ \o <<")">>
                                         ELSE IF inner = <<>> THEN group ELSE <<>>]
    IN  CASE text = <<>> -> NoWalk
          [] text # <<>> /\ text[1] # "(" -> Then(Plain(<<text[1]>>), walk(Tail(text)))
          [] text # <<>> /\ text[1] = "(" /\ close = 0 -> [Plain(text) EXCEPT !.flags = {"unbalanced_bracket"}]
          [] OTHER -> Then(ofGroup, walk(SubSeq(text, close + 1, Len(text))))

(* ... and outside of them a blank or an end on either side. *)
BareMarkers(text) ==
    {i \in 1 .. Len(text) : /\ text[i] \in Markers
                            /\ i > 1 => text[i - 1] # "("
                            /\ i < Len(text) => text[i + 1] \notin {",", ")"}}

(* The names run to the next bracket that opens, or to the end. *)
NamesEnd(text, i) ==
    LET opening == {j \in i + 1 .. Len(text) : text[j] = "("}
    IN  IF opening = {} THEN Len(text) ELSE (CHOOSE j \in opening : \A k \in opening : j <= k) - 1

RECURSIVE bare(_, _)
bare(w, guard) ==
    LET i == CHOOSE j \in BareMarkers(w.rest) : \A k \in BareMarkers(w.rest) : j <= k
        end == NamesEnd(w.rest, i)
        names == SubSeq(w.rest, i + 1, end)
    IN  IF guard = 0 \/ BareMarkers(w.rest) = {} THEN w
        ELSE IF names = <<>> THEN [w EXCEPT !.flags = @ \cup {"empty_feat_segment"}]
        ELSE bare([rest |-> SubSeq(w.rest, 1, i - 1) \o SubSeq(w.rest, end + 1, Len(w.rest)),
                   segments |-> Append(w.segments, names),
                   flags |-> w.flags \cup (IF w.rest[i] = "feat" THEN {"weak_marker"} ELSE {})], guard - 1)

extractFeatured(text) == bare(walk(text), 5)

(* splitNames. *)
Cuts(text) == {0, Len(text) + 1} \cup {i \in 1 .. Len(text) : text[i] \in Separators}
splitNames(text) ==
    LET cuts == SetToSortSeq(Cuts(text), <)
        parts == [k \in 1 .. Len(cuts) - 1 |-> SubSeq(text, cuts[k] + 1, cuts[k + 1] - 1)]
    IN  SelectSeq(parts, LAMBDA part : part # <<>>)
Ambiguous(text) == \E i \in 1 .. Len(text) : text[i] = "&"

-----------------------------------------------------------------------------
(* parseArtists. *)
NamesOf(segments) == FlattenSeq([k \in 1 .. Len(segments) |-> splitNames(segments[k])])
Firsts(names) ==
    LET new == SetToSortSeq({i \in 1 .. Len(names) : \A j \in 1 .. i - 1 : names[j].name # names[i].name}, <)
    IN  [k \in 1 .. Len(new) |-> names[new[k]]]
Role(names, role) == [k \in 1 .. Len(names) |-> [name |-> names[k], role |-> role]]

FlagsOf(x, texts) ==
    x.flags \cup (IF \E k \in 1 .. Len(texts) : Ambiguous(texts[k]) THEN {"ambiguous_separator"} ELSE {})

CreditsOf(a, t, title) ==
    [credits |-> Firsts(Role(splitNames(a.rest), "primary")
                        \o Role(NamesOf(a.segments \o t.segments), "featured")),
     title |-> IF t.segments = <<>> THEN title ELSE t.rest,
     flags |-> FlagsOf(a, <<a.rest>> \o a.segments) \cup FlagsOf(t, t.segments)]
parseArtists(artist, title) == CreditsOf(extractFeatured(artist), extractFeatured(title), title)

(* joinNames, formatArtistDisplay. *)
RECURSIVE joinNames(_)
joinNames(names) ==
    CASE names = <<>> -> <<>>
      [] Len(names) = 1 -> names[1]
      [] Len(names) = 2 -> names[1] \o <<"&">> \o names[2]
      [] OTHER -> names[1] \o <<",">> \o joinNames(Tail(names))
InRole(credits, role) ==
    LET of == SelectSeq(credits, LAMBDA c : c.role = role) IN [k \in 1 .. Len(of) |-> of[k].name]
formatArtistDisplay(credits) ==
    LET feat == joinNames(InRole(credits, "featured"))
    IN  joinNames(InRole(credits, "primary")) \o (IF feat = <<>> THEN <<>> ELSE <<"feat.">> \o feat)

(* validateArtistCredits. *)
validateArtistCredits(credits) ==
    /\ \A i, j \in 1 .. Len(credits) : i # j => credits[i].name # credits[j].name
    /\ credits # <<>> => InRole(credits, "primary") # <<>>

(* planArtists: doubtful texts are left alone; the names a project's own
   title features come after those of the song. *)
Retitled(parsed, text) == IF parsed.title = <<>> THEN text ELSE parsed.title
Judged(credits, doubts, plan) ==
    IF doubts \cap {"empty_feat_segment", "unbalanced_bracket"} # {} THEN [status |-> "invalid"]
    ELSE IF doubts # {} THEN [status |-> "ambiguous"]
    ELSE IF ~validateArtistCredits(credits) THEN [status |-> "invalid"]
    ELSE plan
PlanOf(ofSong, ofTitle, credits, song, title) ==
    Judged(credits, ofSong.flags \cup ofTitle.flags,
           [status |-> "apply", credits |-> credits,
            song |-> Retitled(ofSong, song), title |-> Retitled(ofTitle, title)])
PlanFrom(ofSong, ofTitle, song, title) ==
    PlanOf(ofSong, ofTitle, Firsts(ofSong.credits \o ofTitle.credits), song, title)
planArtists(artist, song, title) ==
    IF artist = <<>> THEN [status |-> "noop"]
    ELSE PlanFrom(parseArtists(artist, song), parseArtists(<<>>, title), song, title)

-----------------------------------------------------------------------------
(* Every text beside one of the titles, and every list of credits. *)
Lists ==
    UNION {{c \in [1 .. n -> [name : {<<w>> : w \in Words}, role : {"primary", "featured"}]] :
              \A i, j \in 1 .. n : (i < j /\ c[j].role = "primary") => c[i].role = "primary"} : n \in 0 .. MaxCredits}
CreditsInit ==
    /\ artistText \in Texts
    /\ titleText \in {<<>>, artistText}
    /\ credited \in IF artistText = <<>> THEN {c \in Lists : validateArtistCredits(c)} ELSE {<<>>}

-----------------------------------------------------------------------------
(* No word of the artist text or the title is lost; a list of credits read
   back from how it is displayed is itself (parseArtists inverts
   formatArtistDisplay); a planned row has a title if it had one; and
   brackets that matched still match in the title, and none is in a name,
   unless a bare marker stands inside of them (extractFeatured's second
   pass runs on to the next bracket that opens). *)
MarkedInside(rest) == \E i \in BareMarkers(rest) : Depth(rest, 1, i) > 0
Balanced(text) == Depth(text, 1, Len(text)) = 0 /\ \A j \in 1 .. Len(text) : Depth(text, 1, j) >= 0

Named(credits) == UNION {ToSet(credits[k].name) : k \in 1 .. Len(credits)}
NothingLost(parsed, named) ==
    /\ WordsOf(artistText) \subseteq named
    /\ WordsOf(titleText) \subseteq named \cup ToSet(parsed.title)
    /\ Balanced(titleText) /\ ~Balanced(parsed.title) => MarkedInside(walk(titleText).rest)
Retains(plan) == plan.status = "apply" /\ titleText # <<>> => plan.title # <<>> /\ plan.song # <<>>
Read(parsed) == NothingLost(parsed, Named(parsed.credits))
CreditsAgree ==
    /\ Read(parseArtists(artistText, titleText))
    /\ Retains(planArtists(artistText, titleText, titleText))
    /\ parseArtists(formatArtistDisplay(credited), <<>>).credits = credited

-----------------------------------------------------------------------------
(* Files of lyrics. *)
CONSTANTS Times,            \* timestamps
          MIN_GAP,          \* minSubtitleGap
          DEFAULT_DURATION, \* defaultSubtitleDuration
          TRACK             \* the duration of the track

Untimed == -1
Minute == 60000
TagLike == {"[ti:x]"}       \* texts that look like a header tag
NoRow == [tag |-> "text", at |-> <<>>, text |-> "", form |-> "plain"]
NoLine == [text |-> "", timestamp |-> Untimed, endTime |-> Untimed, words |-> {}, secondary |-> "",
           secondaryWords |-> FALSE, translation |-> "", adLibOf |-> Untimed]

VARIABLES song, fileWith     \* the lines of an editor, and what its file is to have
fileVars == <<song, fileWith>>

-----------------------------------------------------------------------------
(* Stamps are written in hundredths or thousandths, and read with at most
   two digits of minutes. *)
formatTimestamp(t, precision) == IF precision = "thousandths" THEN t ELSE ((t + 5) \div 10) * 10
parseTimestamp(stamp) == stamp < 100 * Minute

(* What is written under a line: its secondary words with their stamps,
   else the readings of the line itself, else its secondary text. *)
buildSecondaryText(line) ==
    CASE line.secondaryWords -> [text |-> line.secondary, form |-> "timed"]
      [] ~line.secondaryWords /\ "readings" \in line.words -> [text |-> line.text, form |-> "ruby"]
      [] OTHER -> [text |-> line.secondary, form |-> "plain"]

Stamped(line, with, text, form) ==
    IF text = "" THEN <<>>
    ELSE <<[NoRow EXCEPT !.at = <<formatTimestamp(line.timestamp, with.precision)>>, !.text = text, !.form = form]>>
rowsOf(line, with) ==
    IF line.timestamp = Untimed THEN <<[NoRow EXCEPT !.text = line.text]>>
    ELSE LET second == buildSecondaryText(line) IN
         (IF line.adLibOf # Untimed THEN <<[NoRow EXCEPT !.tag = "marker"]>> ELSE <<>>)
         \o Stamped(line, with, line.text, IF "times" \in line.words THEN "timed" ELSE "plain")
         \o (IF with.secondary THEN Stamped(line, with, second.text, second.form) ELSE <<>>)
         \o (IF with.translation THEN Stamped(line, with, line.translation, "plain") ELSE <<>>)
compileLRC(lines, with) ==
    <<[NoRow EXCEPT !.text = "[ti:x]"]>> \o FlattenSeq([i \in DOMAIN lines |-> rowsOf(lines[i], with)])

-----------------------------------------------------------------------------
(* Reading: the marker is for the next row that is not empty; of stacked
   stamps the earliest counts; the word stamps of a row leave its text.
   The stamps of a row are all readable or none is. *)
Earliest(stamps) == CHOOSE t \in ToSet(stamps) : \A s \in ToSet(stamps) : t <= s
readRow(s, row, preserveEmptyLines) ==
    LET add(entry) == [next |-> FALSE, lines |-> Append(s.lines, entry)]
        untimed == [row |-> row, timestamp |-> Untimed, marked |-> FALSE]
    IN  CASE row.tag = "marker" -> [s EXCEPT !.next = TRUE]
          [] row.tag = "text" /\ row.at # <<>> ->
                IF \A i \in DOMAIN row.at : parseTimestamp(row.at[i])
                THEN add([row |-> row, timestamp |-> Earliest(row.at), marked |-> s.next])
                ELSE [s EXCEPT !.next = FALSE]
          [] row.tag = "text" /\ row.at = <<>> /\ row.text = "" ->
                IF preserveEmptyLines THEN [s EXCEPT !.lines = Append(@, untimed)] ELSE s
          [] OTHER -> IF row.text \in TagLike THEN [s EXCEPT !.next = FALSE] ELSE add(untimed)
parsedLines(rows, preserveEmptyLines) ==
    FoldLeft(LAMBDA s, row : readRow(s, row, preserveEmptyLines), [next |-> FALSE, lines |-> <<>>], rows).lines

(* Merging: rows of one hundredth make one line, the first its text, then
   its secondary (or its readings), then its translation.  The word stamps
   of a secondary row left its text when it was read. *)
parseRubyMarkup(row) == [plainText |-> row.text, segments |-> row.form = "ruby"]
under(line, row) ==
    LET ruby == parseRubyMarkup(row) IN
    CASE line.secondary = "" /\ line.translation = "" ->
            [line EXCEPT !.secondary = ruby.plainText, !.words = IF ruby.segments THEN @ \cup {"readings"} ELSE @]
      [] line.secondary # "" /\ line.translation = "" -> [line EXCEPT !.translation = row.text]
      [] OTHER -> line
mergeLine(s, entry) ==
    LET key == (entry.timestamp + 5) \div 10
        new == [NoLine EXCEPT !.text = entry.row.text, !.timestamp = entry.timestamp,
                              !.words = IF entry.row.form = "timed" THEN {"times"} ELSE {}]
        placed == key :> (Len(s.lines) + 1) @@ s.slot
    IN  CASE entry.timestamp = Untimed -> [s EXCEPT !.lines = Append(@, new)]
          [] entry.timestamp # Untimed /\ entry.marked /\ s.main # Untimed ->
                [s EXCEPT !.slot = placed, !.lines = Append(@, [new EXCEPT !.adLibOf = s.main])]
          [] entry.timestamp # Untimed /\ ~(entry.marked /\ s.main # Untimed) /\ key \in DOMAIN s.slot ->
                [s EXCEPT !.lines[s.slot[key]] = under(@, entry.row)]
          [] OTHER -> [main |-> entry.timestamp, slot |-> placed, lines |-> Append(s.lines, new)]
parseLrcFile(rows, preserveEmptyLines) ==
    FoldLeft(mergeLine, [main |-> Untimed, slot |-> <<>>, lines |-> <<>>], parsedLines(rows, preserveEmptyLines)).lines

-----------------------------------------------------------------------------
(* Ends: a gap before the next timed line, or the default, cut at the end
   of the track. *)
Smaller(a, b) == IF a < b THEN a ELSE b
Larger(a, b) == IF a < b THEN b ELSE a
InferredEnd(line, later) ==
    CASE line.endTime # Untimed -> line.endTime
      [] line.endTime = Untimed /\ later # <<>> -> Larger(line.timestamp + MIN_GAP, later[1].timestamp - MIN_GAP)
      [] OTHER -> Smaller(line.timestamp + DEFAULT_DURATION, TRACK)
Synced(lines) == SelectSeq(lines, LAMBDA l : l.timestamp # Untimed)
inferEndTimes(lines) ==
    [i \in DOMAIN lines |->
        IF lines[i].timestamp = Untimed THEN lines[i]
        ELSE [lines[i] EXCEPT !.endTime = InferredEnd(lines[i], Synced(SubSeq(lines, i + 1, Len(lines))))]]

(* A block of an SRT file; one without a text is not read. *)
compileSRT(lines, with) ==
    LET synced == Synced(lines)
        texts(l) == <<l.text>> \o (IF with.secondary /\ l.secondary # "" THEN <<l.secondary>> ELSE <<>>)
                               \o (IF with.translation /\ l.translation # "" THEN <<l.translation>> ELSE <<>>)
    IN  [i \in DOMAIN synced |->
            [start |-> synced[i].timestamp, end |-> InferredEnd(synced[i], SubSeq(synced, i + 1, Len(synced))),
             texts |-> texts(synced[i])]]
parseSrtFile(blocks) == SelectSeq(blocks, LAMBDA b : b.texts[1] # "")

-----------------------------------------------------------------------------
(* Songs grow line by line: two lines of any shape, three of plain ones. *)
Sung(texts, words, seconds, translations) ==
    {[NoLine EXCEPT !.text = x, !.timestamp = t, !.words = w, !.secondary = s[1], !.secondaryWords = s[2],
                    !.translation = n, !.adLibOf = a] :
        x \in texts, t \in Times, w \in words, s \in seconds, n \in translations, a \in {Untimed, Earliest(SetToSeq(Times))}}
Unsung == {[NoLine EXCEPT !.text = x] : x \in {"", "a"} \cup TagLike}
PlainShapes == Unsung \cup Sung({"a"}, {{}}, {<<"", FALSE>>, <<"s", FALSE>>}, {""})
Shapes == Unsung \cup Sung({"a"}, {{}, {"times"}, {"times", "readings"}},
                          {<<"", FALSE>>, <<"a", FALSE>>, <<"s", FALSE>>, <<"s", TRUE>>}, {"", "t"})
FilesInit ==
    /\ song = <<>>
    /\ fileWith \in [secondary : {TRUE}, translation : {TRUE}, precision : {"hundredths", "thousandths"}]
addLine ==
    /\ IF Len(song) < 2 THEN \E line \in Shapes : song' = Append(song, line)
       ELSE Len(song) = 2 /\ ToSet(song) \subseteq PlainShapes /\ \E line \in PlainShapes : song' = Append(song, line)
    /\ UNCHANGED fileWith
FilesSpec == FilesInit /\ [][addLine]_fileVars

-----------------------------------------------------------------------------
(* What a file can say.  LRC has no word for these: a time past the
   ninety-ninth minute, two main lines within one hundredth, a translation
   without a secondary text, stamps of secondary words, a secondary text
   beside readings, a counterpart of any but the last main line, an
   untimed line that is empty or looks like a tag. *)
Key(line) == (line.timestamp + 5) \div 10
MainBefore(lines, i) ==
    LET mains == {j \in 1 .. i - 1 : lines[j].timestamp # Untimed /\ lines[j].adLibOf = Untimed} IN
    IF mains = {} THEN Untimed ELSE lines[CHOOSE j \in mains : \A k \in mains : k <= j].timestamp
Expressible(lines, with) ==
    \A i \in DOMAIN lines :
        LET l == lines[i] IN
        IF l.timestamp = Untimed THEN l.text \notin {""} \cup TagLike
        ELSE /\ parseTimestamp(l.timestamp) /\ formatTimestamp(l.timestamp, with.precision) = l.timestamp
             /\ l.translation # "" => l.secondary # ""
             /\ ~l.secondaryWords
             /\ "readings" \in l.words => l.secondary = l.text
             /\ IF l.adLibOf # Untimed THEN l.adLibOf = MainBefore(lines, i)
                ELSE \A j \in 1 .. i - 1 : lines[j].timestamp # Untimed => Key(lines[j]) # Key(l)

(* A song a file can say comes back as it was; what comes back of any
   other song does not change any more when it is written again; and
   nothing but its tag-like, empty and unreadable rows and the fourth text
   of one hundredth is lost. *)
Back(lines, with) == parseLrcFile(compileLRC(lines, with), FALSE)
TextsOf(lines) == UNION {{lines[i].text, lines[i].secondary, lines[i].translation} : i \in DOMAIN lines} \ ({""} \cup TagLike)
RoundTrips ==
    LET back == Back(song, fileWith) IN
    /\ Expressible(song, fileWith) => back = song
    /\ Back(back, fileWith) = back
    /\ (\A i \in DOMAIN song : parseTimestamp(song[i].timestamp) /\ song[i].words = {})
       /\ (\A i, j \in DOMAIN song : i # j /\ song[j].timestamp # Untimed => Key(song[i]) # Key(song[j]))
       => TextsOf(back) = TextsOf(song)

(* Inferring the ends first changes nothing in the SRT file; a block never
   ends before it starts unless the track has, and runs into the next only
   if that follows within the gap. *)
EndsHold ==
    LET blocks == compileSRT(song, fileWith) IN
    /\ compileSRT(inferEndTimes(song), fileWith) = blocks
    /\ \A i \in DOMAIN blocks :
        /\ blocks[i].start < blocks[i].end \/ (i = Len(blocks) /\ TRACK <= blocks[i].start)
        /\ i < Len(blocks) /\ blocks[i + 1].start >= blocks[i].start + MIN_GAP => blocks[i].end <= blocks[i + 1].start
    /\ Len(parseSrtFile(blocks)) = Len(Synced(song))
FilesHold == RoundTrips /\ EndsHold
=============================================================================
