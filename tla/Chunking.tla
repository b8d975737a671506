------------------------------ MODULE Chunking ------------------------------
(***************************************************************************)
(* From a document to its chunks: the Markdown parser's sections and the   *)
(* structural chunker's ranges. A document is a sequence of lines, each    *)
(* with a kind and a number of words; in the text a word and the end of a  *)
(* line take one position each, and positions count from 0.                *)
(***************************************************************************)
EXTENDS Orderings, SequencesExt

CONSTANT MaxTokens  \* the chunker's max_tokens

ASSUME ChunkingAssumption == MaxTokens \in Nat \ {0}

\* What the model takes for a document.
IsDocument(lines) ==
  lines \in Seq(ToSet(lines)) /\ \A line \in ToSet(lines) : line.words \in Nat

Fences == {"backtick", "tilde"}

Written(line) == Append([w \in 1..line.words |-> "word"], "newline")

Text(lines) ==
  LET text[n \in 0..Len(lines)] == IF n = 0 THEN <<>> ELSE text[n - 1] \o Written(lines[n])
  IN text[Len(lines)]

Section(p) == [start |-> p.start, end |-> p.cursor, level |-> p.level]

CloseSection(p) ==
  IF p.cursor > p.start THEN Append(p.sections, Section(p)) ELSE p.sections

\* A fence is closed by a line of its own kind only, and hides headings.
ParseLine(p, line) ==
  LET next == [p EXCEPT !.cursor = @ + line.words + 1]
  IN IF line.kind \in Fences
     THEN [next EXCEPT !.fence = IF @ = "none" THEN line.kind
                                 ELSE IF @ = line.kind THEN "none" ELSE @]
     ELSE IF p.fence = "none" /\ line.kind = "heading"
     THEN [next EXCEPT !.sections = CloseSection(p), !.start = p.cursor,
                       !.level = line.level]
     ELSE next

Unparsed == [fence |-> "none", start |-> 0, level |-> 0, cursor |-> 0, sections |-> <<>>]

Parse(lines) ==
  LET parsed[n \in 0..Len(lines)] ==
        IF n = 0 THEN Unparsed ELSE ParseLine(parsed[n - 1], lines[n])
  IN CloseSection(parsed[Len(lines)])

Count(text, start, end) ==
  Cardinality({p \in start..(end - 1) : text[p + 1] = "word"})

\* A section that is too long is cut before every MaxTokens-th word.
Cuts(text, start, end) ==
  {p \in (start + 1)..(end - 1) :
     /\ text[p + 1] = "word"
     /\ \E n \in 1..(end - start) : Count(text, start, p) = n * MaxTokens}

SplitRange(text, start, end) ==
  LET bounds == {start, end} \cup Cuts(text, start, end)
      ordered == Increasing(bounds)
  IN [n \in 1..Cardinality(bounds) - 1 |-> [start |-> ordered[n], end |-> ordered[n + 1]]]

NoPending == [start |-> -1, end |-> 0]

Flush(c) == IF c.pending = NoPending THEN c.ranges ELSE Append(c.ranges, c.pending)

\* Fault: what is pending is not written out before a long section.
AddSectionKeepsPending(text, c, s) ==
  IF Count(text, s.start, s.end) > MaxTokens
  THEN [c EXCEPT !.ranges = @ \o SplitRange(text, s.start, s.end)]
  ELSE IF c.pending = NoPending
  THEN [c EXCEPT !.pending = [start |-> s.start, end |-> s.end]]
  ELSE IF Count(text, c.pending.start, s.end) > MaxTokens
  THEN [ranges |-> Flush(c), pending |-> [start |-> s.start, end |-> s.end]]
  ELSE [c EXCEPT !.pending.end = s.end]

\* Sections are merged while they fit together.
AddSection(text, c, s) ==
  IF Count(text, s.start, s.end) > MaxTokens
  THEN [ranges |-> Flush(c) \o SplitRange(text, s.start, s.end), pending |-> NoPending]
  ELSE IF c.pending = NoPending
  THEN [c EXCEPT !.pending = [start |-> s.start, end |-> s.end]]
  ELSE IF Count(text, c.pending.start, s.end) > MaxTokens
  THEN [ranges |-> Flush(c), pending |-> [start |-> s.start, end |-> s.end]]
  ELSE [c EXCEPT !.pending.end = s.end]

Larger(a, b) == IF a > b THEN a ELSE b
Smaller(a, b) == IF a < b THEN a ELSE b

BuildChunk(text, sections, range) ==
  LET touched == Selected(sections, {n \in DOMAIN sections :
                   sections[n].start < range.end /\ sections[n].end > range.start})
  IN [start |-> range.start, end |-> range.end, tokens |-> Count(text, range.start, range.end),
      spans |-> [n \in DOMAIN touched |->
                   [start |-> Larger(range.start, touched[n].start),
                    end |-> Smaller(range.end, touched[n].end),
                    level |-> touched[n].level]]]

\* The ranges of the chunks of a text with sections.
Gathered(text, sections) ==
  LET gathered[n \in 0..Len(sections)] ==
        IF n = 0 THEN [ranges |-> <<>>, pending |-> NoPending]
        ELSE AddSection(text, gathered[n - 1], sections[n])
  IN Flush(gathered[Len(sections)])

\* The chunks of a document, in order; a chunk's ordinal is its place.
ChunkDocument(lines) ==
  LET text == Text(lines)
      sections == Parse(lines)
      ranges == Gathered(text, sections)
  IN [n \in DOMAIN ranges |-> BuildChunk(text, sections, ranges[n])]
=============================================================================
