---------------------------- MODULE Canonicalization ----------------------------
(***************************************************************************)
(* Step 1 of clause_parser: the normalization of a source text and the     *)
(* anchors its headings give it (canonicalizer.py).                        *)
(*                                                                         *)
(* A text is a sequence of lines <<kind, number>>: the heading of an       *)
(* article, the first line of a numbered paragraph, a line that begins     *)
(* with "Annex" and a roman numeral (a heading or not: the pattern asks    *)
(* for no more), any other text, an empty line, or one that holds white    *)
(* space only.  Offsets count lines: line i spans i - 1 to i.              *)
(***************************************************************************)
EXTENDS Integers, Sequences, FiniteSetsExt

CONSTANT
    Texts           \* the texts considered

--------------------------------------------------------------------------------

LineKinds == {"article", "paragraph", "annex", "text", "blank", "space"}

Blank == <<"blank", 0>>

(* Every text is a sequence of lines of these kinds. *)
ASSUME TextsAssumption == Texts \subseteq Seq(LineKinds \X Nat)

IsBlank(line) == line[1] \in {"blank", "space"}

(* The lines of a kind, in a text. *)
LinesOf(kind, text) == {i \in DOMAIN text : text[i][1] = kind}

ContentLines(text) == {i \in DOMAIN text : ~IsBlank(text[i])}

(* White space at the end of a line goes; so do empty lines before the first   *)
(* and after the last line of text, and all but one of a run of them.          *)
Trimmed(text) == [i \in DOMAIN text |-> IF IsBlank(text[i]) THEN Blank ELSE text[i]]

KeptLines(text) ==
    {i \in DOMAIN text :
        \/ i \in ContentLines(text)
        \/ i - 1 \in ContentLines(text) /\ \E j \in ContentLines(text) : j > i}

(* The lines of a text at these places, in their order. *)
LinesAt(text, places) ==
    LET lines[n \in 0..Len(text)] ==
            IF n = 0 THEN <<>>
            ELSE IF n \in places THEN Append(lines[n - 1], text[n]) ELSE lines[n - 1]
    IN  lines[Len(text)]

(* canonicalize_text: a text without any content is one empty line. *)
CanonicalizeText(text) ==
    IF KeptLines(text) = {} THEN <<Blank>> ELSE LinesAt(Trimmed(text), KeptLines(text))

--------------------------------------------------------------------------------

(* Where the first annex begins, or the end of the text. *)
DocumentCeiling(text) ==
    IF LinesOf("annex", text) = {} THEN Len(text) ELSE Min(LinesOf("annex", text)) - 1

(* Mutant: the last article runs to the end of the document. *)
ArticleEndUncapped(text, i) ==
    LET later == {j \in LinesOf("article", text) : j > i}
    IN  IF later = {} THEN Len(text) ELSE Min({Min(later) - 1, DocumentCeiling(text)})

(* Where the article whose heading is line i ends: the next article, and no    *)
(* later than the first annex, also when that comes before the heading.        *)
ArticleEnd(text, i) ==
    LET later == {j \in LinesOf("article", text) : j > i}
    IN  Min({DocumentCeiling(text)} \cup {j - 1 : j \in later})

ArticlePath(text, i) == <<"article", text[i][2]>>

(* The anchor id is a function of the document, its version and this path. *)
ParagraphPath(text, i, j) == ArticlePath(text, i) \o <<"paragraph", text[j][2]>>

(* The paragraphs of the article at line i: each runs to the next one. *)
ParagraphAnchors(text, i) ==
    LET body == {j \in LinesOf("paragraph", text) : i <= j /\ j <= ArticleEnd(text, i)}
    IN  {[type |-> "paragraph", path |-> ParagraphPath(text, i, j), start |-> j - 1,
          end |-> Min({ArticleEnd(text, i)} \cup {k - 1 : k \in {x \in body : x > j}}),
          parent |-> ArticlePath(text, i)] : j \in body}

ArticleAnchor(text, i) ==
    [type |-> "article", path |-> ArticlePath(text, i), start |-> i - 1,
     end |-> ArticleEnd(text, i), parent |-> <<>>]

DocumentAnchor(text) ==
    [type |-> "article", path |-> <<"document">>, start |-> 0, end |-> Len(text),
     parent |-> <<>>]

(* The structure of a canonical text: articles and their paragraphs, or one    *)
(* anchor for the whole of a text without article headings.                    *)
BuildStructure(text) ==
    LET articles == LinesOf("article", text)
    IN  IF articles = {} THEN {DocumentAnchor(text)}
        ELSE {ArticleAnchor(text, i) : i \in articles}
                \cup UNION {ParagraphAnchors(text, i) : i \in articles}

(* Two anchors with one id: the structure is refused. *)
Collides(structure) == \E a, b \in structure : a # b /\ a.path = b.path

--------------------------------------------------------------------------------

(* What the structure of a canonical text must say, said without the           *)
(* algorithm: the paragraphs of the article part are exactly the numbered      *)
(* lines under an article heading and before the first annex; each is anchored *)
(* under the nearest heading above it and holds that one number, no other      *)
(* heading and nothing of an annex.                                            *)
ParagraphsAreFaithful(text) ==
    LET structure == BuildStructure(text)
        paragraphs == {a \in structure : a.type = "paragraph"}
        headings(j) == {i \in LinesOf("article", text) : i < j}
        lines(a) == {i \in DOMAIN text : a.start < i /\ i <= a.end}
    IN  /\ {a.start + 1 : a \in paragraphs} =
               {j \in LinesOf("paragraph", text) :
                   headings(j) # {} /\ \A i \in LinesOf("annex", text) : j < i}
        /\ \A a \in paragraphs :
            /\ a.path = ParagraphPath(text, Max(headings(a.start + 1)), a.start + 1)
            /\ lines(a) \cap (LinesOf("article", text) \cup LinesOf("annex", text)) = {}
            /\ lines(a) \cap LinesOf("paragraph", text) = {a.start + 1}
        /\ ~Collides(structure) =>
            \A a \in paragraphs : \E b \in structure :
                b.path = a.parent /\ b.start < a.start /\ a.end <= b.end

(* Normalization touches white space only, and normalizing again changes       *)
(* nothing: registering what was registered gives the same anchors.            *)
NormalizationIsFaithful(text) ==
    LET canonical == CanonicalizeText(text)
        content(t) == LinesAt(t, ContentLines(t))
    IN  /\ content(canonical) = content(text)
        /\ CanonicalizeText(canonical) = canonical

(* Evidence is quoted by its anchor: what is normalized away is white space,   *)
(* and a paragraph's anchor holds that paragraph and nothing else.             *)
IsFaithful(text) ==
    NormalizationIsFaithful(text) /\ ParagraphsAreFaithful(CanonicalizeText(text))
================================================================================
