------------------------------ MODULE PdfExtraction ------------------------------
(***************************************************************************)
(* The confidence gate of clause_parser's PDF extraction                   *)
(* (pdf_extractor.py): deterministic signals in the extracted text are     *)
(* added up, and a text below the threshold is not registered.             *)
(*                                                                         *)
(* A text is known here by its signals.  A line break inside a word leaves *)
(* two fragments of lower-case letters, and so does a break between two    *)
(* words: "genuine" are those of one word, "ordinary" the others.  Which   *)
(* of them a host takes for broken words depends on its word list; without *)
(* one it takes all.  Confidence is counted in hundredths.                 *)
(***************************************************************************)
EXTENDS Integers

--------------------------------------------------------------------------------

(* The signals the text is searched for, besides broken words. *)
Defects == {"replacement_characters", "non_printable", "hyphenation", "short_lines"}

Breaks == {"genuine", "ordinary"}

(* How a host judges a text: the breaks it takes for broken words, and the     *)
(* RABBITQA_PDF_MIN_CONFIDENCE it finds in its environment.                    *)
Judgements == [brokenWords : SUBSET Breaks, threshold : Nat]

ClassifyBrokenWordMatches(breaks, judgement) == breaks \cap judgement.brokenWords

Warnings(defects, breaks, judgement) ==
    defects \cup {w \in {"broken_word"} : ClassifyBrokenWordMatches(breaks, judgement) # {}}

ScoreConfidence(warnings) ==
    LET penalty(w, hundredths) == IF w \in warnings THEN hundredths ELSE 0
        confidence == 100 - penalty("replacement_characters", 40)
                          - penalty("non_printable", 30) - penalty("hyphenation", 15)
                          - penalty("broken_word", 20) - penalty("short_lines", 15)
    IN  IF confidence < 0 THEN 0 ELSE confidence

(* The penalties are binary fractions: after these warnings the number that is *)
(* left is just below the exact one, so that it does not reach a threshold it  *)
(* should equal.                                                               *)
RoundsDown ==
    LET r == "replacement_characters"  n == "non_printable"  h == "hyphenation"
        b == "broken_word"  s == "short_lines"
    IN  {{r, h}, {r, b}, {r, s}, {n, h}, {n, b}, {n, s}, {h, b},
         {r, n, b}, {r, h, b}, {r, h, s}, {r, b, s}, {n, h, b}, {n, h, s}, {h, b, s},
         {r, h, b, s}, {n, h, b, s}}

BelowThreshold(defects, breaks, judgement) ==
    LET warnings == Warnings(defects, breaks, judgement)
    IN  \/ ScoreConfidence(warnings) < judgement.threshold
        \/ /\ ScoreConfidence(warnings) = judgement.threshold
           /\ warnings \in RoundsDown
================================================================================
