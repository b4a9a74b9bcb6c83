---------------------------- MODULE PageQuality -----------------------------
(***************************************************************************)
(* The quality gate of ingestion/quality.py: how far the text of a page is *)
(* to be trusted, in percent, from what is counted in it.                  *)
(***************************************************************************)
EXTENDS Integers

CONSTANTS
    MinChars,       \* scan_detection_min_chars
    OcrThreshold    \* ocr_confidence_threshold, in percent

ASSUME MinCharsAssumption == MinChars \in Nat \ {0}
ASSUME OcrThresholdAssumption == OcrThreshold \in 0..100

\* Characters, and in percent: the undecodable ones, and the words that look
\* like words (no vowelless runs, nothing run together).
Counts == [chars : Nat, bad : 0..100, plausible : 0..100]

Smaller(x, y) == IF x < y THEN x ELSE y
Larger(x, y)  == IF x > y THEN x ELSE y

\* Saturates at four times the threshold.
Density(c) == Smaller(100, (100 * c.chars) \div (4 * MinChars))

TooFew(c)      == c.chars < MinChars
BrokenFont(c)  == c.bad > 5
Implausible(c) == c.plausible < 50

AssessPageText(c) ==
    IF c.chars = 0 THEN 0
    ELSE IF TooFew(c) THEN (Density(c) * 4) \div 10
    ELSE IF BrokenFont(c) THEN Larger(0, 40 - c.bad)
    ELSE IF Implausible(c) THEN (c.plausible * 8) \div 10
    ELSE Smaller(100, 55 + Density(c) \div 4 + c.plausible \div 5 - c.bad)

\* The reasons a page can be given for a low score; one without any has "text
\* layer is usable" as its reason.
Doubtful(c) == TooFew(c) \/ BrokenFont(c) \/ Implausible(c)

ShouldOcrPage(confidence) == confidence < OcrThreshold

Usable(c) == AssessPageText(c) >= 50

=============================================================================
