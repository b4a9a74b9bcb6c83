------------------------------ MODULE Metadata ------------------------------
(***************************************************************************)
(* What is printed in a bylaw PDF, and what MetadataDetector               *)
(* (ingestion/metadata.py) recovers from it.  Text, regular expressions    *)
(* and evidence strings are abstracted to the facts they find.  Calendar   *)
(* dates are numbered days: day 1 is 1 January of year 1, and 0 stands for *)
(* "no date" or "no year".                                                 *)
(***************************************************************************)
EXTENDS Integers

CONSTANTS
    Municipality,   \* canonical slugs of the registry
    BylawBase,      \* bylaw numbers, without suffix and leading zeros
    YearLength,     \* days in a model year
    Undetected      \* a slug or a bylaw number that could not be determined

ASSUME YearLengthAssumption == YearLength \in Nat \ {0}
ASSUME UndetectedAssumption == Undetected \notin Municipality

NoDate == 0
NoYear == 0

\* date(year, 1, 1), and the year a date falls in.
NewYear(year) == (year - 1) * YearLength + 1
YearOf(day) == (day - 1) \div YearLength + 1

DocType == {"base", "amendment", "consolidated", "schedule", "policy", "unknown"}

DocumentStatus == {"in_force", "superseded", "repealed", "unknown"}

\* The styles in which one bylaw number is printed: 451, 451-2019, 0451.
Citation == [base : BylawBase, style : {"bare", "suffixed", "padded"}]

\* Wording on the first pages that decides the document type.
Phrase == {"consolidated for convenience", "amendment bylaw", "schedule", "title"}

\* `number` is printed in the text, `filename` is the one in the file's name.
\* `amends` and `repeals` are enacting clauses of the document itself;
\* `amended_by` is the list of amending bylaws a consolidation prints.
Paper == [ slug         : Municipality \union {Undetected},
           number       : Citation \union {Undetected},
           filename     : Citation \union {Undetected},
           phrases      : SUBSET Phrase,
           consolidated : Nat,
           adopted      : Nat,
           year         : Nat,
           amends       : SUBSET Citation,
           amended_by   : SUBSET Citation,
           repeals      : SUBSET Citation ]

\* One list for all three patterns: what a bylaw repeals is recorded as
\* something it amends.  Only the number printed in the text is left out.
ReferencedNumbers(p) == (p.amends \union p.amended_by \union p.repeals) \ {p.number}

Classify(p) ==
    IF p.consolidated # NoDate \/ "consolidated for convenience" \in p.phrases
    THEN "consolidated"
    ELSE IF \/ p.amends # {} \/ "amendment bylaw" \in p.phrases
            \/ ReferencedNumbers(p) # {} /\ "title" \notin p.phrases
    THEN "amendment"
    ELSE IF "schedule" \in p.phrases THEN "schedule"
    ELSE IF "title" \in p.phrases THEN "base" ELSE "unknown"

\* The adoption date survives only as its year.
YearFor(p) ==
    IF p.adopted # NoDate THEN YearOf(p.adopted)
    ELSE IF p.consolidated # NoDate THEN YearOf(p.consolidated) ELSE p.year

DocumentMetadata == [ slug               : Municipality \union {Undetected},
                      number             : Citation \union {Undetected},
                      doc_type           : DocType,
                      consolidation_date : Nat,
                      year               : Nat,
                      amends             : SUBSET Citation ]

\* The text outranks the filename.
Detect(p) == [ slug               |-> p.slug,
               number             |-> IF p.number # Undetected THEN p.number ELSE p.filename,
               doc_type           |-> Classify(p),
               consolidation_date |-> p.consolidated,
               year               |-> YearFor(p),
               amends             |-> ReferencedNumbers(p) ]

=============================================================================
