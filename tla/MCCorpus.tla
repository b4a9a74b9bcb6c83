------------------------------ MODULE MCCorpus ------------------------------
(* Papers that differ in what the rules of currency look at. *)
EXTENDS Corpus

Bare(b)     == [base |-> b, style |-> "bare"]
Suffixed(b) == [base |-> b, style |-> "suffixed"]

Blank == [ slug |-> "surrey", number |-> Bare(100), filename |-> Undetected,
           phrases |-> {"title"}, consolidated |-> NoDate, adopted |-> NoDate, year |-> NoYear,
           amends |-> {}, amended_by |-> {}, repeals |-> {} ]

MCPrinted ==
    [ base          |-> [Blank EXCEPT !.adopted = 1],
      undated       |-> [Blank EXCEPT !.number = Undetected, !.filename = Bare(100),
                                      !.phrases = {"consolidated for convenience"}],
      consolidated  |-> [Blank EXCEPT !.consolidated = 3, !.number = Suffixed(100)],
      tied          |-> [Blank EXCEPT !.consolidated = 3, !.amended_by = {Bare(200)}],
      schedule      |-> [Blank EXCEPT !.phrases = {"schedule"}, !.year = 2],
      elsewhere     |-> [Blank EXCEPT !.slug = "coquitlam", !.adopted = 2],
      unplaced      |-> [Blank EXCEPT !.slug = Undetected, !.adopted = 4, !.amends = {Bare(100)}],
      early         |-> [Blank EXCEPT !.number = Bare(200), !.adopted = 2, !.amends = {Bare(100)}],
      late          |-> [Blank EXCEPT !.number = Bare(200), !.adopted = 5, !.amends = {Suffixed(100)}],
      repealing     |-> [Blank EXCEPT !.number = Bare(200), !.adopted = 4, !.repeals = {Bare(100), Suffixed(200)}],
      undatedamends |-> [Blank EXCEPT !.number = Bare(200), !.phrases = {"amendment bylaw"},
                                      !.amends = {Bare(100)}] ]

MCFile == DOMAIN MCPrinted
=============================================================================
