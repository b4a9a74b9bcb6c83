---------------------------- MODULE MCUploadJobs ----------------------------
(* Two versions of one bylaw, uploaded under one title and so one file name. *)
EXTENDS UploadJobs

Blank == [ slug |-> "surrey", number |-> [base |-> 100, style |-> "bare"], filename |-> Undetected,
           phrases |-> {"title"}, consolidated |-> NoDate, adopted |-> NoDate, year |-> NoYear,
           amends |-> {}, amended_by |-> {}, repeals |-> {} ]

MCPrinted == [ older |-> [Blank EXCEPT !.adopted = 1], newer |-> [Blank EXCEPT !.consolidated = 3] ]

MCFile == DOMAIN MCPrinted

MCProvinceOf == [m \in {"surrey"} |-> "BC"]

MCSanitised == [t \in {"Sign Bylaw"} |-> "sign-bylaw"]

MCForm == [province : {"BC", "AB"}, municipality : {"surrey"}, title : {"Sign Bylaw"},
           content : MCFile \union {"not a PDF"}]
=============================================================================
