---------------------------- MODULE MCProcessOutput ----------------------------
(* A line and an unfinished one on the standard output, which reads cut    *)
(* anywhere; a word on the standard error that comes in between.           *)
EXTENDS ProcessOutput

MCContent == [s \in Stream |-> IF s = "stdout" THEN <<"text", "end", "text">> ELSE <<"text">>]

=============================================================================
