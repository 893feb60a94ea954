----------------------------- MODULE MCTraceFile -----------------------------
(* A number of five bytes, one of two and one of one byte; strings of      *)
(* different lengths.                                                      *)
EXTENDS TraceFile

MCStrings == {"", "f.pl", "(eval 1)", "s", "source", "v", "id", "meta", "op", "main",
              "BEGIN", "f"}
MCSize ==
    [x \in MCStrings |->
        IF x = "" THEN 0 ELSE IF x \in {"(eval 1)", "source"} THEN 2 ELSE 1]

MCEvalName == <<"(eval 1)">>
MCSource == <<"source">>

MCFirstLines == {-1}

(* What a reader knows that is older than EVAL_SEQ.                        *)
Older == Tags \ {"EVAL_SEQ"}

Configs == {<<TRUE, FALSE>>, <<FALSE, TRUE>>}
(* The combination Configs leaves out, which Perls may be given instead: a  *)
(* reading Perl from 5.36 on with evals mapped (README, section 5).         *)
NewMapping == {<<TRUE, TRUE>>}

=============================================================================
