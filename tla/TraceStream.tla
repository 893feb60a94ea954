----------------------------- MODULE TraceStream -----------------------------
(***************************************************************************)
(* What the trace files of a profiled program promise to their readers     *)
(* (TraceFileReader, Aggregator.pm), whatever forks, ithreads, restarts and*)
(* crashes happened while they were written.                               *)
(*                                                                         *)
(* A file belongs to a stream and only grows while it is open; it freezes  *)
(* when another stream starts to depend on it, and is then finished.  The  *)
(* files of a stream come one after the other, and the last one says so.   *)
(*                                                                         *)
(* A step may change any number of files, each one as Evolve allows.       *)
(***************************************************************************)
EXTENDS Integers, SequencesExt

CONSTANT NoParent      \* the parent of a stream nothing came before

VARIABLE files         \* the files there are, by [id, ordinal]

TypeOK ==
    \A r \in DOMAIN files :
        /\ files[r].status \in {"open", "frozen", "finished", "lost"}
        /\ files[r].last => files[r].status = "finished"

Init == files = <<>>

(* The life of a file.                                                     *)
Evolve(f, g) ==
    /\ g.parent = f.parent
    /\ IsPrefix(f.records, g.records)
    /\ f.status # "open" => g.records = f.records
    /\ f.status \in {"finished", "lost"} => g = f
    /\ f.status = "frozen" => g.status # "open"

(* The file before it in the stream is finished, not the end of the stream,*)
(* and has the same parent; the file its stream depends on does not change *)
(* any more.                                                               *)
Begin(now, r, g) ==
    /\ r.ordinal > 1 =>
          LET p == [r EXCEPT !.ordinal = @ - 1]
          IN  /\ p \in DOMAIN now
              /\ now[p].status = "finished" /\ ~now[p].last
              /\ now[p].parent = g.parent
    /\ g.parent # NoParent =>
          g.parent \in DOMAIN now /\ now[g.parent].status # "open"

(* How the files that were there become those that are there now.          *)
Grow(was, now) ==
    /\ DOMAIN was \subseteq DOMAIN now
    /\ \A r \in DOMAIN now :
          /\ IF r \in DOMAIN was THEN Evolve(was[r], now[r])
             ELSE r.ordinal >= 1 /\ Begin(now, r, now[r])
          /\ now[r].last => now[r].status = "finished"

Next == Grow(files, files')

Spec == Init /\ [][Next]_files
=============================================================================
