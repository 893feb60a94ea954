------------------------------ MODULE MCSnappy ------------------------------
(* Texts of three kinds: some different bytes, a repetition of what lies a *)
(* given distance back and different bytes again; all texts of two bytes   *)
(* with a repetition behind them; different bytes, one byte many times and *)
(* a repetition of the first bytes, from far away.                         *)
EXTENDS Snappy

CONSTANTS Plain, Periods, Runs, Tails, Prefix, Far, FarRuns

Repeating == {<<"repeat", d, p, m, t>> : d \in Plain, p \in Periods, m \in Runs, t \in Tails}
Binary == {<<"binary", w, p>> : w \in [1 .. Prefix -> {0, 1}], p \in {1, 3, Prefix}}
MCTexts == {t \in Repeating : t[3] <= t[2]} \cup Binary \cup {<<"far", d, m>> : d \in Far, m \in FarRuns}

Repetition(d, p, m, t) ==
    [i \in 0 .. d + m + t - 1 |->
       IF i < d \/ i >= d + m THEN i ELSE d - p + ((i - d) % p)]

FarRepetition(d, m) ==
    [i \in 0 .. d + m + 19 |->
       IF i < 12 THEN i ELSE IF i < d THEN 12 ELSE IF i < d + m THEN 1 + i - d
       ELSE 20 + i - d]

MCContent ==
    [t \in MCTexts |->
       IF t[1] = "repeat" THEN Repetition(t[2], t[3], t[4], t[5])
       ELSE IF t[1] = "far" THEN FarRepetition(t[2], t[3])
       ELSE [i \in 0 .. Prefix + 19 |->
               IF i < Prefix THEN t[2][i + 1] ELSE t[2][Prefix - t[3] + 1 + ((i - Prefix) % t[3])]]]

MCSize ==
    [t \in MCTexts |->
       IF t[1] = "repeat" THEN t[2] + t[4] + t[5]
       ELSE IF t[1] = "far" THEN t[2] + t[3] + 20 ELSE Prefix + 20]

(* A hash function with collisions.                                        *)
MCBuckets == 0 .. 12
MCHash(w) == (w[1] + (2 * w[2]) + (5 * w[3]) + (7 * w[4])) % 13
MCBytes == 0 .. 420
=============================================================================
