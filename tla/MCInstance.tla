----------------------------- MODULE MCInstance -----------------------------
(* Files of at most three lines over two variables, with all a clause can  *)
(* have in the way of its first character and of its literals: a chunk     *)
(* holds three of them, a heap a few arrays.                               *)
EXTENDS Instance

ClauseLine(w, blank, lits) == [kind |-> "clause", weight |-> w, blank |-> blank, lits |-> lits]
OtherLine(kind) == [kind |-> kind, weight |-> 0, blank |-> FALSE, lits |-> <<>>]

Lits == {<<>>, <<1>>, <<-1>>, <<2, 1>>, <<-2, 1>>, <<2, -1, 2>>, <<1, -2, -1>>,
         <<2, 2, 1, 1>>}

Plain    == {ClauseLine(0, b, l) : b \in BOOLEAN, l \in Lits}
Heavy    == {ClauseLine(w, FALSE, l) : w \in 1..3, l \in Lits}
Unspaced == {ClauseLine(0, FALSE, l) : l \in Lits \ {<<-1>>, <<2, 1>>}}

Sequences(lines, n) == UNION {[1..k -> lines] : k \in 0..n}
FilesOf(format, lines, n) == {[format |-> format, lines |-> s] : s \in Sequences(lines, n)}

Comment == {OtherLine("comment")}

Partials ==
    {[format |-> "pmcnf", lines |-> s] :
        s \in UNION {{<<OtherLine("hard")>> \o h \o <<OtherLine("soft")>> \o t,
                      h \o <<OtherLine("soft")>> \o t} :
                     h \in Sequences(Unspaced, 2), t \in Sequences(Unspaced, 1)}}
    \cup FilesOf("pmcnf", Unspaced \cup Comment \cup {OtherLine("hard"), OtherLine("soft")}, 2)

MCFiles ==
    UNION {FilesOf("cnf", Plain \cup Comment, 2), FilesOf("cnf", Unspaced, 3),
           FilesOf("wcnf", Heavy \cup Comment, 2),
           FilesOf("wpmcnf", Unspaced, 1), Partials}

CNFFiles == FilesOf("cnf", Plain, 2)

HardThenSoft ==
    {[format |-> "pmcnf", lines |-> <<OtherLine("hard"), h, OtherLine("soft"), s>>] :
        h, s \in {x \in Unspaced : x.lits # <<>>}}
=============================================================================
