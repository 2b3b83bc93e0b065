----------------------------- MODULE MCPatterns -----------------------------
(* A finite instance of Patterns: two letters, * and ?, an escaped letter and an      *)
(* escaped *, two brackets and groups whose alternatives overlap, repeat, hold a * or *)
(* hold another group.                                                                *)
EXTENDS Patterns

A == Char("a")
B == Char("b")

Groups == {<< <<A>> >>, << <<A>>, <<A, B>> >>, << <<B, Star>>, <<>> >>,
           << <<Ext("+", << <<A>> >>), B>> >>}

MCLetters == {"a", "b"}
MCTokens == {A, B, Star, AnyOne, Escaped(B), Escaped(Star), Bracket({"a"}, FALSE), Bracket({"a"}, TRUE)}
              \union {Ext(op, g) : op \in {"@", "?", "*", "+"}, g \in Groups}
MCNegations == {A, B, Star, Ext("!", << <<A>> >>), Ext("!", << <<Ext("+", << <<A>> >>)>> >>)}

=============================================================================
