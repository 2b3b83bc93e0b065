------------------------------ MODULE Patterns ------------------------------
(***************************************************************************)
(* Shell patterns: the backtracking matcher of case, [[ and pathname       *)
(* expansion (interpreter/glob.rs) and the removal of a prefix or a suffix *)
(* in ${x#p}, ${x##p}, ${x%p} and ${x%%p} (interpreter/mod.rs), against    *)
(* what POSIX and bash say a pattern means.  A pattern is a sequence of    *)
(* tokens; an extglob token holds its alternatives, an escaped token is    *)
(* one behind a backslash, which is what quoting leaves of it.  The        *)
(* specification grows a value and a pattern, the invariants compare the   *)
(* two meanings.                                                           *)
(***************************************************************************)
EXTENDS Naturals, Sequences, FiniteSets
LOCAL INSTANCE SequencesExt

CONSTANTS Letters,          \* the characters of values
          Tokens,           \* the tokens patterns are built from
          MaxValue, MaxPattern,                     \* bounds on the lengths of the two
          MaxGlobDepth,     \* MAX_GLOB_DEPTH
          MaxGlobMatchCalls \* MAX_GLOB_MATCH_CALLS

Char(l) == [kind |-> "char", char |-> l]
Star == [kind |-> "star"]
AnyOne == [kind |-> "any"]
Bracket(set, negate) == [kind |-> "set", chars |-> set, negate |-> negate]
Ext(op, alts) == [kind |-> "ext", op |-> op, alts |-> alts]
Escaped(t) == [kind |-> "escaped", token |-> t]

VARIABLES value, pattern

First(s, n) == SubSeq(s, 1, n)
Skip(s, n) == SubSeq(s, n + 1, Len(s))
AnyOf(alts) == {alts[i] : i \in DOMAIN alts}

\* The character a token is written with
Spelled(t) == IF t.kind = "char" THEN t.char ELSE t.kind

\* What a pattern says when nothing in it is special and backslashes are taken away
Text(p) ==
  [i \in DOMAIN p |-> IF p[i].kind = "escaped" THEN Spelled(p[i].token) ELSE Spelled(p[i])]

\* What the matcher, which knows no escapes, takes a pattern for
Raw(p) == FlattenSeq([i \in DOMAIN p |->
            IF p[i].kind = "escaped" THEN <<Char("backslash"), p[i].token>> ELSE <<p[i]>>])

IsText(p) == \A i \in DOMAIN p : p[i].kind = "char"
Has(p, kind) == \E i \in DOMAIN p : p[i].kind = kind

----------------------------------------------------------------------------
(* What patterns mean: how the value is cut, one piece for each token.     *)

RECURSIVE Means(_, _), Repeats(_, _)

TokenMeans(t, w) ==
  LET one == \E a \in AnyOf(t.alts) : Means(a, w)
  IN  CASE t.kind = "char" -> w = <<t.char>>
        [] t.kind = "escaped" -> w = <<Spelled(t.token)>>
        [] t.kind = "any"  -> Len(w) = 1
        [] t.kind = "set"  -> Len(w) = 1 /\ (w[1] \in t.chars) # t.negate
        [] t.kind = "star" -> TRUE
        [] t.kind = "ext"  -> CASE t.op = "@" -> one
                                [] t.op = "?" -> w = <<>> \/ one
                                [] t.op = "*" -> Repeats(t.alts, w)
                                [] t.op = "+" -> one \/ (w # <<>> /\ Repeats(t.alts, w))
                                [] t.op = "!" -> ~one

Means(p, w) ==
  IF p = <<>> THEN w = <<>>
  ELSE \E n \in 0 .. Len(w) : TokenMeans(p[1], First(w, n)) /\ Means(Tail(p), Skip(w, n))

Repeats(alts, w) ==
  \/ w = <<>>
  \/ \E n \in 1 .. Len(w) :
       (\E a \in AnyOf(alts) : Means(a, First(w, n))) /\ Repeats(alts, Skip(w, n))

----------------------------------------------------------------------------
(* The matcher.                                                            *)

RECURSIVE GlobMatchImpl(_, _, _), Walk(_, _, _)

\* Mutants: slips that a rewrite of the matcher could make.
OnceOnly(t, rest, v, depth) == \E a \in AnyOf(t.alts) : GlobMatchImpl(v, a \o rest, depth + 1)

\* match_bracket_expr of a bracket that is closed
MatchBracketExpr(t, c) == IF t.negate THEN c \notin t.chars ELSE c \in t.chars

\* * in the middle: every suffix of the value, the empty one last
StarMatches(v, p, depth) == \E n \in 0 .. Len(v) : GlobMatchImpl(Skip(v, n), p, depth + 1)

\* One of the alternatives, as text in front of the rest of the pattern
OneMatches(t, rest, v, depth) == \E a \in AnyOf(t.alts) : GlobMatchImpl(v, a \o rest, depth + 1)

\* One alternative takes a prefix, and the same group goes on with the rest of the value.
MoreMatches(t, rest, v, depth) ==
  \/ OneMatches(t, rest, v, depth)
  \/ \E a \in AnyOf(t.alts), n \in 1 .. Len(v) :
       /\ GlobMatchImpl(First(v, n), a, depth + 1)
       /\ GlobMatchImpl(Skip(v, n), <<t>> \o rest, depth + 1)

MatchExtglob(t, rest, v, depth) ==
  IF depth >= MaxGlobDepth THEN FALSE
  ELSE CASE t.op = "@" -> OneMatches(t, rest, v, depth)
         [] t.op = "?" -> GlobMatchImpl(v, rest, depth + 1) \/ OneMatches(t, rest, v, depth)
         [] t.op = "+" -> MoreMatches(t, rest, v, depth)
         [] t.op = "*" -> GlobMatchImpl(v, rest, depth + 1) \/ MoreMatches(t, rest, v, depth)
         [] t.op = "!" ->
              \/ /\ ~GlobMatchImpl(v, <<Ext("@", t.alts)>> \o rest, depth + 1)
                 /\ GlobMatchImpl(v, rest, depth + 1)
              \/ \E n \in 1 .. Len(v) :
                   /\ \A a \in AnyOf(t.alts) : ~GlobMatchImpl(First(v, n), a, depth + 1)
                   /\ GlobMatchImpl(Skip(v, n), rest, depth + 1)

\* The loop over pattern and value, up to the first * or group: @, + and ! with nothing
\* left of the value fail there and then, whatever their alternatives.
Walk(v, p, depth) ==
  IF p = <<>> THEN v = <<>>
  ELSE CASE p[1].kind = "star" -> Len(p) = 1 \/ StarMatches(v, Tail(p), depth)
         [] p[1].kind = "ext"  -> (v # <<>> \/ p[1].op \in {"*", "?"})
                                    /\ GlobMatchImpl(v, p, depth + 1)
         [] p[1].kind = "any"  -> v # <<>> /\ Walk(Tail(v), Tail(p), depth)
         [] p[1].kind = "set"  -> /\ v # <<>> /\ MatchBracketExpr(p[1], v[1])
                                  /\ Walk(Tail(v), Tail(p), depth)
         [] p[1].kind = "char" -> /\ v # <<>> /\ v[1] = p[1].char
                                  /\ Walk(Tail(v), Tail(p), depth)

GlobMatchImpl(v, p, depth) ==
  IF depth >= MaxGlobDepth THEN FALSE
  ELSE IF p # <<>> /\ p[1].kind = "ext" THEN MatchExtglob(p[1], Tail(p), v, depth + 1)
  ELSE Walk(v, p, depth)

GlobMatch(v, p) == GlobMatchImpl(v, Raw(p), 0)

PatternMatches(v, p) ==
  IF p = <<Star>> THEN TRUE
  ELSE IF IsText(Raw(p)) THEN v = Text(Raw(p))
  ELSE GlobMatch(v, p)

----------------------------------------------------------------------------
(* Removal of a prefix or a suffix.  A cut is where the value is cut in two. *)

Lowest(S) == CHOOSE n \in S : \A m \in S : n <= m
Highest(S) == CHOOSE n \in S : \A m \in S : n >= m
IsAt(s, v, i) == i + Len(s) <= Len(v) /\ SubSeq(v, i + 1, i + Len(s)) = s
Places(s, v) == {i \in 0 .. Len(v) : IsAt(s, v, i)}        \* find and rfind

\* Mutant: the first occurrence for the longest match too.
FirstPlace(longest, S) == Lowest(S)

\* Where a prefix ends: rfind for the longest, find for the shortest.
PrefixEnd(longest, S) == IF longest THEN Highest(S) ELSE Lowest(S)
SuffixStart(longest, S) == IF longest THEN Lowest(S) ELSE Highest(S)

\* The cuts that are looked at, from the shortest removal on, before the search gives up
Asked(v, prefix) ==
  {n \in 0 .. Len(v) : (IF prefix THEN n ELSE Len(v) - n) < MaxGlobMatchCalls}

\* remove_pattern_glob: the matcher is asked about one prefix or suffix after the other.
RemovePatternGlob(v, p, prefix, longest) ==
  LET cuts == {n \in Asked(v, prefix) : GlobMatch(IF prefix THEN First(v, n) ELSE Skip(v, n), p)}
  IN  IF cuts = {} THEN v
      ELSE IF prefix THEN Skip(v, PrefixEnd(longest, cuts))
      ELSE First(v, SuffixStart(longest, cuts))

\* The pattern has a * at place star: what stands before it, what after it.
RemoveAround(v, before, after, prefix, longest) ==
  LET atStart == IsAt(before, v, 0)
      atEnd == Len(after) <= Len(v) /\ IsAt(after, v, Len(v) - Len(after))
      ends == {i + Len(after) : i \in {j \in Places(after, v) : j >= Len(before)}}
      starts == {i \in Places(before, v) : i + Len(before) + Len(after) <= Len(v)}
  IN  IF prefix
      THEN IF ~atStart \/ ends = {} THEN v
           ELSE IF after = <<>> THEN (IF longest THEN <<>> ELSE Skip(v, Len(before)))
           ELSE Skip(v, PrefixEnd(longest, ends))
      ELSE IF ~atEnd \/ starts = {} THEN v
           ELSE IF before = <<>> THEN (IF longest THEN <<>> ELSE First(v, Len(v) - Len(after)))
           ELSE First(v, SuffixStart(longest, starts))

RemoveLiteral(v, s, prefix) ==
  IF prefix THEN IF IsAt(s, v, 0) THEN Skip(v, Len(s)) ELSE v
  ELSE IF Len(s) <= Len(v) /\ IsAt(s, v, Len(v) - Len(s)) THEN First(v, Len(v) - Len(s)) ELSE v

\* remove_pattern: the first * is one, a second * and every ? stand for themselves.  Escapes
\* are taken away, but not from a pattern with a bracket or a group.
RemovePattern(v, p, prefix, longest) ==
  IF p = <<>> THEN v
  ELSE IF Has(p, "set") \/ Has(p, "ext") THEN RemovePatternGlob(v, p, prefix, longest)
  ELSE IF p = <<Star>>
  THEN IF longest \/ v = <<>> THEN <<>> ELSE IF prefix THEN Tail(v) ELSE First(v, Len(v) - 1)
  ELSE IF Has(p, "star")
  THEN LET star == Lowest({i \in DOMAIN p : p[i] = Star})
       IN  RemoveAround(v, Text(First(p, star - 1)), Text(Skip(p, star)), prefix, longest)
  ELSE RemoveLiteral(v, Text(p), prefix)

----------------------------------------------------------------------------
(* Every value and every pattern within the bounds.                        *)

Init == value = <<>> /\ pattern = <<>>

GrowValue ==
  /\ Len(value) < MaxValue
  /\ \E l \in Letters : value' = Append(value, l)
  /\ UNCHANGED pattern

GrowPattern ==
  /\ Len(pattern) < MaxPattern
  /\ \E t \in Tokens : pattern' = Append(pattern, t)
  /\ UNCHANGED value

Next == GrowValue \/ GrowPattern

Spec == Init /\ [][Next]_<<value, pattern>>

----------------------------------------------------------------------------
(* What the code is right about.                                           *)

RECURSIVE Some(_, _)

\* Is there a token of which Test holds, in the pattern or in a group of it?
Some(Test(_), p) ==
  \E i \in DOMAIN p : \/ Test(p[i])
                      \/ p[i].kind = "ext" /\ \E a \in AnyOf(p[i].alts) : Some(Test, a)

Negation(t) == t.kind = "ext" /\ t.op = "!"

\* @ and + with an alternative that may be empty, which the loop never asks at the end.
MayBeEmpty(t) == t.kind = "ext" /\ t.op \in {"@", "+"} /\ \E a \in AnyOf(t.alts) : Means(a, <<>>)

RECURSIVE Depth(_)
Depth(p) ==
  IF p = <<>> THEN 0
  ELSE Depth(Tail(p)) + (CASE p[1].kind = "star" -> 1
                           [] p[1].kind = "ext" -> 3 + Highest({Depth(a) : a \in AnyOf(p[1].alts)})
                           [] OTHER -> 0)

\* The patterns the matcher searches to the end.  A group costs three calls and each
\* character of a repetition two.
Searched(p) ==
  ~Some(Negation, p) /\ ~Some(MayBeEmpty, p) /\ Depth(p) + 2 * Len(value) < MaxGlobDepth

\* A value that matches is one the pattern means, wherever the depth limit cuts the search
\* off; and within the limit every value the pattern means is found, however often the
\* matcher has to go back.  (With !(...) neither holds: NegationsMeanTheRest.  An escape is a
\* backslash and a token to the matcher.)
MatchesAreExact ==
  ~Has(pattern, "escaped") =>
    /\ ~Some(Negation, pattern) /\ PatternMatches(value, pattern) => Means(pattern, value)
    /\ Searched(pattern) /\ Means(pattern, value) => PatternMatches(value, pattern)

\* The patterns that removals understand: with a bracket or a group, those without escapes;
\* without, those with no ? and one * at most, and with escapes.
NeedsMatcher(p) == Has(p, "set") \/ Has(p, "ext")
Understood(p) ==
  /\ p # <<Star>> /\ Searched(p)
  /\ IF NeedsMatcher(p) THEN ~Has(p, "escaped")
     ELSE ~Has(p, "any") /\ Cardinality({i \in DOMAIN p : p[i] = Star}) <= 1

\* What ${x#p} and its three siblings remove is the shortest or longest prefix or suffix
\* that the pattern means, and nothing when there is none; but with a bracket or a group
\* they remove fewer than MaxGlobMatchCalls characters, as long as the value may be.
RemovalsAreExact ==
  Understood(pattern) =>
    \A longest \in BOOLEAN :
      LET InReach(removed) == NeedsMatcher(pattern) => removed < MaxGlobMatchCalls
          ends == {n \in 0 .. Len(value) : InReach(n) /\ Means(pattern, First(value, n))}
          starts == {n \in 0 .. Len(value) :
                       InReach(Len(value) - n) /\ Means(pattern, Skip(value, n))}
      IN  /\ RemovePattern(value, pattern, TRUE, longest) =
               IF ends = {} THEN value
               ELSE Skip(value, IF longest THEN Highest(ends) ELSE Lowest(ends))
          /\ RemovePattern(value, pattern, FALSE, longest) =
               IF starts = {} THEN value
               ELSE First(value, IF longest THEN Lowest(starts) ELSE Highest(starts))

\* ${x##p} leaves no more than what the longest prefix that p means leaves: the code does not
\* where that prefix has MaxGlobMatchCalls characters or more (mod.rs:9266 "longest = last
\* match").
LongestIsLongest ==
  Understood(pattern) =>
    \A n \in 0 .. Len(value) :
      Means(pattern, First(value, n)) =>
        Len(RemovePattern(value, pattern, TRUE, TRUE)) <= Len(value) - n

\* A quoted character stands for itself in a pattern with a bracket or a group too: the code
\* hands the backslash to a matcher that knows none (mod.rs:9125).
EscapesCount ==
  Searched(pattern) /\ NeedsMatcher(pattern) /\ Len(value) < MaxGlobMatchCalls =>
    \A n \in 0 .. Len(value) :
      Means(pattern, First(value, n)) =>
        Len(RemovePattern(value, pattern, TRUE, TRUE)) <= Len(value) - n

\* glob.rs:416 "match anything except one of the alternatives": the code does not where the
\* value ends before the group, where * follows it, and at the depth limit.
NegationsMeanTheRest ==
  Some(Negation, pattern) => PatternMatches(value, pattern) = Means(pattern, value)

=============================================================================
