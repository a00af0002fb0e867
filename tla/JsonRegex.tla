----------------------------- MODULE JsonRegex ------------------------------
(***************************************************************************)
(* The regular expressions of internal/regex.h: Parse compiles an          *)
(* expression to the states of an automaton with two stacks, of operands   *)
(* (fragments whose loose ends are linked through their out fields) and of *)
(* operators; SearchWithAnchoring runs it over a text.  Expressions are    *)
(* typed token by token, and every prefix is compiled.  States and ranges  *)
(* are numbered from 1, 0 is kRegexInvalidState.                           *)
(***************************************************************************)
EXTENDS Utf8, SequencesExt

CONSTANTS Atoms,        \* tokens for one character, and the characters of the
                        \* subjects each stands for
          Quantifiers,  \* tokens for repetition, and how often: <<least, most>>
          Expressions,  \* records [seed, more, tokens]: how an expression begins,
                        \* what may follow, how many tokens
          Subjects      \* texts to match: sequences of code points

VARIABLES expression,   \* a record of Expressions
          tokens,       \* those typed so far
          regex         \* what Parse made of them

vars == <<expression, tokens, regex>>

Unlimited    == -1      \* kInfinityQuantifier
AnyCharacter == -1      \* kAnyCharacterClass
InRange      == -2      \* kRangeCharacterClass

RECURSIVE CodePointsFrom(_, _)
\* DecodedStream: a byte sequence that is not UTF-8 ends the text.
CodePointsFrom(t, p) ==
    IF p > Len(t) \/ Validated(t, p) = 0 THEN <<>>
    ELSE <<Decode(t, p)>> \o CodePointsFrom(t, p + Validated(t, p))

(* Fragments. *)

NewState(r, out, out1, codepoint) ==
    [r EXCEPT !.states = Append(@, [out |-> out, out1 |-> out1, rangeStart |-> 0,
                                    codepoint |-> codepoint])]

Frag(start, out, minIndex) == [start |-> start, out |-> out, minIndex |-> minIndex]

\* The newest state as an operand.
Operand(r) == [r EXCEPT !.operands = Append(@, Frag(Len(r.states), Len(r.states), Len(r.states)))]

PushOperand(r, codepoint) == Operand(NewState(r, 0, 0, codepoint))

ImplicitConcatenation(r) ==
    [r EXCEPT !.operators = IF Last(r.atoms) > 0 THEN Append(@, "Concatenation") ELSE @,
              !.atoms[Len(r.atoms)] = @ + 1]

RECURSIVE LooseEnds(_, _)
LooseEnds(states, l) == IF l = 0 THEN <<>> ELSE <<l>> \o LooseEnds(states, states[l].out)

\* Two lists of loose ends become one.
Linked(states, l1, l2) == [states EXCEPT ![Last(LooseEnds(states, l1))].out = l2]

Patch(states, l, s) ==
    [i \in DOMAIN states |->
        IF Contains(LooseEnds(states, l), i) THEN [states[i] EXCEPT !.out = s] ELSE states[i]]

Lesser(a, b) == IF a < b THEN a ELSE b

Rejected(r)  == [r EXCEPT !.status = "rejected"]
Asserting(r) == [r EXCEPT !.status = "assertion"]

\* The operands below the n on top.
Below(r, n) == SubSeq(r.operands, 1, Len(r.operands) - n)

Concatenate(r, e1, e2) ==
    [r EXCEPT !.states = Patch(@, e1.out, e2.start),
              !.operands = Append(Below(r, 2),
                                  Frag(e1.start, e2.out, Lesser(e1.minIndex, e2.minIndex)))]

\* s is the split state added last.
Alternate(r, e1, e2, s) ==
    [r EXCEPT !.states = Linked(@, e1.out, e2.out),
              !.operands = Append(Below(r, 2),
                                  Frag(s, e1.out, Lesser(e1.minIndex, e2.minIndex)))]

RepeatWith(op, r, e, s) ==
    CASE op = "ZeroOrOne" ->
            [r EXCEPT !.states = Linked(@, e.out, s),
                      !.operands = Append(Below(r, 1), Frag(s, e.out, e.minIndex))]
      [] op = "ZeroOrMore" ->
            [r EXCEPT !.states = Patch(@, e.out, s),
                      !.operands = Append(Below(r, 1), Frag(s, s, e.minIndex))]
      [] op = "OneOrMore" ->
            [r EXCEPT !.states = Patch(@, e.out, s),
                      !.operands = Append(Below(r, 1), Frag(e.start, s, e.minIndex))]

\* An operator, applied to the operands on top.
Eval(r, op) ==
    LET n == Len(r.operands)
        s == Len(r.states) + 1
    IN  CASE op = "Concatenation" ->
                IF n < 2 THEN Asserting(r) ELSE Concatenate(r, r.operands[n - 1], r.operands[n])
          [] op = "Alternation" ->
                IF n < 2 THEN Rejected(r)
                ELSE Alternate(NewState(r, r.operands[n - 1].start, r.operands[n].start, 0),
                               r.operands[n - 1], r.operands[n], s)
          [] op = "LeftParenthesis" -> Asserting(r)
          [] OTHER ->
                IF n < 1 THEN Rejected(r)
                ELSE RepeatWith(op, NewState(r, 0, r.operands[n].start, 0), r.operands[n], s)

\* Mutation: out1 of the copied states still leads to the original.
CloneTopOperandShallow(r) ==
    LET src == Last(r.operands)
        count == Len(r.states) + 1 - src.minIndex
        copy(s) == [s EXCEPT !.out = IF @ = 0 THEN 0 ELSE @ + count]
    IN  [r EXCEPT !.states = @ \o [j \in 1 .. count |-> copy(r.states[src.minIndex + j - 1])],
                  !.operands = Append(@, Frag(src.start + count, src.out + count,
                                              src.minIndex + count))]

\* A copy of the states of the top operand, which are the last ones.
CloneTopOperand(r) ==
    LET src == Last(r.operands)
        count == Len(r.states) + 1 - src.minIndex
        shifted(i) == IF i = 0 THEN 0 ELSE i + count
        copy(s) == [s EXCEPT !.out = shifted(@), !.out1 = shifted(@)]
    IN  [r EXCEPT !.states = @ \o [j \in 1 .. count |-> copy(r.states[src.minIndex + j - 1])],
                  !.operands = Append(@, Frag(src.start + count, src.out + count,
                                              src.minIndex + count))]

Clones(r, n) == FoldLeft(LAMBDA x, i : CloneTopOperand(x), r, [i \in 1 .. n |-> i])

Joins(r, n) == FoldLeft(LAMBDA x, i : Eval(x, "Concatenation"), r, [i \in 1 .. n |-> i])

\* a{n,m}: a copied, the last copies made optional, or the last one repeated.
EvalQuantifier(r, n, m) ==
    CASE r.operands = <<>> -> Asserting(r)
      [] r.operands # <<>> /\ m = 0 -> Rejected(r)
      [] r.operands # <<>> /\ n = 0 /\ m = Unlimited -> Eval(r, "ZeroOrMore")
      [] r.operands # <<>> /\ n = 0 /\ m > 0 -> Joins(Clones(Eval(r, "ZeroOrOne"), m - 1), m - 1)
      [] r.operands # <<>> /\ n > 0 /\ m = Unlimited ->
            Joins(Eval(Clones(r, n - 1), "OneOrMore"), n - 1)
      [] r.operands # <<>> /\ n > 0 /\ m = n -> Joins(Clones(r, n - 1), n - 1)
      [] r.operands # <<>> /\ n > 0 /\ m > n ->
            Joins(Joins(Clones(Eval(Clones(r, n), "ZeroOrOne"), m - n - 1), m - n), n - 1)

(* Characters. *)

Char(t, p) == IF p <= Len(t) THEN t[p] ELSE 0           \* ds.Peek()

\* The digits at p: [ok, value, at].  (Too many for a number of 32 bits are
\* not typed.)
ParseUnsigned(t, p) ==
    LET digits == SelectInSubSeq(t, p, Len(t), LAMBDA c : c \notin 48 .. 57)
        end    == IF digits = 0 THEN Len(t) + 1 ELSE digits
    IN  [ok |-> end > p, at |-> end,
         value |-> FoldLeft(LAMBDA n, c : n * 10 + c - 48, 0, SubSeq(t, p, end - 1))]

\* What \ and the character stand for, 0 when that is not supported.
CharacterEscape(c) ==
    CASE c \in {94, 36, 124, 40, 41, 63, 42, 43, 46, 91, 93, 123, 125, 92} -> c
      [] c = 102 -> 12 [] c = 110 -> 10 [] c = 114 -> 13 [] c = 116 -> 9 [] c = 118 -> 11
      [] OTHER -> 0

\* The ranges of a class, each linked to the one before.
NewRange(ranges, current, codepoint) ==
    Append(IF current = 0 THEN ranges ELSE [ranges EXCEPT ![current].next = Len(ranges) + 1],
           [start |-> codepoint, end |-> codepoint, next |-> 0, negated |-> FALSE])

\* One character of a class: x has the ranges so far, the first of them (0:
\* none) and whether a character (1) or a character and a hyphen (2) came before.
RangeStep(x, c, escaped) ==
    LET current == IF x.start = 0 THEN 0 ELSE Len(x.ranges)
        first   == IF x.start = 0 THEN Len(x.ranges) + 1 ELSE x.start
    IN  CASE c = 0 -> [x EXCEPT !.closed = TRUE, !.ok = FALSE]
          [] c = 93 /\ ~escaped ->
                [x EXCEPT !.closed = TRUE, !.ok = x.start # 0,
                          !.ranges = IF x.step = 2 THEN NewRange(@, current, 45) ELSE @]
          [] x.step = 1 /\ c = 45 -> [x EXCEPT !.step = 2]
          [] x.step = 2 /\ c # 0 /\ ~(c = 93 /\ ~escaped) ->
                [x EXCEPT !.ranges[current].end = c, !.step = 0]
          [] OTHER -> [x EXCEPT !.ranges = NewRange(@, current, c), !.start = first, !.step = 1]

RECURSIVE RangeFrom(_, _, _)
RangeFrom(t, p, x) ==
    CASE x.closed -> [x EXCEPT !.at = p]
      [] ~x.closed /\ Char(t, p) # 92 -> RangeFrom(t, p + 1, RangeStep(x, Char(t, p), FALSE))
      [] OTHER -> RangeFrom(t, p + 2,
                    RangeStep(x, IF Char(t, p + 1) = 98 THEN 8
                                 ELSE CharacterEscape(Char(t, p + 1)), TRUE))

Negated(x) == IF x.ok THEN [x EXCEPT !.ranges[x.start].negated = TRUE] ELSE x

ParseRange(t, p, ranges) ==
    LET none == [closed |-> FALSE, ok |-> FALSE, at |-> p, ranges |-> ranges, start |-> 0, step |-> 0]
    IN  IF Char(t, p) = 94 THEN Negated(RangeFrom(t, p + 1, none)) ELSE RangeFrom(t, p, none)

(* Parse. *)

RECURSIVE Reduce(_, _)
\* The operators on top that are in ops, applied.
Reduce(r, ops) ==
    IF r.status # "ok" \/ r.operators = <<>> \/ Last(r.operators) \notin ops THEN r
    ELSE Reduce(Eval([r EXCEPT !.operators = Front(@)], Last(r.operators)), ops)

Quantified(t, r, n, m) ==
    IF ~n.ok \/ ~m.ok \/ (m.value # Unlimited /\ m.value < n.value) \/ Char(t, m.at) # 125
    THEN Rejected(r)
    ELSE EvalQuantifier([r EXCEPT !.at = m.at + 1], n.value, m.value)

\* {n}, {n,} or {n,m}.
Quantifier(t, r, n) ==
    IF Char(t, n.at) # 44 THEN Quantified(t, r, n, n)
    ELSE IF Char(t, n.at + 1) = 125
    THEN Quantified(t, r, n, [ok |-> TRUE, value |-> Unlimited, at |-> n.at + 1])
    ELSE Quantified(t, r, n, ParseUnsigned(t, n.at + 1))

\* A bar, and a closing parenthesis, after the operators before them were
\* applied.
Bar(r) ==
    IF r.status # "ok" THEN r
    ELSE [r EXCEPT !.operators = Append(@, "Alternation"), !.atoms[Len(r.atoms)] = 0]

Close(r) ==
    CASE r.status # "ok" -> r
      [] r.status = "ok" /\ r.operators = <<>> -> Rejected(r)
      [] OTHER -> ImplicitConcatenation([r EXCEPT !.operators = Front(@), !.atoms = Front(@)])

\* A class that was read, as an operand.
Class(r, class) ==
    IF ~class.ok THEN Rejected(r)
    ELSE ImplicitConcatenation(Operand(
            [NewState([r EXCEPT !.ranges = class.ranges, !.at = class.at], 0, 0, InRange)
                EXCEPT !.states[Len(r.states) + 1].rangeStart = class.start]))

Literal(c, r) == ImplicitConcatenation(PushOperand(r, c))

\* The character c of the expression, r being past it.
ParseCharacter(t, c, r) ==
    CASE c = 94  -> [r EXCEPT !.anchorBegin = TRUE]
      [] c = 36  -> [r EXCEPT !.anchorEnd = TRUE]
      [] c = 124 -> Bar(Reduce(r, {"Concatenation"}))
      [] c = 40  -> [r EXCEPT !.operators = Append(@, "LeftParenthesis"), !.atoms = Append(@, 0)]
      [] c = 41  -> Close(Reduce(r, {"Concatenation", "Alternation"}))
      [] c = 63  -> Eval(r, "ZeroOrOne")
      [] c = 42  -> Eval(r, "ZeroOrMore")
      [] c = 43  -> Eval(r, "OneOrMore")
      [] c = 123 -> Quantifier(t, r, ParseUnsigned(t, r.at))
      [] c = 46  -> Literal(AnyCharacter, r)
      [] c = 91  -> Class(r, ParseRange(t, r.at, r.ranges))
      [] c = 92  -> IF CharacterEscape(Char(t, r.at)) = 0 THEN Rejected(r)
                    ELSE Literal(CharacterEscape(Char(t, r.at)), [r EXCEPT !.at = @ + 1])
      [] OTHER   -> Literal(c, r)

RECURSIVE ParseFrom(_, _)
ParseFrom(t, r) ==
    IF r.status # "ok" \/ r.at > Len(t) THEN [r EXCEPT !.stopped = r.status # "ok"]
    ELSE ParseFrom(t, ParseCharacter(t, t[r.at], [r EXCEPT !.at = @ + 1]))

NoRegex == [states |-> <<>>, ranges |-> <<>>, operands |-> <<>>, operators |-> <<>>,
            atoms |-> <<0>>, at |-> 1, anchorBegin |-> FALSE, anchorEnd |-> FALSE,
            root |-> 0, status |-> "ok", stopped |-> FALSE]

\* The operand that is left, linked to a matching state.
Rooted(r) ==
    IF r.status # "ok" \/ Len(r.operands) # 1 THEN r
    ELSE [NewState(r, 0, 0, 0) EXCEPT !.states = Patch(@, r.operands[1].out, Len(r.states) + 1),
                                      !.root = r.operands[1].start]

Parse(t) ==
    Rooted(Reduce(ParseFrom(t, NoRegex), {"Concatenation", "Alternation", "LeftParenthesis"}))

(* Search. *)

RECURSIVE Closure(_, _, _)
\* AddState: the states that a state leads to without a character; 0 stands
\* for a recursion that does not end, as path comes round to the state again.
Closure(states, i, path) ==
    CASE i \in path -> {0}
      [] i \notin path /\ states[i].out1 = 0 -> {i}
      [] OTHER -> Closure(states, states[i].out, path \cup {i})
                  \cup Closure(states, states[i].out1, path \cup {i})

AddState(r, i) == Closure(r.states, i, {})

Matching(r, S) == \E i \in S : i # 0 /\ r.states[i].out = 0 /\ r.states[i].out1 = 0

RECURSIVE MatchRange(_, _, _)
\* Whether a range of the list holds the character.
MatchRange(ranges, i, c) ==
    i # 0 /\ (c \in ranges[i].start .. ranges[i].end \/ MatchRange(ranges, ranges[i].next, c))

Accepts(r, s, c) ==
    \/ s.codepoint \in {c, AnyCharacter}
    \/ /\ s.codepoint = InRange
       /\ MatchRange(r.ranges, s.rangeStart, c) # r.ranges[s.rangeStart].negated

\* One character: the states after it, and whether the expression matched.
SearchStep(r, x, c, anchorBegin, anchorEnd) ==
    LET reached == UNION {AddState(r, r.states[i].out) :
                            i \in {j \in x.current \ {0} : Accepts(r, r.states[j], c)}}
        matched == Matching(r, reached)
    IN  IF x.done \/ x.current = {} THEN x
        ELSE [current |-> reached \cup (IF anchorBegin THEN {} ELSE AddState(r, r.root)),
              matched |-> matched, done |-> ~anchorEnd /\ matched]

SearchWithAnchoring(r, subject, anchorBegin, anchorEnd) ==
    LET first == AddState(r, r.root)
    IN  FoldLeft(LAMBDA x, c : SearchStep(r, x, c, anchorBegin, anchorEnd),
                 [current |-> first, matched |-> Matching(r, first), done |-> FALSE], subject)

Match(r, subject) == SearchWithAnchoring(r, subject, TRUE, TRUE)

Search(r, subject) == SearchWithAnchoring(r, subject, r.anchorBegin, r.anchorEnd)

---------------------------------------------------------------------------

Text(s) == CodePointsFrom(FlattenSeq(s), 1)

Begin(e) == expression = e /\ tokens = e.seed /\ regex = Parse(Text(e.seed))

Init == \E e \in Expressions : Begin(e)

\* One more token, unless Parse has already stopped before the end.
Type(token) ==
    /\ Len(tokens) < expression.more + Len(expression.seed)
    /\ ~regex.stopped
    /\ tokens' = Append(tokens, token)
    /\ regex' = Parse(Text(Append(tokens, token)))
    /\ UNCHANGED expression

Next == \E token \in expression.tokens : Type(token)

---------------------------------------------------------------------------
(* Properties. *)

LeftParen == <<40>>
RightParen == <<41>>
AltBar == <<124>>

\* How deep in parentheses t is after its first k tokens.
Depth(t, k) == Cardinality({i \in 1 .. k : t[i] = LeftParen})
             - Cardinality({i \in 1 .. k : t[i] = RightParen})

Bars(t) == {k \in DOMAIN t : t[k] = AltBar /\ Depth(t, k) = 0}

\* How many tokens the first atom of a branch has: one, or up to the
\* parenthesis that closes it; 0 when it is none.
AtomLength(t) ==
    LET closed == {k \in DOMAIN t : Depth(t, k) = 0}
    IN  CASE t[1] \in DOMAIN Atoms -> 1
          [] t[1] = LeftParen /\ closed # {} -> CHOOSE k \in closed : \A j \in closed : k <= j
          [] OTHER -> 0

RECURSIVE Tree(_)
\* What an expression says: a choice, or an atom (characters or a group), how
\* often it is repeated, and the rest.
Branch(t, n) ==
    LET quantified == n < Len(t) /\ t[n + 1] \in DOMAIN Quantifiers
    IN  [k     |-> "repeat",
         atom  |-> IF t[1] = LeftParen THEN Tree(SubSeq(t, 2, n - 1))
                   ELSE [k |-> "atom", characters |-> Atoms[t[1]]],
         often |-> IF quantified THEN Quantifiers[t[n + 1]] ELSE <<1, 1>>,
         rest  |-> Tree(SubSeq(t, IF quantified THEN n + 2 ELSE n + 1, Len(t)))]

Tree(t) ==
    CASE t = <<>> -> [k |-> "empty"]
      [] t # <<>> /\ Bars(t) # {} ->
            LET bar == CHOOSE bar \in Bars(t) : TRUE
            IN  [k |-> "choice", left |-> Tree(SubSeq(t, 1, bar - 1)),
                 right |-> Tree(SubSeq(t, bar + 1, Len(t)))]
      [] OTHER -> IF AtomLength(t) = 0 THEN [k |-> "illegal"] ELSE Branch(t, AtomLength(t))

RECURSIVE Ends(_, _, _)
\* The positions of w at which the language of e, tried from i on, can stop.
Ends(e, w, i) ==
    CASE e.k = "empty"  -> {i}
      [] e.k = "atom"   -> IF i <= Len(w) /\ w[i] \in e.characters THEN {i + 1} ELSE {}
      [] e.k = "choice" -> Ends(e.left, w, i) \cup Ends(e.right, w, i)
      [] e.k = "repeat" ->
            LET most == IF e.often[2] = Unlimited THEN e.often[1] + Len(w) ELSE e.often[2]
                times[n \in 0 .. most] ==
                    IF n = 0 THEN {i} ELSE UNION {Ends(e.atom, w, j) : j \in times[n - 1]}
            IN  UNION {Ends(e.rest, w, j) : j \in UNION {times[n] : n \in e.often[1] .. most}}

RECURSIVE Legal(_)
\* The grammar of the comment on GenericRegex.  What may be empty is not
\* repeated without end: AddState would then not return.
Legal(e) ==
    CASE e.k = "choice" -> Legal(e.left) /\ Legal(e.right)
      [] e.k = "repeat" ->
            /\ e.atom.k # "atom" => /\ Legal(e.atom)
                                    /\ e.often[2] = Unlimited => Ends(e.atom, <<>>, 1) = {}
            /\ e.rest.k # "empty" => Legal(e.rest)
      [] OTHER -> FALSE

\* The expression without its anchors, which bind a whole expression.
Anchored(t, anchor) == t # <<>> /\ t[IF anchor = <<94>> THEN 1 ELSE Len(t)] = anchor
Body(t) == SubSeq(t, IF Anchored(t, <<94>>) THEN 2 ELSE 1,
                  IF Anchored(t, <<36>>) THEN Len(t) - 1 ELSE Len(t))

\* A legal expression is compiled, Match accepts the texts of its language and
\* Search those with a part in it, at the beginning or the end where anchors
\* say so: the fragments that quantifiers copy and the lists of loose ends
\* that alternation links behave as the language says, in any nesting.  (Not
\* claimed: Search for an expression that matches the empty text, which finds
\* it in the empty text only; anchors next to a top-level bar, which the code
\* applies to both sides.)
RegexMatchesLanguage ==
    LET t == Body(tokens)
        e == Tree(t)
        ends == [w \in Subjects |-> [i \in 1 .. Len(w) + 1 |-> Ends(e, w, i)]]
    IN  Legal(e) =>
            /\ regex.status = "ok" /\ regex.root # 0
            /\ \A w \in Subjects : Match(regex, w).matched <=> Len(w) + 1 \in ends[w][1]
            /\ ends[<<>>][1] = {} /\ (t = tokens \/ Bars(t) = {}) =>
                 \A w \in Subjects :
                    Search(regex, w).matched <=>
                        \E i \in 1 .. (IF Anchored(tokens, <<94>>) THEN 1 ELSE Len(w)) :
                            IF Anchored(tokens, <<36>>) THEN Len(w) + 1 \in ends[w][i]
                            ELSE ends[w][i] # {}
=============================================================================
