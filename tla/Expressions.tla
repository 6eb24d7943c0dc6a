----------------------------- MODULE Expressions -----------------------------
(***************************************************************************)
(* How the build of Ractive that every page runs on reads the expression of *)
(* a mustache, {{#if !include}}, {{name.underscore()}}, and what it makes of *)
(* it: a reference, a reference expression, or a text for JavaScript with    *)
(* the references that the text reads, whose changes are what makes it be    *)
(* worked out again.  An expression is a sequence of tokens.  Here someone   *)
(* writes one, from the inside out; the reader's functions are translated    *)
(* below, and what they return is set against what was written.              *)
(***************************************************************************)
EXTENDS Integers, Sequences, SequencesExt

CONSTANTS MaxTokens, \* the length of an expression (bound)
          Atoms,     \* what it is made from
          Infixes,   \* operators between two operands that the author uses
          Signs      \* whether a minus may come after a minus

VARIABLE expression

Names == {"a", "b"}
Digits == {"1"}
Literals == Digits \cup {"'s'", "true", "/r/"}
PrefixOperators == {"!", "~", "+", "-", "typeof"}

\* One level for each operator, the first binds most.
InfixOperators == <<"*", "/", "%", "+", "-", "<<", ">>", ">>>", "<", "<=", ">", ">=", "in",
    "instanceof", "==", "!=", "===", "!==", "&", "^", "|", "&&", "||">>

Token(i) == IF i \in DOMAIN expression THEN expression[i] ELSE "end"

\* What a reader returns: a tree and where it stopped, nothing, or an error.
No == [is |-> "no"]
Error == [is |-> "error"]
Read(x, i) == [is |-> "read", x |-> x, at |-> i]
And(r, Next(_)) == IF r.is = "read" THEN Next(r) ELSE r         \* nothing stays nothing
Must(r, Next(_)) == IF r.is = "read" THEN Next(r) ELSE Error    \* here it is an error
Expect(token, i, r) == IF Token(i) = token THEN r ELSE Error
-------------------------------------------------------------------------------
\* References.

\* The rest of a legal reference: .name or [digit], any number of times.
RECURSIVE Segments(_)
Segments(i) ==
    CASE Token(i) = "." /\ Token(i + 1) \in Names -> <<Token(i + 1)>> \o Segments(i + 2)
      [] Token(i) = "[" /\ Token(i + 1) \in Digits /\ Token(i + 2) = "]"
           -> <<Token(i + 1)>> \o Segments(i + 3)
      [] OTHER -> <<>>

\* Tokens that make a segment, and those that make a reference.
Spelt(segment) == IF segment \in Digits THEN <<"[", segment, "]">> ELSE <<".", segment>>
Reference(n) ==
    n.prefix \o <<n.path[1]>> \o FlattenSeq([k \in 1 .. Len(n.path) - 1 |-> Spelt(n.path[k + 1])])

\* Mutant: a method's name is left in the reference.
readReference_Whole(i) ==
    LET prefix == IF Token(i) = "../" THEN <<"../">> ELSE <<>>
        first  == i + Len(prefix)
        path   == <<Token(first)>> \o Segments(first + 1)
        n      == [prefix |-> prefix, path |-> path]
    IN IF Token(first) \notin Names THEN No ELSE Read([t |-> "reference", n |-> n], i + Len(Reference(n)))

\* The method that is called is not part of the reference, unless its place
\* in a list is; a place above has a dot that is taken for a member's.
readReference(i) ==
    LET prefix == IF Token(i) = "../" THEN <<"../">> ELSE <<>>
        first  == i + Len(prefix)
        path   == <<Token(first)>> \o Segments(first + 1)
        n      == [prefix |-> prefix, path |-> path]
        end    == i + Len(Reference(n))
        called == Token(end) = "(" /\ path[Len(path)] \notin Digits
    IN CASE Token(first) \notin Names -> No
         [] Token(first) \in Names /\ called /\ Len(path) = 1 /\ prefix # <<>> -> Error
         [] Token(first) \in Names /\ called /\ Len(path) > 1
              -> Read([t |-> "reference", n |-> [n EXCEPT !.path = Front(@)]], end - 2)
         [] OTHER -> Read([t |-> "reference", n |-> n], end)
-------------------------------------------------------------------------------
\* Literals, and the rest of the grammar, where each level falls through to
\* the one that binds more.

RECURSIVE readExpression(_), Infix(_, _)

readNumberLiteral(i) ==
    CASE Token(i) \in Digits -> Read([t |-> "literal", v |-> <<Token(i)>>], i + 1)
      [] Token(i) \in {"+", "-"} /\ Token(i + 1) \in Digits
           -> Read([t |-> "literal", v |-> <<Token(i), Token(i + 1)>>], i + 2)
      [] OTHER -> No

\* `${x}` becomes ("" + (x)).
readTemplateStringLiteral(i) ==
    IF Token(i) # "${" THEN No
    ELSE Must(readExpression(i + 1), LAMBDA r : Expect("$}", r.at, Read(
           [t |-> "bracketed", x |-> [t |-> "infix", s |-> "+",
              o |-> <<[t |-> "literal", v |-> <<"''">>], [t |-> "bracketed", x |-> r.x]>>]],
           r.at + 1)))

RECURSIVE ListFrom(_, _)
ListFrom(i, list) ==
    Must(readExpression(i), LAMBDA r :
        IF Token(r.at) = "," THEN ListFrom(r.at + 1, Append(list, r.x))
        ELSE Read(Append(list, r.x), r.at))

\* A list of expressions, or none.
readExpressionList(i) ==
    IF readExpression(i).is = "no" THEN Read(<<>>, i) ELSE ListFrom(i, <<>>)

readKeyValuePair(i) ==
    IF Token(i) \notin Names \/ Token(i + 1) # ":" THEN No
    ELSE And(readExpression(i + 2), LAMBDA r :
           Read([t |-> "pair", k |-> Token(i), v |-> r.x], r.at))

RECURSIVE readKeyValuePairs(_)
readKeyValuePairs(i) ==
    And(readKeyValuePair(i), LAMBDA r :
        IF Token(r.at) = "," THEN And(readKeyValuePairs(r.at + 1), LAMBDA q : Read(<<r.x>> \o q.x, q.at))
        ELSE Read(<<r.x>>, r.at))

readObjectLiteral(i) ==
    IF Token(i) # "{" THEN No
    ELSE And(readKeyValuePairs(i + 1), LAMBDA r :
           IF Token(r.at) = "}" THEN Read([t |-> "object", m |-> r.x], r.at + 1) ELSE No)

readArrayLiteral(i) ==
    IF Token(i) # "[" THEN No
    ELSE And(readExpressionList(i + 1), LAMBDA r :
           IF Token(r.at) = "]" THEN Read([t |-> "array", m |-> r.x], r.at + 1) ELSE No)

readLiteral(i) ==
    CASE readNumberLiteral(i).is = "read" -> readNumberLiteral(i)
      [] Token(i) \in Literals \ Digits -> Read([t |-> "literal", v |-> <<Token(i)>>], i + 1)
      [] Token(i) = "${" -> readTemplateStringLiteral(i)
      [] Token(i) = "{" -> readObjectLiteral(i)
      [] Token(i) = "[" -> readArrayLiteral(i)
      [] OTHER -> No

readBracketedExpression(i) ==
    IF Token(i) # "(" THEN No
    ELSE Must(readExpression(i + 1), LAMBDA r :
           Expect(")", r.at, Read([t |-> "bracketed", x |-> r.x], r.at + 1)))

Or(r, other) == IF r.is = "no" THEN other ELSE r

readPrimary(i) == Or(readLiteral(i), Or(readReference(i), readBracketedExpression(i)))

readRefinement(i) ==
    CASE Token(i) = "." -> IF Token(i + 1) \in Names
                           THEN Read([t |-> "refinement", n |-> Token(i + 1)], i + 2) ELSE Error
      [] Token(i) = "[" -> Must(readExpression(i + 1), LAMBDA r :
                             Expect("]", r.at, Read([t |-> "refinement", x |-> r.x], r.at + 1)))
      [] OTHER -> No

\* What follows an expression: members of it and calls, as long as there are.
RECURSIVE Refined(_)
Refined(r) ==
    CASE Token(r.at) \in {".", "["} ->
           And(readRefinement(r.at), LAMBDA q : Refined(Read([t |-> "member", x |-> r.x, r |-> q.x], q.at)))
      [] Token(r.at) = "(" ->
           And(readExpressionList(r.at + 1), LAMBDA q : Expect(")", q.at,
               Refined(Read([t |-> "invocation", x |-> r.x, o |-> q.x], q.at + 1))))
      [] OTHER -> r

readMemberOrInvocation(i) == And(readPrimary(i), Refined)

\* A prefix takes a whole expression, not only what binds more than it.
readTypeof(i) ==
    Or(readMemberOrInvocation(i),
       IF Token(i) \notin PrefixOperators THEN No
       ELSE Must(readExpression(i + 1), LAMBDA r :
              Read([t |-> "prefix", s |-> Token(i), o |-> r.x], r.at)))

\* Mutant: one operator of a kind, and no more.
InfixFrom_Once(level, left) ==
    IF Token(left.at) # InfixOperators[level] THEN left
    ELSE LET right == Infix(level - 1, left.at + 1) IN
         CASE right.is = "no" -> left
           [] right.is = "error" -> Error
           [] OTHER -> Read([t |-> "infix", s |-> InfixOperators[level], o |-> <<left.x, right.x>>], right.at)

\* Operators of one level, from the left.
RECURSIVE InfixFrom(_, _)
InfixFrom(level, left) ==
    IF Token(left.at) # InfixOperators[level] THEN left
    ELSE LET right == Infix(level - 1, left.at + 1) IN
         CASE right.is = "no" -> left
           [] right.is = "error" -> Error
           [] OTHER -> InfixFrom(level, Read([t |-> "infix", s |-> InfixOperators[level],
                                              o |-> <<left.x, right.x>>], right.at))

Infix(level, i) ==
    IF level = 0 THEN readTypeof(i) ELSE And(Infix(level - 1, i), LAMBDA left : InfixFrom(level, left))

getConditional(i) ==
    And(Infix(Len(InfixOperators), i), LAMBDA c :
        IF Token(c.at) # "?" THEN c
        ELSE Must(readExpression(c.at + 1), LAMBDA x : Expect(":", x.at,
               Must(readExpression(x.at + 1), LAMBDA y :
                   Read([t |-> "conditional", o |-> <<c.x, x.x, y.x>>], y.at)))))

readExpression(i) == getConditional(i)

\* readExpressionOrReference, where the mustache must close.
Tree == LET r == readExpression(1) IN
        IF r.is = "read" /\ r.at <= Len(expression) THEN readReference(1) ELSE r
-------------------------------------------------------------------------------
\* What the view gets.

Map(seq, F(_)) == FlattenSeq([k \in DOMAIN seq |-> F(seq[k])])
Separated(seq, F(_)) == FlattenSeq([k \in DOMAIN seq |-> IF k = 1 THEN F(seq[k]) ELSE <<",">> \o F(seq[k])])

\* Mutant: what is in the brackets of a member is forgotten.
RECURSIVE extractRefs_Flat(_)
extractRefs_Flat(node) ==
    CASE node.t = "reference" -> {node.n}
      [] node.t \in {"infix", "conditional"} -> UNION {extractRefs_Flat(node.o[k]) : k \in DOMAIN node.o}
      [] node.t = "prefix" -> extractRefs_Flat(node.o)
      [] node.t \in {"array", "object"} -> UNION {extractRefs_Flat(node.m[k]) : k \in DOMAIN node.m}
      [] node.t = "invocation" -> extractRefs_Flat(node.x) \cup UNION {extractRefs_Flat(node.o[k]) : k \in DOMAIN node.o}
      [] node.t \in {"member", "bracketed"} -> extractRefs_Flat(node.x)
      [] node.t = "pair" -> extractRefs_Flat(node.v)
      [] OTHER -> {}

\* The references that a tree has, which the text's parameters stand for.
RECURSIVE extractRefs(_)
extractRefs(node) ==
    LET All(seq) == UNION {extractRefs(seq[k]) : k \in DOMAIN seq} IN
    CASE node.t = "reference" -> {node.n}
      [] node.t \in {"infix", "conditional"} -> All(node.o)
      [] node.t = "prefix" -> extractRefs(node.o)
      [] node.t \in {"array", "object"} -> All(node.m)
      [] node.t = "invocation" -> extractRefs(node.x) \cup All(node.o)
      [] node.t = "member" -> extractRefs(node.x) \cup extractRefs(node.r)
      [] node.t = "bracketed" \/ (node.t = "refinement" /\ "x" \in DOMAIN node) -> extractRefs(node.x)
      [] node.t = "pair" -> extractRefs(node.v)
      [] OTHER -> {}

\* The text, with a parameter, here between marks, for each reference.
RECURSIVE stringify(_)
stringify(node) ==
    CASE node.t = "literal" -> node.v
      [] node.t = "reference" -> <<"_<">> \o Reference(node.n) \o <<">_">>
      [] node.t = "infix" -> stringify(node.o[1]) \o <<node.s>> \o stringify(node.o[2])
      [] node.t = "prefix" -> <<node.s>> \o stringify(node.o)
      [] node.t = "conditional" -> stringify(node.o[1]) \o <<"?">> \o stringify(node.o[2])
                                     \o <<":">> \o stringify(node.o[3])
      [] node.t = "array" -> <<"[">> \o Separated(node.m, stringify) \o <<"]">>
      [] node.t = "object" -> <<"{">> \o Separated(node.m, stringify) \o <<"}">>
      [] node.t = "pair" -> <<node.k, ":">> \o stringify(node.v)
      [] node.t = "invocation" -> stringify(node.x) \o <<"(">> \o Separated(node.o, stringify) \o <<")">>
      [] node.t = "bracketed" -> <<"(">> \o stringify(node.x) \o <<")">>
      [] node.t = "member" -> stringify(node.x) \o stringify(node.r)
      [] node.t = "refinement" /\ "n" \in DOMAIN node -> <<".", node.n>>
      [] OTHER -> <<"[">> \o stringify(node.x) \o <<"]">>

flattenExpression(node) == [r |-> extractRefs(node), s |-> stringify(node)]

\* A reference whose members may be references themselves: list[index].name.
RECURSIVE Members(_), Base(_)
Base(node) == IF node.t = "member" THEN Base(node.x) ELSE node
Members(node) ==
    IF node.t # "member" THEN <<>>
    ELSE Append(Members(node.x),
                CASE "n" \in DOMAIN node.r -> [n |-> node.r.n]
                  [] "x" \in DOMAIN node.r /\ node.r.x.t = "reference" -> [ref |-> node.r.x.n]
                  [] OTHER -> flattenExpression(node.r.x))

RECURSIVE Unwrapped(_)
Unwrapped(node) == IF node.t = "bracketed" THEN Unwrapped(node.x) ELSE node

Of(node) ==
    CASE node.t = "reference" -> [is |-> "r", r |-> node.n]
      [] node.t = "member" /\ Base(node).t = "reference" -> [is |-> "rx", r |-> Base(node).n, m |-> Members(node)]
      [] OTHER -> [is |-> "x", x |-> flattenExpression(node)]

refineExpression(node) == Of(Unwrapped(node))
-------------------------------------------------------------------------------
\* The author.

Grown(e) == Len(e) <= MaxTokens /\ expression' = e

Touching(left, right) == left[Len(left)] = "-" /\ right[1] = "-"

\* Put at the front or the back of it, or around it.
Between(left, right) == (Signs \/ ~ Touching(left, right)) /\ Grown(left \o right)
Around(left, right) == Grown(left \o expression \o right)

Prefixed == \E op \in {"!", "-", "typeof"} : Between(<<op>>, expression)
Joined == \E op \in Infixes, x \in Atoms :
    \/ Between(expression \o <<op>>, x)
    \/ Between(x \o <<op>>, expression)
Bracketed == Around(<<"(">>, <<")">>)
Chosen == \E x \in Atoms, y \in Atoms :
    \/ Around(<<>>, <<"?">> \o x \o <<":">> \o y)
    \/ Around(x \o <<"?">>, <<":">> \o y)
    \/ Around(x \o <<"?">> \o y \o <<":">>, <<>>)
Listed == \E x \in Atoms : Around(<<"[">>, <<"]">>) \/ Around(<<"[">> \o x \o <<",">>, <<"]">>)
Keyed == \E k \in Names : Around(<<"{", k, ":">>, <<"}">>)
Quoted == Around(<<"${">>, <<"$}">>)

\* A member or a call of what comes last in it, or with it as an argument.  A
\* method of a place above cannot be called: the reader stops with an error.
Above(e) == Len(e) > 1 /\ e[Len(e) - 1] = "../"
Owned == Last(expression) \notin Digits /\ \E n \in Names : Around(<<>>, <<".", n>>)
Indexed ==
    \/ \E x \in Atoms : Around(<<>>, <<"[">> \o x \o <<"]">>)
    \/ \E x \in Atoms : Around(x \o <<"[">>, <<"]">>)
Called ==
    \/ ~ Above(expression) /\ \E x \in Atoms \cup {<<>>} : Around(<<>>, <<"(">> \o x \o <<")">>)
    \/ \E x \in Atoms : ~ Above(x) /\ Around(x \o <<"(">>, <<")">>)

Begun == expression = <<>> /\ expression' \in Atoms

InitExpression == expression = <<>>

Write ==
    \/ Begun
    \/ /\ expression # <<>>
       /\ \/ Prefixed \/ Joined \/ Bracketed \/ Chosen \/ Listed
          \/ Keyed \/ Quoted \/ Owned \/ Indexed \/ Called
-------------------------------------------------------------------------------
\* Two signs that touch are one operator to JavaScript.
RECURSIVE Lexed(_)
Lexed(text) ==
    CASE Len(text) < 2 -> text
      [] Len(text) >= 2 /\ text[1] = "-" /\ text[2] = "-" -> <<"--">> \o Lexed(SubSeq(text, 3, Len(text)))
      [] OTHER -> <<text[1]>> \o Lexed(Tail(text))

\* What the view will evaluate, and what it must: the author's text, without
\* brackets around the whole of it.
Unmarked(text) == SelectSeq(text, LAMBDA x : x \notin {"_<", ">_"})
MemberText(m) ==
    CASE "n" \in DOMAIN m -> <<".", m.n>>
      [] "ref" \in DOMAIN m -> <<"[">> \o Reference(m.ref) \o <<"]">>
      [] OTHER -> <<"[">> \o Unmarked(m.s) \o <<"]">>
Evaluated(m) ==
    CASE m.is = "r" -> Reference(m.r)
      [] m.is = "rx" -> Reference(m.r) \o Map(m.m, MemberText)
      [] OTHER -> Unmarked(m.x.s)

SpeltOut(token) ==
    CASE token = "${" -> <<"(", "''", "+", "(">>
      [] token = "$}" -> <<")", ")">>
      [] OTHER -> <<token>>

RECURSIVE Inner(_)
Inner(text) ==
    LET depth[k \in 0 .. Len(text)] ==
            IF k = 0 THEN 0
            ELSE CASE text[k] = "(" -> depth[k - 1] + 1
                   [] text[k] = ")" -> depth[k - 1] - 1
                   [] OTHER -> depth[k - 1]
    IN IF text[1] = "(" /\ \A k \in 1 .. Len(text) - 1 : depth[k] > 0
       THEN Inner(SubSeq(text, 2, Len(text) - 1)) ELSE text

\* "This way, the abstract syntax tree has everything in its proper place":
\* whatever is written is read to its end, and the text that JavaScript is
\* given says the same, with no bracket lost and no operator made or moved;
\* a method is called on its object, the name is not in a parameter.
MethodsBound(m) ==
    m.is = "x" => \A k \in 3 .. Len(m.x.s) - 1 :
        m.x.s[k] = ">_" /\ m.x.s[k + 1] = "(" => m.x.s[k - 2] # "."
TextKept == expression # <<>> =>
    /\ Tree.is = "read"
    /\ LET m == refineExpression(Tree.x) IN
       MethodsBound(m) /\ Lexed(Evaluated(m)) = Inner(Map(expression, SpeltOut))

Heads(refs) == {<<n.prefix, n.path[1]>> : n \in refs}
Known(m) ==
    CASE m.is = "r" -> Heads({m.r})
      [] m.is = "rx" -> Heads({m.r} \cup UNION {
             CASE "ref" \in DOMAIN m.m[k] -> {m.m[k].ref}
               [] "s" \in DOMAIN m.m[k] -> m.m[k].r
               [] OTHER -> {} : k \in DOMAIN m.m})
      [] OTHER -> Heads(m.x.r)
Used ==
    {<<IF Token(i - 1) = "../" THEN <<"../">> ELSE <<>>, expression[i]>> :
        i \in {k \in DOMAIN expression : expression[k] \in Names /\ Token(k - 1) \notin {".", "{"}}}

\* The view is told of a change of everything that the expression reads, and
\* of nothing else: what it registers with are the names the author used.
ReferencesKnown == expression # <<>> /\ Tree.is = "read" => Known(refineExpression(Tree.x)) = Used
=============================================================================
