------------------------------ MODULE Templates ------------------------------
(***************************************************************************)
(* How the build of Ractive that every page runs on reads a template: into  *)
(* a tree of texts, mustaches, elements and sections, then cleaned of        *)
(* comments and of space that does not show.  Someone writes the template,   *)
(* a token at a time, and keeps in a stack what is open and what is to       *)
(* become of it; the reader, which looks ahead and calls itself instead, has *)
(* to make the same of it.  An element may be left to be closed by what      *)
(* comes next: {{/if}}, {{else}} or the end of the element around it.  A     *)
(* section may not.                                                          *)
(***************************************************************************)
EXTENDS Expressions

CONSTANTS MaxPieces, \* the length of a template (bound)
          Alphabets  \* sets of tokens, an author uses those of one

VARIABLES pieces,   \* tokens that the author uses
          template,
          open       \* for the author: what is open, from the template itself inwards

Space == {" ", "newline"}
Text == {"x", "y"} \cup Space
Leaves == {"{{v}}", "{{>p}}"}
Comments == {"{{!}}", "<!---->"}

\* Elements by their opening tags; one of them has an attribute, up to its quote.
Tags == ("<b>" :> "b") @@ ("<p>" :> "p") @@ ("<pre>" :> "pre") @@ ("<br>" :> "br") @@ ("<b c='" :> "b")
Ends == ("</b>" :> "b") @@ ("</p>" :> "p") @@ ("</pre>" :> "pre")
Void == {"br"}
disallowedContents == ("p" :> {"<p>", "<pre>"}) @@ ("b" :> {}) @@ ("pre" :> {})

\* Sections by their opening mustaches, and the names that close them.
Sections == ("{{#if}}" :> "if") @@ ("{{#a}}" :> "a") @@ ("{{^a}}" :> "unless a")
Closings == ("{{/if}}" :> "if") @@ ("{{/a}}" :> "a") @@ ("{{/}}" :> "") @@ ("{{/partial}}" :> "partial")
Block(n) == n = "if"
Closes(n, r) == IF Block(n) THEN r = "if" ELSE TRUE \* a wrong name is only warned of
MayElse(n) == n # "unless a"

Item(t, n) == [t |-> t, n |-> n, s |-> <<>>, f |-> <<>>, l |-> <<>>, m |-> <<>>, p |-> <<>>]
TextItem(s) == [Item("text", "") EXCEPT !.s = s]

Piece(i) == IF i \in DOMAIN template THEN template[i] ELSE "end"

\* What an item or a section's present block gets.
Put(item, child) ==
    IF item.l = <<>> THEN [item EXCEPT !.f = Append(@, child)]
    ELSE [item EXCEPT !.l = Front(@) \o <<[Last(@) EXCEPT !.f = Append(@, child)]>>]
HasElse(section) == section.l # <<>> /\ Last(section.l).n = "else"
-------------------------------------------------------------------------------
\* The reader.  stack holds the names of the elements it is in, quoted says
\* that it is in an attribute's value.

RECURSIVE TextEnd(_)
TextEnd(i) == IF Piece(i) \in Text THEN TextEnd(i + 1) ELSE i

readText(i) == Read(TextItem(SubSeq(template, i, TextEnd(i) - 1)), TextEnd(i))

\* sectionDepth counts the sections that are not closed; postProcess raises an
\* error in the end if there is one.
LeftOpen == Error

RECURSIVE SectionFrom(_, _, _, _), ElementFrom(_, _, _), PartialFrom(_, _, _), QuotedFrom(_, _)

readSection(i, stack, quoted) ==
    SectionFrom(i + 1, Item("section", Sections[Piece(i)]), stack, quoted)

readAttributeValue(i) == QuotedFrom(i + 1, Item("attribute", "c"))

\* Mutant: the value of the attribute is not looked at again.
readElement_Plain(i, stack) ==
    LET name    == Tags[Piece(i)]
        element == Item("element", name)
    IN IF name \in Void THEN Read(element, i + 1) ELSE ElementFrom(i + 1, element, Append(stack, name))

readElement(i, stack) ==
    LET name    == Tags[Piece(i)]
        element == Item("element", name)
    IN CASE name \in Void -> Read(element, i + 1)
         [] Piece(i) = "<b c='" -> Must(readAttributeValue(i), LAMBDA r :
                ElementFrom(r.at, [element EXCEPT !.m = <<r.x>>], Append(stack, name)))
         [] OTHER -> ElementFrom(i + 1, element, Append(stack, name))

\* READERS: a mustache, a comment, an element or a text.  {{else}} is taken
\* for a reference where no section asks for it.  An author writes no tag in
\* an attribute's value, where it would be text.
readItem(i, stack, quoted) ==
    LET piece == Piece(i) IN
    CASE piece \in Text -> readText(i)
      [] piece \in Leaves \cup {"{{else}}"} -> Read(Item("leaf", piece), i + 1)
      [] piece \in Comments -> Read(Item("comment", piece), i + 1)
      [] piece \in DOMAIN Sections -> readSection(i, stack, quoted)
      [] piece \in DOMAIN Tags -> IF quoted THEN No ELSE readElement(i, stack)
      [] piece \in {"{{#partial}}", "{{elseif}}"} -> Error
      [] piece \in DOMAIN Closings -> IF quoted THEN No ELSE Error
      [] OTHER -> No

\* Mutant: what follows {{else}} goes where what came before it went.
Otherwise_Same(section) == section

\* {{else}}: a block of its own, which what follows goes to.
Otherwise(section) == [section EXCEPT !.l = Append(@, Item("section", "else"))]

ElseIf(section) == [section EXCEPT !.l = Append(@, Item("section", "elseif"))]

SectionFrom(i, section, stack, quoted) ==
    LET piece == Piece(i) IN
    CASE piece \in DOMAIN Closings ->
           IF Closes(section.n, Closings[piece]) THEN Read(section, i + 1) ELSE Error
      [] piece \in {"{{elseif}}", "{{else}}"} ->
           IF ~ MayElse(section.n) \/ HasElse(section) THEN Error
           ELSE SectionFrom(i + 1, IF piece = "{{else}}" THEN Otherwise(section) ELSE ElseIf(section), stack, quoted)
      [] OTHER ->
           LET r == readItem(i, stack, quoted) IN
           CASE r.is = "read" -> SectionFrom(r.at, Put(section, r.x), stack, quoted)
             [] r.is = "no" -> LeftOpen
             [] OTHER -> Error

\* An attribute's value, to its quote.
QuotedFrom(i, attribute) ==
    IF Piece(i) = "'>" THEN Read(attribute, i + 1)
    ELSE Must(readItem(i, <<>>, TRUE), LAMBDA r : QuotedFrom(r.at, Put(attribute, r.x)))

\* What ends an element, without being its own end.
EndsImplicitly(i, element, stack) ==
    \/ Piece(i) \in disallowedContents[element.n]
    \/ Piece(i) \in DOMAIN Ends /\ Ends[Piece(i)] # element.n /\ Ends[Piece(i)] \in ToSet(stack)
    \/ Piece(i) \in DOMAIN Closings \cup {"{{else}}", "{{elseif}}"}

ElementFrom(i, element, stack) ==
    LET piece == Piece(i) IN
    CASE piece = "end" -> Error
      [] piece \in DOMAIN Ends /\ Ends[piece] = element.n -> Read(element, i + 1)
      [] EndsImplicitly(i, element, stack) -> Read(element, i)
      [] piece \in DOMAIN Ends /\ Ends[piece] \notin ToSet(stack) -> Error
      [] piece = "{{#partial}}" ->
           IF element.p # <<>> THEN Error
           ELSE Must(PartialFrom(i + 1, Item("partial", "p"), stack), LAMBDA r :
                  ElementFrom(r.at, [element EXCEPT !.p = <<r.x>>], stack))
      [] OTHER ->
           LET r == readItem(i, stack, FALSE) IN
           CASE r.is = "read" -> ElementFrom(r.at, Put(element, r.x), stack)
             [] r.is = "no" -> Read(element, i)
             [] OTHER -> Error

PartialFrom(i, partial, stack) ==
    IF Piece(i) \in DOMAIN Closings
    THEN IF Closings[Piece(i)] = "partial" THEN Read(partial, i + 1) ELSE Error
    ELSE Must(readItem(i, stack, FALSE), LAMBDA r : PartialFrom(r.at, Put(partial, r.x), stack))

RECURSIVE TemplateFrom(_, _)
TemplateFrom(i, root) ==
    CASE Piece(i) = "end" -> Read(root, i)
      [] Piece(i) = "{{#partial}}" ->
           IF root.p # <<>> THEN Error
           ELSE Must(PartialFrom(i + 1, Item("partial", "p"), <<>>), LAMBDA r :
                  TemplateFrom(r.at, [root EXCEPT !.p = <<r.x>>]))
      [] OTHER -> Must(readItem(i, <<>>, FALSE), LAMBDA r : TemplateFrom(r.at, Put(root, r.x)))

readTemplate == TemplateFrom(1, Item("template", ""))
-------------------------------------------------------------------------------
\* Cleaning.

IsText(item) == item.t = "text"
SpacesBefore(s) == CHOOSE n \in 0 .. Len(s) :
    (\A k \in 1 .. n : s[k] \in Space) /\ (n < Len(s) => s[n + 1] \notin Space)
SpacesAfter(s) == SpacesBefore(Reverse(s))

\* Line breaks at the start or the end of a text, with the space around them.
Breaks(s, K) == {k \in K : s[k] = "newline"}
LeadingBreaks(s) == Breaks(s, 1 .. SpacesBefore(s))
TrailingBreaks(s) == Breaks(s, Len(s) - SpacesAfter(s) + 1 .. Len(s))
WithoutLeading(s) == SubSeq(s, CHOOSE k \in LeadingBreaks(s) : \A j \in LeadingBreaks(s) : j <= k, Len(s))
CutLeading(s) == Tail(WithoutLeading(s))
CutTrailing(s) == SubSeq(s, 1, CHOOSE k \in TrailingBreaks(s) : \A j \in TrailingBreaks(s) : k <= j)

Starts(item) == IsText(item) /\ LeadingBreaks(item.s) # {}
Stops(item) == IsText(item) /\ TrailingBreaks(item.s) # {}
Led(item) == [item EXCEPT !.s = CutLeading(@)]
Trailed(item) == [item EXCEPT !.s = CutTrailing(@)]
HasContent(item) == item.t = "section" /\ item.f # <<>>

\* A comment or a section's mustache alone on its line takes the line with it.
StandaloneComment(items, i) ==
    IF i > 2 /\ Starts(items[i]) /\ items[i - 1].t = "comment" /\ Stops(items[i - 2])
    THEN [items EXCEPT ![i - 2] = Trailed(@), ![i] = Led(@)] ELSE items
StandaloneOpening(items, i) ==
    IF HasContent(items[i]) /\ Stops(items[i - 1]) /\ Starts(items[i].f[1])
    THEN [items EXCEPT ![i - 1] = Trailed(@), ![i].f[1] = Led(@)] ELSE items
StandaloneClosing(items, i) ==
    IF HasContent(items[i - 1]) /\ Starts(items[i]) /\ Stops(Last(items[i - 1].f))
    THEN [items EXCEPT ![i - 1].f[Len(items[i - 1].f)] = Trailed(@), ![i] = Led(@)] ELSE items
stripStandalones(items) ==
    FoldLeft(LAMBDA its, i : StandaloneClosing(StandaloneOpening(StandaloneComment(its, i), i), i),
             items, [k \in 1 .. Len(items) - 1 |-> k + 1])

\* A text at either end loses n of its tokens, and goes if none is left.
Shorter(s, n, front) == IF front THEN SubSeq(s, n + 1, Len(s)) ELSE SubSeq(s, 1, Len(s) - n)
TrimOne(items, k, n, front) ==
    CASE Shorter(items[k].s, n, front) = <<>> -> RemoveAt(items, k)
      [] OTHER -> [items EXCEPT ![k].s = Shorter(@, n, front)]
\* How much of a text goes: all space or, in a pre element, one line break.
Trimmed(s, pre) ==
    CASE ~ pre -> SpacesBefore(s)
      [] pre /\ s # <<>> /\ s[1] = "newline" -> 1
      [] OTHER -> 0
TrimFront(items, pre) ==
    IF items = <<>> \/ ~ IsText(items[1]) THEN items
    ELSE TrimOne(items, 1, Trimmed(items[1].s, pre), TRUE)
TrimBack(items, pre) ==
    IF items = <<>> \/ ~ IsText(Last(items)) THEN items
    ELSE TrimOne(items, Len(items), Trimmed(Reverse(Last(items).s), pre), FALSE)

trimWhitespace(items, leading, trailing) ==
    IF trailing THEN TrimBack(IF leading THEN TrimFront(items, FALSE) ELSE items, FALSE)
    ELSE IF leading THEN TrimFront(items, FALSE) ELSE items

\* Space next to space becomes one.
Squeezed(s) ==
    FoldLeft(LAMBDA out, x : CASE x \notin Space -> Append(out, x)
                               [] x \in Space /\ out # <<>> /\ Last(out) = " " -> out
                               [] OTHER -> Append(out, " "), <<>>, s)

\* The last pass: texts beside each other become one.
FuseOne(item, rest, preserve) ==
    IF ~ IsText(item) THEN <<item>> \o rest
    ELSE LET fused == rest # <<>> /\ IsText(rest[1])
             s     == item.s \o (IF fused THEN rest[1].s ELSE <<>>)
             kept  == IF preserve THEN s ELSE Squeezed(s)
         IN (IF kept = <<>> THEN <<>> ELSE <<TextItem(kept)>>) \o (IF fused THEN Tail(rest) ELSE rest)
Fuse(items, preserve) == FoldRight(LAMBDA item, rest : FuseOne(item, rest, preserve), items, <<>>)

EndsInSpace(item) == IsText(item) /\ SpacesAfter(item.s) > 0
BeginsWithSpace(item) == IsText(item) /\ SpacesBefore(item.s) > 0

RECURSIVE cleanup(_, _, _, _)

\* Mutant: the blocks are left out.
CleanOne_Lone(item, preserve, leading, trailing) ==
    <<[item EXCEPT !.f = cleanup(@, preserve, leading, trailing), !.l = <<>>]>>

\* One item, with the blocks of its {{else}} put after it.  leading and
\* trailing say whether space inside it goes, as found for this item or for
\* any that was looked at before.
CleanOne(item, preserve, leading, trailing) ==
    LET pre    == item.t = "element" /\ item.n = "pre"
        f      == IF pre /\ ~ preserve THEN TrimBack(TrimFront(item.f, TRUE), TRUE) ELSE item.f
        simple == item.t = "attribute" /\ Len(item.f) = 1 /\ IsText(item.f[1])
    IN <<[item EXCEPT !.f = IF simple THEN f ELSE cleanup(f, preserve \/ pre, leading, trailing),
                      !.l = <<>>, !.m = cleanup(@, preserve, leading, trailing)]>>
         \o cleanup(item.l, preserve, leading, trailing)

RECURSIVE CleanFrom(_, _, _, _, _)
CleanFrom(items, i, preserve, leading, trailing) ==
    IF i = 0 THEN <<>>
    ELSE LET looks == items[i].f # <<>> /\ ~ preserve /\ ~ (items[i].t = "element" /\ items[i].n = "pre")
             lead  == leading \/ (looks /\ (i = 1 \/ EndsInSpace(items[i - 1])))
             trail == trailing \/ (looks /\ (i = Len(items) \/ BeginsWithSpace(items[i + 1])))
         IN CleanFrom(items, i - 1, preserve, lead, trail) \o CleanOne(items[i], preserve, lead, trail)

Kept(items) == SelectSeq(stripStandalones(items), LAMBDA item : item.t # "comment")

cleanup(items, preserve, leading, trailing) ==
    LET kept == trimWhitespace(Kept(items), leading, trailing)
    IN IF items = <<>> THEN <<>> ELSE Fuse(CleanFrom(kept, Len(kept), preserve, FALSE, FALSE), preserve)
-------------------------------------------------------------------------------
\* The author.

Top == Last(open)
Under(n) == SubSeq(open, 1, n)

\* What has been open above the first n is closed, each in the one around it.
Attached(outer, item) ==
    CASE item.t = "attribute" -> [outer EXCEPT !.m = Append(@, item)]
      [] item.t = "partial" -> [outer EXCEPT !.p = Append(@, item)]
      [] OTHER -> Put(outer, item)
RECURSIVE ClosedTo(_, _)
ClosedTo(stack, n) ==
    IF Len(stack) = n THEN stack
    ELSE LET k == Len(stack) IN
         ClosedTo(SubSeq(stack, 1, k - 2) \o <<Attached(stack[k - 1], stack[k])>>, n)

Push(stack, item) == Append(stack, item)
WithTop(stack, item) == Front(stack) \o <<item>>

\* The innermost that is open and has only elements inside it, and then any.
Innermost(K) == CHOOSE k \in K : \A j \in K : j <= k
OnlyInside(k, kinds) == \A j \in k + 1 .. Len(open) : open[j].t \in kinds
OpenAt(t, kinds) == {k \in 2 .. Len(open) : open[k].t = t /\ OnlyInside(k, kinds)}

Quoted_ == \E k \in DOMAIN open : open[k].t = "attribute"
Says(piece, stack) ==
    /\ piece \in pieces /\ Len(template) < MaxPieces
    /\ template' = Append(template, piece) /\ open' = stack /\ UNCHANGED pieces

Current(item) == IF item.l = <<>> THEN item.f ELSE Last(item.l).f
GoesOn == template # <<>> /\ Last(template) \in Text
Longer(item, piece) ==
    IF item.l = <<>> THEN [item EXCEPT !.f[Len(item.f)].s = Append(@, piece)]
    ELSE [item EXCEPT !.l[Len(item.l)].f[Len(Last(item.l).f)].s = Append(@, piece)]

SayText == \E piece \in Text :
    Says(piece, WithTop(open, IF GoesOn THEN Longer(Top, piece) ELSE Put(Top, TextItem(<<piece>>))))

SayLeaf == \E piece \in Leaves : Says(piece, WithTop(open, Put(Top, Item("leaf", piece))))

SayComment == \E piece \in Comments :
    (piece = "{{!}}" \/ ~ Quoted_) /\ Says(piece, WithTop(open, Put(Top, Item("comment", piece))))

\* A paragraph ends where another begins.
Ready(piece) ==
    IF Top.t = "element" /\ piece \in disallowedContents[Top.n] THEN ClosedTo(open, Len(open) - 1) ELSE open

OpenElement == \E piece \in DOMAIN Tags :
    LET element == Item("element", Tags[piece]) IN
    /\ ~ Quoted_
    /\ CASE Tags[piece] \in Void -> Says(piece, WithTop(open, Put(Top, element)))
         [] piece = "<b c='" -> Says(piece, Push(Push(Ready(piece), element), Item("attribute", "c")))
         [] OTHER -> Says(piece, Push(Ready(piece), element))

CloseQuote == Top.t = "attribute" /\ Says("'>", ClosedTo(open, Len(open) - 1))

\* The end of an element also ends the elements inside it.  A section that it
\* leaves open spoils the template.
Spoilt == "spoilt"
Spoils(stack, n) == IF \E k \in n .. Len(open) : open[k].t = "section" THEN [stack EXCEPT ![1].n = Spoilt] ELSE stack
CloseElement == \E piece \in DOMAIN Ends :
    LET at == {k \in OpenAt("element", {"element", "section"}) : open[k].n = Ends[piece]} IN
    at # {} /\ Says(piece, Spoils(ClosedTo(open, Innermost(at) - 1), Innermost(at)))

OpenSection == \E piece \in DOMAIN Sections : Says(piece, Push(open, Item("section", Sections[piece])))

\* {{else}} and the end of a section are the innermost section's.
ElseBlock(section, n) == [section EXCEPT !.l = Append(@, Item("section", n))]
SayElse == \E piece \in {"{{elseif}}", "{{else}}"} :
    LET at    == OpenAt("section", {"element"})
        stack == ClosedTo(open, Innermost(at))
    IN /\ at # {} /\ MayElse(open[Innermost(at)].n) /\ ~ HasElse(open[Innermost(at)])
       /\ Says(piece, WithTop(stack, ElseBlock(Last(stack), IF piece = "{{else}}" THEN "else" ELSE "elseif")))

CloseSection == \E piece \in DOMAIN Closings \ {"{{/partial}}"} :
    LET at == OpenAt("section", {"element"}) IN
    /\ at # {} /\ Closes(open[Innermost(at)].n, Closings[piece])
    /\ Says(piece, ClosedTo(open, Innermost(at) - 1))

OpenPartial ==
    /\ Top.t \in {"template", "element"} /\ Top.p = <<>>
    /\ Says("{{#partial}}", Push(open, Item("partial", "p")))

ClosePartial ==
    LET at == OpenAt("partial", {"element"}) IN
    at # {} /\ Says("{{/partial}}", ClosedTo(open, Innermost(at) - 1))

SayMore ==
    \/ SayText \/ SayLeaf \/ SayComment \/ OpenElement \/ CloseQuote \/ CloseElement
    \/ OpenSection \/ SayElse \/ CloseSection \/ OpenPartial \/ ClosePartial
-------------------------------------------------------------------------------
\* An expression is written, or a template.

vars == <<expression, pieces, template, open>>

Init ==
    /\ InitExpression
    /\ pieces \in Alphabets /\ template = <<>> /\ open = <<Item("template", "")>>

Next ==
    \/ template = <<>> /\ pieces = {} /\ Write /\ UNCHANGED <<pieces, template, open>>
    \/ expression = <<>> /\ SayMore /\ UNCHANGED expression

Spec == Init /\ [][Next]_vars
-------------------------------------------------------------------------------
Complete == Len(open) = 1 /\ Top.n # Spoilt

\* "A section was left open": a template in which all is closed is read,
\* into what its author wrote, with each text, block and attribute in its
\* place, however much is closed by what comes after it; any other is not.
ReadsAsWritten ==
    LET r == readTemplate IN
    IF Complete THEN r.is = "read" /\ r.x = Top ELSE r.is = "error"

\* What shows, and in which order, with {{else}} blocks after their section.
RECURSIVE Outline(_)
OutlineOf(item) ==
    CASE IsText(item) -> SelectSeq(item.s, LAMBDA x : x \notin Space)
      [] item.t = "comment" -> <<>>
      [] item.t = "leaf" -> <<item.n>>
      [] OTHER -> <<item.t, item.n>> \o Outline(item.m) \o <<"(">> \o Outline(item.f) \o <<")">>
                    \o Outline(item.l)
Outline(items) == Map(items, OutlineOf)

RECURSIVE Neat(_, _)
Neat(items, preserve) ==
    /\ \A k \in DOMAIN items :
         /\ IsText(items[k]) => /\ items[k].s # <<>>
                                /\ k < Len(items) => ~ IsText(items[k + 1])
                                /\ preserve \/ items[k].s = Squeezed(items[k].s)
         /\ Neat(items[k].f, preserve \/ items[k].n = "pre" \/ items[k].t = "attribute")

\* Cleaning takes comments and space away and nothing else: all that shows
\* stays, in its order, and texts that come together are one, with no space
\* doubled outside <pre>.
OnlySpaceLost ==
    Complete => LET items == Top.f
                    clean == cleanup(items, FALSE, TRUE, TRUE)
                IN Outline(clean) = Outline(items) /\ Neat(clean, FALSE)
=============================================================================
