-------------------------- MODULE ProseMirrorHtml --------------------------
(***************************************************************************)
(* Rendering a ProseMirror document to HTML.  The document is a tree of     *)
(* elements and texts that editors build (y-prosemirror, outside of this    *)
(* repository), each unit of text with its marks; rendering it happens in   *)
(* one transaction, so it is an operator on a document.  Which HTML tag a   *)
(* node or a mark has and its attributes are left out; two marks of one     *)
(* name have the same opening tag when they have the same value.            *)
(***************************************************************************)
EXTENDS HtmlCore

CONSTANTS Element,     \* identities of elements
          Fragment,    \* the root
          MarkSets,    \* the marks a unit of text may have: functions from names to values
          PmRuleSets,  \* what to render with, as HtmlCore describes it
          MaxNodes,    \* bound: elements and units of text in the whole document
          MaxMarked    \* bound: units of text in one text node

VARIABLES children,  \* what the root and each element hold, in order
          tag        \* the type of each element, "none" for one that is not in the document

pmVars == <<children, tag>>

-----------------------------------------------------------------------------
(* Documents.  "list" stands for quotes and tables too, "hardBreak" for     *)
(* images and rules.  "box", "caption" and "mention" are an application's:  *)
(* a node that holds blocks, one that holds text, and an inline one.  An     *)
(* editor writes no text at the root, but the renderer takes such documents. *)

ElementItem(e) == [k |-> "element", e |-> e, units |-> <<>>]

TextItem(units) == [k |-> "text", e |-> Fragment, units |-> units]

IsElement(item) == item.k = "element"

Schema ==
    [fragment  |-> {"paragraph", "codeBlock", "list", "box", "caption", "hardBreak", "text"},
     paragraph |-> {"text", "hardBreak", "mention"},
     codeBlock |-> {"text"},
     list      |-> {"listItem"},
     listItem  |-> {"paragraph", "list"},
     box       |-> {"paragraph", "box"},
     caption   |-> {"text", "hardBreak", "mention"},
     mention   |-> {"text"},
     hardBreak |-> {}]

pm_builtin == {"paragraph", "codeBlock", "list", "listItem", "hardBreak"}

TagOf(e) == IF e = Fragment THEN "fragment" ELSE tag[e]

InDocument == {e \in DOMAIN children : TagOf(e) # "none"}

element_children(e) ==
    LET items == SelectSeq(children[e], IsElement) IN [i \in DOMAIN items |-> items[i].e]

has_element_child(e) == element_children(e) # <<>>

\* Each element with every element below it.
Under ==
    LET under[e \in DOMAIN children] ==
            {e} \union UNION {under[c] : c \in ToSet(element_children(e))}
    IN  under

NodeCount ==
    FoldFunction(LAMBDA items, n : n + FoldLeft(LAMBDA m, item : m + (IF IsElement(item) THEN 1 ELSE Len(item.units)), 0, items),
                 0, children)

PmInit ==
    /\ children = [e \in {Fragment} \union Element |-> <<>>]
    /\ tag = [e \in Element |-> "none"]

\* An editor's update puts a new element into e.
PutElement(e, at, new, t) ==
    /\ e \in InDocument /\ new \notin InDocument
    /\ t \in Schema[TagOf(e)] \ {"text"}
    /\ children' = [children EXCEPT ![e] = InsertAt(@, at, ElementItem(new))]
    /\ tag' = [tag EXCEPT ![new] = t]

\* An editor's update puts a text node of one unit into e.
PutText(e, at, marks) ==
    /\ e \in InDocument
    /\ "text" \in Schema[TagOf(e)]
    /\ children' = [children EXCEPT ![e] = InsertAt(@, at, TextItem(<<marks>>))]
    /\ UNCHANGED tag

\* An editor's update adds a unit to a text node of e.
ExtendText(e, at, marks) ==
    /\ e \in InDocument
    /\ ~ IsElement(children[e][at])
    /\ Len(children[e][at].units) < MaxMarked
    /\ children' = [children EXCEPT ![e][at].units = Append(@, marks)]
    /\ UNCHANGED tag

\* An element no other one is, if there is one left: which one makes no difference.
FreshElement ==
    IF Element \subseteq InDocument THEN {} ELSE {CHOOSE e \in Element : e \notin InDocument}

\* Bound: text at the root has no marks.
MarksIn(e) == IF e = Fragment THEN {marks \in MarkSets : DOMAIN marks = {}} ELSE MarkSets

\* Bound: a document has at most MaxNodes elements and units.
PmNext ==
    /\ NodeCount < MaxNodes
    /\ \E e \in InDocument :
          \/ \E at \in 1..(Len(children[e]) + 1) :
                \/ \E new \in FreshElement, t \in Schema[TagOf(e)] \ {"text"} : PutElement(e, at, new, t)
                \/ \E marks \in MarksIn(e) : PutText(e, at, marks)
          \/ \E at \in DOMAIN children[e], marks \in MarksIn(e) : ExtendText(e, at, marks)

-----------------------------------------------------------------------------
(* Marks.                                                                   *)

Wrap(marks, name) == [mark |-> name, value |-> marks[name]]

\* A mark that is on the run and that no rule claims.
has(marks, name, rules) == name \in DOMAIN marks /\ name \notin rules.marks

\* The link's opening tag.
link_open(marks) == Wrap(marks, "link")

\* The CSS of a textStyle, empty when it sets nothing.
text_style_css(marks) == IF marks["textStyle"] = "unset" THEN <<>> ELSE <<marks["textStyle"]>>

\* The formatting marks, innermost first.
Formatting == <<"subscript", "superscript", "highlight", "underline", "strike", "italic", "bold", "textStyle">>

\* The names of marks with a rule that a run may have, in alphabetical order.
Alphabetical == <<"bold", "code", "comment", "link">>

Wraps(marks, names) == [i \in DOMAIN names |-> IF names[i] = "link" THEN link_open(marks) ELSE Wrap(marks, names[i])]

\* A fault: code with a rule lets the other formatting through.
run_stack_code_claimed(marks, rules) ==
    LET builtin   == IF has(marks, "code", rules) THEN <<"code">>
                     ELSE SelectSeq(Formatting, LAMBDA name : has(marks, name, rules))
        link      == IF has(marks, "link", rules) THEN <<"link">> ELSE <<>>
        ruled     == SelectSeq(Alphabetical, LAMBDA name : name \in DOMAIN marks \intersect rules.marks)
    IN  Wraps(marks, Reverse(builtin \o link \o ruled))

\* The wraps of a run, outermost first.
run_stack(marks, rules) ==
    LET code      == "code" \in DOMAIN marks
        Formats(name) ==
            /\ has(marks, name, rules)
            /\ name = "superscript" => ~ has(marks, "subscript", rules)
            /\ name = "textStyle" => text_style_css(marks) # <<>>
        builtin   == IF has(marks, "code", rules) THEN <<"code">>
                     ELSE IF code THEN <<>>
                     ELSE SelectSeq(Formatting, Formats)
        link      == IF has(marks, "link", rules) THEN <<"link">> ELSE <<>>
        ruled     == SelectSeq(Alphabetical, LAMBDA name :
                        /\ name \in DOMAIN marks \intersect rules.marks
                        /\ code => name \in {"code", "link"})
    IN  Wraps(marks, Reverse(builtin \o link \o ruled))

Opening(wraps) == FlattenSeq([i \in DOMAIN wraps |-> Start(wraps[i])])

Closing(wraps) == FlattenSeq([i \in DOMAIN wraps |-> End(Reverse(wraps)[i])])

\* How many wraps, counted from the outermost, the two stacks share.
SharedWraps(stack, open) == Cardinality({i \in DOMAIN stack : IsPrefix(SubSeq(stack, 1, i), open)})

\* From the wraps that are open to those of the next unit.
Switch(shared, open, stack) == Closing(SubSeq(open, shared + 1, Len(open))) \o Opening(SubSeq(stack, shared + 1, Len(stack)))

RunUnit(acc, stack, unit) ==
    [open |-> stack, out |-> acc.out \o Switch(SharedWraps(stack, acc.open), acc.open, stack) \o unit]

EndRuns(acc) == acc.out \o Closing(acc.open)

\* The units of the text node at children[e][at]: wraps that adjacent units
\* share stay open across them.
render_text_runs(e, at, rules) ==
    EndRuns(FoldLeft(LAMBDA acc, u : RunUnit(acc, run_stack(children[e][at].units[u], rules), Shown(<<e, at>>, u)),
                     [open |-> <<>>, out |-> <<>>], [u \in DOMAIN children[e][at].units |-> u]))

\* The text of a code block, without its marks.
code_text(e) ==
    FlattenSeq([at \in DOMAIN children[e] |->
        FlattenSeq([u \in DOMAIN children[e][at].units |-> Shown(<<e, at>>, u)])])

-----------------------------------------------------------------------------
(* Inline content and blocks.                                               *)

render_image(e) == Start(e) \o End(e)

pm_render_rule_inline(e, body, rules) == RuleElement(rules.nodes[tag[e]], e, body)

\* An element among inline content, with what it holds.
pm_inline_child(c, body, rules) ==
    IF tag[c] \in DOMAIN rules.nodes THEN pm_render_rule_inline(c, body, rules)
    ELSE IF tag[c] = "hardBreak" THEN render_image(c)
    ELSE body

pm_render_inline(rules) ==
    LET inline[e \in Element, depth \in 0..rules.cap] ==
            LET Piece(at) ==
                    IF IsElement(children[e][at])
                    THEN LET c == children[e][at].e
                         IN  pm_inline_child(c, IF depth < rules.cap THEN inline[c, depth + 1] ELSE <<>>, rules)
                    ELSE render_text_runs(e, at, rules)
            IN  FlattenSeq([at \in DOMAIN children[e] |-> Piece(at)])
    IN  inline

\* Text directly in a node whose children render as blocks.
render_stray_text(e, rules) ==
    FlattenSeq([at \in DOMAIN children[e] |->
        IF IsElement(children[e][at]) THEN <<>> ELSE render_text_runs(e, at, rules)])

pm_open_rule_block(s, e, depth, rules) ==
    LET rule   == rules.nodes[tag[e]]
        inline == CASE rule.content = "inline" -> pm_render_inline(rules)[e, 0]
                    [] rule.content = "blocks" -> render_stray_text(e, rules)
                    [] rule.content = "none"   -> <<>>
        blocks == IF rule.content = "blocks" THEN OpenAll(element_children(e), depth, rules.cap) ELSE <<>>
    IN  OpenRuled(s, e, rule, inline, blocks)

\* A fault: the direct text after the children's work is pushed is left out.
pm_push_block_children_textless(s, e, depth, close, rules) ==
    [s EXCEPT !.stack = @ \o <<close>> \o OpenAll(element_children(e), depth, rules.cap)]

pm_push_block_children(s, e, depth, close, rules) ==
    [stack  |-> s.stack \o <<close>> \o OpenAll(element_children(e), depth, rules.cap),
     frames |-> push_str(s.frames, render_stray_text(e, rules))]

pm_open_container(s, e, depth, rules) ==
    pm_push_block_children([s EXCEPT !.frames = push_str(@, Start(e))], e, depth, Close(e), rules)

pm_unknown_leaf(s, e, inline) ==
    IF inline = <<>> THEN s ELSE [s EXCEPT !.frames = push_str(@, Start(e) \o inline \o End(e))]

pm_open_unknown(s, e, depth, rules) ==
    IF has_element_child(e)
    THEN pm_push_block_children(s, e, depth, CloseNothing, rules)
    ELSE pm_unknown_leaf(s, e, pm_render_inline(rules)[e, 0])

pm_open_block(s, e, depth, rules) ==
    IF tag[e] \in DOMAIN rules.nodes
    THEN pm_open_rule_block(s, e, depth, rules)
    ELSE CASE tag[e] = "paragraph" ->
                [s EXCEPT !.frames = push_str(@, Start(e) \o pm_render_inline(rules)[e, 0] \o End(e))]
           [] tag[e] = "codeBlock" ->
                [s EXCEPT !.frames = push_str(@, Start(e) \o code_text(e) \o End(e))]
           [] tag[e] \in {"list", "listItem"} -> pm_open_container(s, e, depth, rules)
           [] tag[e] = "hardBreak" -> [s EXCEPT !.frames = push_str(@, render_image(e))]
           [] OTHER -> pm_open_unknown(s, e, depth, rules)

pm_render_block_tree(frames, e, rules) ==
    WorkOff(LAMBDA s, c, depth : pm_open_block(s, c, depth, rules),
            [stack |-> <<Open(e, 0)>>, frames |-> frames], 2 * Cardinality(Element)).frames

\* An empty root, or one that begins with an element.
is_prosemirror_shaped ==
    children[Fragment] # <<>> => IsElement(Head(children[Fragment]))

\* Nothing, where the root is not ProseMirror's.
NoFrames == <<>>

\* The frames left at the end.
pm_render_segments(rules) ==
    LET Child(frames, at) ==
            IF IsElement(children[Fragment][at])
            THEN pm_render_block_tree(frames, children[Fragment][at].e, rules)
            ELSE push_str(frames, render_text_runs(Fragment, at, rules))
    IN  IF is_prosemirror_shaped
        THEN FoldLeft(Child, new_emitter, [at \in DOMAIN children[Fragment] |-> at])
        ELSE NoFrames

pm_to_html(rules) ==
    LET frames == pm_render_segments(rules) IN IF frames = NoFrames THEN NoFrames ELSE into_segments(frames)

-----------------------------------------------------------------------------
(* node_types.                                                              *)

\* How deep an element is, 0 for a child of the root.
PmDepth(e) == LET under == Under IN Cardinality({c \in InDocument \ {Fragment, e} : e \in under[c]})

pm_collect_node_types(cap) ==
    LET Inside(e) == IF PmDepth(e) < cap THEN ToSet(children[e]) ELSE {}
        Seen      == IF is_prosemirror_shaped THEN {e \in InDocument \ {Fragment} : PmDepth(e) <= cap} ELSE {}
    IN  type_map(Seen, LAMBDA e : tag[e],
                 LAMBDA e : {tag[item.e] : item \in {x \in Inside(e) : IsElement(x)}},
                 LAMBDA e : \E item \in Inside(e) : ~ IsElement(item))

-----------------------------------------------------------------------------
(* Properties.                                                              *)

PmShallow(cap) == \A e \in InDocument \ {Fragment} : PmDepth(e) <= cap

\* The names of the wraps a unit with these marks has to be in: code admits
\* none but itself and a link; else every mark that is built in or ruled,
\* subscript before superscript and no style that sets nothing.
WornNames(marks, rules) ==
    LET Known == ToSet(Formatting) \union {"code", "link"} \union rules.marks
        on    == DOMAIN marks \intersect Known
    IN  IF "code" \in on THEN on \intersect {"code", "link"}
        ELSE {name \in on :
                /\ name = "superscript" => ~ ("subscript" \in on /\ {"subscript", "superscript"} \intersect rules.marks = {})
                /\ name = "textStyle" => name \in rules.marks \/ marks[name] # "unset"}

Reopens(tokens) ==
    \E i \in 1..(Len(tokens) - 1) :
        tokens[i].t = "end" /\ tokens[i + 1].t = "start" /\ tokens[i].b = tokens[i + 1].b

MarksOf(open) == SelectSeq(open, LAMBDA b : b \notin InDocument)

ElementsOf(open) == ToSet(open) \intersect InDocument

Around(e, started, under) == {a \in started : e \in under[a]}

\* The wraps around a unit, given its marks.
WornWell(worn, marks, rules, plain) ==
    /\ {w.mark : w \in ToSet(worn)} = IF plain THEN {} ELSE WornNames(marks, rules)
    /\ IsInjective(worn)
    /\ \A i, j \in DOMAIN worn : worn[i].mark \in rules.marks /\ worn[j].mark \notin rules.marks => i < j
    /\ \A w \in ToSet(worn) : w.value = marks[w.mark]

PmWhole(tokens, started, under, rules) ==
    LET PlacedWell(token, open) ==
            CASE token.t = "start" /\ token.b \in InDocument ->
                   MarksOf(open) = <<>> /\ ElementsOf(open) = Around(token.b, started, under) \ {token.b}
              [] token.t = "start" /\ token.b \notin InDocument -> TRUE
              [] token.t = "shown" ->
                   LET e == token.b[1]
                   IN  /\ ElementsOf(open) = Around(e, started, under)
                       /\ WornWell(MarksOf(open), children[e][token.b[2]].units[token.i], rules,
                                   TagOf(e) = "codeBlock" /\ "codeBlock" \notin DOMAIN rules.nodes)
    IN  Nests(tokens, PlacedWell)

OneWholeSegment(segments, under, rules) ==
    /\ Len(segments) = 1
    /\ PmWhole(into_segments(segments), Started(into_segments(segments)) \intersect InDocument, under, rules)

\* For every ProseMirror document and rule set the output is whole, and each
\* unit of text wears exactly its marks: each wrap starts and ends inside its
\* node's element, code shuts out the formatting, marks with a rule are
\* outermost, and in a text node no wrap ends where an equal one starts.  Text
\* in a code block has none.
MarksAreWorn ==
    \A rules \in PmRuleSets :
        /\ is_prosemirror_shaped => OneWholeSegment(pm_render_segments(rules), Under, rules)
        /\ \A e \in InDocument : \A at \in DOMAIN children[e] :
              ~ IsElement(children[e][at]) => ~ Reopens(render_text_runs(e, at, rules))

\* A node of an unknown type that holds text and elements.
Mixed(e, unknown) ==
    /\ TagOf(e) \in unknown /\ has_element_child(e)
    /\ \E at \in DOMAIN children[e] : ~ IsElement(children[e][at])

\* What a reader of the document expects below the root: the units and the
\* elements in document order, the text of a mixed node before its elements,
\* and nothing inside a node whose rule hides what it holds.
InOrder(unknown, rules) ==
    LET order[e \in DOMAIN children] ==
            LET Piece(at) ==
                    IF IsElement(children[e][at])
                    THEN Start(children[e][at].e) \o order[children[e][at].e]
                    ELSE FlattenSeq([u \in DOMAIN children[e][at].units |-> Shown(<<e, at>>, u)])
                Pieces(Of(_)) ==
                    FlattenSeq([at \in DOMAIN children[e] |-> IF Of(children[e][at]) THEN Piece(at) ELSE <<>>])
            IN  IF TagOf(e) \in DOMAIN rules.nodes /\ Hides(rules.nodes[TagOf(e)]) THEN <<>>
                ELSE IF Mixed(e, unknown)
                THEN Pieces(LAMBDA item : ~ IsElement(item)) \o Pieces(IsElement)
                ELSE Pieces(LAMBDA item : TRUE)
    IN  order[Fragment]

ShownAsWanted(output, wanted, unknown, cap) ==
    LET Handled(token) ==
            token.t = "shown" \/ (token.t = "start" /\ token.b \in InDocument /\ tag[token.b] \notin unknown)
        handled == SelectSeq(output, Handled)
    IN  /\ IsInjective(SelectSeq(output, LAMBDA token : token.t = "shown" \/ (token.t = "start" /\ token.b \in InDocument)))
        /\ ToSet(handled) \subseteq ToSet(wanted)
        /\ PmShallow(cap) => handled = SelectSeq(wanted, Handled)

\* Rendering a ProseMirror document shows every unit of text exactly once and
\* in document order, also text that stands at the root, and an element for
\* every node but those unknown_types lists.  A node of an unknown type that
\* holds text and elements shows all its text before them.  Rules may make
\* elements or callbacks of nodes and claim marks, and one without content
\* hides what its nodes hold, and nothing else.  Past the nesting cap nodes may
\* be missing, but none is doubled.
PmShownInOrder ==
    is_prosemirror_shaped =>
        \A rules \in PmRuleSets :
            LET unknown == unknown_types(pm_collect_node_types(rules.cap), DOMAIN rules.nodes, pm_builtin)
            IN  ShownAsWanted(pm_to_html(rules), InOrder(unknown, rules), unknown, rules.cap)

=============================================================================
