---------------------------- MODULE LexicalHtml ----------------------------
(***************************************************************************)
(* Rendering a Lexical document to HTML, listing its node types and reading *)
(* its text, over the documents of XmlText.  Each happens in one            *)
(* transaction, so they are operators on a document.  Which HTML tag a type *)
(* has, its attributes and the formatting of a run of text are left out.    *)
(***************************************************************************)
EXTENDS XmlText, HtmlCore

CONSTANT RuleSets  \* what to render with, as HtmlCore describes it; the caps
                   \* (MAX_BLOCK_DEPTH and MAX_INLINE_DEPTH) small, so that documents reach them

\* "horizontalrule" is the decorator "e".
is_builtin == {"paragraph", "list", "listitem", "link", "horizontalrule"}

is_inline_type(t) == t = "link"

\* A fault: inline children walked as blocks too.
embedded_children(b) == embedded_xml_texts(kids[b])

\* The children of a block that are blocks themselves.
block_children(b) ==
    SelectSeq(embedded_xml_texts(kids[b]), LAMBDA c : ~ is_inline_type(type[c]))

\* A run of text and a decorator: the item i of b.
render_run(b, i) == Shown(b, i)

render_decorator(b, i, rules) ==
    IF "horizontalrule" \in DOMAIN rules.nodes /\ rules.nodes["horizontalrule"].callback
    THEN Start(<<b, i>>) \o Shown(b, i) \o End(<<b, i>>)
    ELSE Shown(b, i)

\* What get_string reads of a block: its own text.
get_string(b) ==
    FlattenSeq([i \in DOMAIN kids[b] |-> IF IsText(kids[b][i]) THEN render_run(b, i) ELSE <<>>])

-----------------------------------------------------------------------------
(* Inline content.                                                          *)

\* A link and an inline node with a rule, around what its content renders as.
render_link(c, body) == Start(c) \o body \o End(c)

render_rule_inline(c, body, rules) == RuleElement(rules.nodes[type[c]], c, body)

\* What render_inline emits for a block, at an inline depth, for a caller that
\* renders ruled and unknown children here (ruled) or as blocks (not ruled).
render_inline(rules) ==
    LET inline[b \in Block, depth \in 0..rules.cap, ruled \in BOOLEAN] ==
            LET Body(c) == IF depth < rules.cap THEN inline[c, depth + 1, TRUE] ELSE <<>>
                Here(c) == is_inline_type(type[c]) \/ (ruled /\ type[c] \notin is_builtin)
                Child(c) ==
                    IF ~ Here(c) THEN <<>>
                    ELSE IF type[c] \in DOMAIN rules.nodes THEN render_rule_inline(c, Body(c), rules)
                    ELSE IF is_inline_type(type[c])
                    THEN render_link(c, IF depth < rules.cap THEN Body(c) ELSE get_string(c))
                    ELSE IF depth < rules.cap THEN inline[c, depth + 1, ruled] ELSE <<>>
                Piece(i) ==
                    CASE IsText(kids[b][i])  -> render_run(b, i)
                      [] IsBlock(kids[b][i]) -> Child(kids[b][i].id)
                      [] kids[b][i].k = "e"  -> render_decorator(b, i, rules)
                      [] kids[b][i].k = "m"  -> <<>>
            IN  FlattenSeq([i \in DOMAIN kids[b] |-> Piece(i)])
    IN  inline

-----------------------------------------------------------------------------
(* Blocks.                                                                  *)

open_rule_block(s, b, depth, rules) ==
    LET rule   == rules.nodes[type[b]]
        inline == IF rule.content = "none" THEN <<>>
                  ELSE render_inline(rules)[b, 0, rule.content = "inline"]
        blocks == IF rule.content = "blocks" THEN OpenAll(block_children(b), depth, rules.cap) ELSE <<>>
    IN  OpenRuled(s, b, rule, inline, blocks)

\* A fault: the end tag above the children, so taken before them.
push_block_children_late(s, b, depth, close, only, rules) ==
    LET blocks == SelectSeq(block_children(b), LAMBDA c : type[c] \in only)
    IN  [s EXCEPT !.stack = @ \o OpenAll(blocks, depth, rules.cap) \o <<close>>]

\* The block's children of the types `only` as work, with its end below them.
push_block_children(s, b, depth, close, only, rules) ==
    LET blocks == SelectSeq(block_children(b), LAMBDA c : type[c] \in only)
    IN  [s EXCEPT !.stack = @ \o <<close>> \o OpenAll(blocks, depth, rules.cap)]

\* A container: its start and inline content now, its blocks and end later.
open_container(s, b, depth, ruled, only, rules) ==
    LET started == [s EXCEPT !.frames = push_str(@, Start(b) \o render_inline(rules)[b, 0, ruled])]
    IN  push_block_children(started, b, depth, Close(b), only, rules)

open_listitem(s, b, depth, rules) == open_container(s, b, depth, TRUE, {"list"}, rules)

\* A leaf: all of it now.
open_leaf(s, b, rules) ==
    [s EXCEPT !.frames = push_str(@, Start(b) \o render_inline(rules)[b, 0, TRUE] \o End(b))]

\* A type without a rule or an arm of its own.
open_unknown(s, b, depth, rules) ==
    IF block_children(b) # <<>>
    THEN LET started == [s EXCEPT !.frames = push_str(@, render_inline(rules)[b, 0, FALSE])]
         IN  push_block_children(started, b, depth, CloseNothing, Types, rules)
    ELSE IF render_inline(rules)[b, 0, TRUE] = <<>> THEN s ELSE open_leaf(s, b, rules)

open_block(s, b, depth, rules) ==
    IF type[b] \in DOMAIN rules.nodes
    THEN open_rule_block(s, b, depth, rules)
    ELSE CASE type[b] = "paragraph" -> open_leaf(s, b, rules)
           [] type[b] = "list"      -> open_container(s, b, depth, FALSE, Types, rules)
           [] type[b] = "listitem"  -> open_listitem(s, b, depth, rules)
           [] OTHER                 -> open_unknown(s, b, depth, rules)

\* Every block is opened at most once and ends at most once.
render_block_tree(frames, b, rules) ==
    WorkOff(LAMBDA s, c, depth : open_block(s, c, depth, rules),
            [stack |-> <<Open(b, 0)>>, frames |-> frames], 2 * Cardinality(Block)).frames

\* The frames left at the end.
render_segments(rules) ==
    LET Child(frames, i) == IF IsBlock(kids[Root][i])
                            THEN render_block_tree(frames, kids[Root][i].id, rules)
                            ELSE push_str(frames, render_decorator(Root, i, rules))
    IN  FoldLeft(Child, new_emitter, [i \in DOMAIN kids[Root] |-> i])

to_html(rules) == into_segments(render_segments(rules))

-----------------------------------------------------------------------------
(* node_types.                                                              *)

TypeOfItem(item) == IF IsBlock(item) THEN type[item.id] ELSE "horizontalrule"

IsNode(item) == IsBlock(item) \/ item.k = "e"

\* How deep a block is, 0 for a child of the root.
Depth(b) == LET below == Below(kids) IN Cardinality({c \in Alive \ {Root, b} : b \in below[c]})

\* The nodes the walk observes, each with the place it is at: blocks and
\* decorators down to the cap.
Observed(cap) ==
    {<<b, i>> \in Alive \X (1..MaxUnits) :
        i \in DOMAIN kids[b] /\ IsNode(kids[b][i]) /\ (b # Root => Depth(b) < cap)}

collect_node_types(cap) ==
    LET At(n)    == kids[n[1]][n[2]]
        Inside(n) == IF IsBlock(At(n)) /\ Depth(At(n).id) < cap THEN ToSet(kids[At(n).id]) ELSE {}
    IN  type_map(Observed(cap), LAMBDA n : TypeOfItem(At(n)),
                 LAMBDA n : {TypeOfItem(item) : item \in {x \in Inside(n) : IsNode(x)}},
                 LAMBDA n : \E item \in Inside(n) : IsText(item))

node_types_unknown(rules) == unknown_types(collect_node_types(rules.cap), DOMAIN rules.nodes, is_builtin)

-----------------------------------------------------------------------------
(* Reading text: one line for each block that has text of its own.          *)

is_inline_lexical_type(t) == t \in {"link", "mark"}

inline_lexical_text ==
    LET text[b \in Block] ==
            FlattenSeq([i \in DOMAIN kids[b] |->
                CASE IsText(kids[b][i])  -> Shown(b, i)
                  [] IsBlock(kids[b][i]) -> text[kids[b][i].id]
                  [] OTHER               -> <<>>])
    IN  text

Newline == <<[t |-> "newline", b |-> Root, i |-> 0]>>

Flush(acc) ==
    IF acc.line = <<>> THEN acc ELSE [out |-> Append(acc.out, acc.line), line |-> <<>>]

walk_lexical_block ==
    LET lines[b \in Block] ==
            LET Piece(acc, i) ==
                    LET item == kids[b][i]
                    IN  CASE IsText(item)  -> [acc EXCEPT !.line = @ \o Shown(b, i)]
                          [] IsBlock(item) ->
                               IF is_inline_lexical_type(type[item.id])
                               THEN [acc EXCEPT !.line = @ \o inline_lexical_text[item.id]]
                               ELSE [Flush(acc) EXCEPT !.out = @ \o lines[item.id]]
                          [] OTHER         -> acc
            IN  Flush(FoldLeft(Piece, [out |-> <<>>, line |-> <<>>],
                               [i \in DOMAIN kids[b] |-> i])).out
    IN  lines

xml_blocks_text ==
    FlattenSeq([i \in DOMAIN kids[Root] |->
        IF IsBlock(kids[Root][i]) THEN walk_lexical_block[kids[Root][i].id] ELSE <<>>])

\* What a block's text reads: nested blocks start a new line.
block_text ==
    LET text[b \in Block] ==
            LET Piece(out, i) ==
                    LET item == kids[b][i]
                    IN  CASE IsText(item)  -> out \o Shown(b, i)
                          [] IsBlock(item) ->
                               out \o (IF is_inline_lexical_type(type[item.id]) \/ out = <<>> THEN <<>> ELSE Newline)
                                   \o text[item.id]
                          [] OTHER         -> out
            IN  FoldLeft(Piece, <<>>, [i \in DOMAIN kids[b] |-> i])
    IN  text

-----------------------------------------------------------------------------
(* Properties.                                                              *)

\* Nothing lies deeper than the cap lets the renderer go.
Shallow(cap) == \A b \in Alive \ {Root} : Depth(b) <= cap

\* The blocks in a node whose rule shows nothing of it.
HiddenIn(rules) ==
    {b \in Alive \ {Root} : type[b] \in DOMAIN rules.nodes /\ Hides(rules.nodes[type[b]])}

\* For every document and rule set the output is whole: all captured frames
\* are emitted, each element ends, and lies in exactly the elements of the
\* blocks its own block is in, past the nesting cap too.  Only a block of a
\* type that unknown_types lists has no element, and one inside a node whose
\* rule hides what it holds.
TagsNest ==
    \A rules \in RuleSets :
        LET segments    == render_segments(rules)
            tokens      == into_segments(segments)
            below       == Below(kids)
            started     == Started(tokens) \intersect Alive
            Around(b)   == {a \in started : b \in below[a]}
            InItsOwn(token, open) ==
                \/ token.b \notin Alive
                \/ ToSet(open) \intersect Alive
                      = Around(token.b) \ (IF token.t = "start" THEN {token.b} ELSE {})
        IN  /\ Len(segments) = 1
            /\ Nests(tokens, InItsOwn)
            /\ Shallow(rules.cap) =>
                  \A b \in Alive \ {Root} :
                      \/ b \in Started(tokens)
                      \/ type[b] \in node_types_unknown(rules)
                      \/ \E h \in HiddenIn(rules) \ {b} : b \in below[h]

\* Rendering shows every unit of text and every decorator exactly once: text
\* beside nested blocks, in links and in unknown nodes is neither lost nor
\* doubled between the walk of blocks and that of inline content.  A rule
\* without content hides what its nodes hold, and nothing else.  Reading the
\* text finds the same units, hidden or not, also once each, and a block's own
\* text agrees with the document's lines.  Past the nesting cap content may be
\* missing from the HTML, but is not doubled.
TextIsShownOnce ==
    LET read       == FlattenSeq(xml_blocks_text)
        text       == UNION {ToSet(get_string(b)) : b \in Alive}
        decorators == UNION {ToSet(Shown(b, i)) : <<b, i>> \in
                               {<<b, i>> \in Alive \X (1..MaxUnits) :
                                   i \in DOMAIN kids[b] /\ kids[b][i].k = "e"}}
    IN  /\ IsInjective(read) /\ ToSet(read) = text
        /\ \A b \in Alive \ {Root} :
              ItemsOf(block_text[b]) = FlattenSeq(walk_lexical_block[b])
        /\ \A rules \in RuleSets :
              LET shown  == ItemsOf(to_html(rules))
                  hidden == UNION {Below(kids)[h] : h \in HiddenIn(rules)}
                  wanted == {token \in text \union decorators : token.b \notin hidden}
              IN  /\ IsInjective(shown) /\ ToSet(shown) \subseteq wanted
                  /\ Shallow(rules.cap) => ToSet(shown) = wanted

=============================================================================
