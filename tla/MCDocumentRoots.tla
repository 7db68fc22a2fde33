-------------------------- MODULE MCDocumentRoots --------------------------
(* TLC's values for DocumentRoots.  Blocks, elements and calls of edit take  *)
(* their identities from one set, which are interchangeable; so are the      *)
(* threads that run from the start.                                          *)
EXTENDS DocumentRoots

MCSymmetry == Permutations(Block) \cup Permutations(Pool)

-----------------------------------------------------------------------------
\* Rules: none, declared elements, and callbacks, which win over a built-in
\* type.  Some hide the text their nodes hold.
MCLexicalDeclared ==
    [box      |-> RuleFor(FALSE, FALSE, "blocks"),
     mark     |-> RuleFor(FALSE, FALSE, "none"),
     listitem |-> RuleFor(FALSE, FALSE, "blocks")]

MCLexicalCallbacks ==
    [box            |-> RuleFor(TRUE, FALSE, "blocks"),
     mark           |-> RuleFor(TRUE, FALSE, "inline"),
     link           |-> RuleFor(TRUE, FALSE, "inline"),
     horizontalrule |-> RuleFor(TRUE, FALSE, "none")]

MCRuleSets ==
    {[nodes |-> <<>>,               cap |-> 2],
     [nodes |-> MCLexicalDeclared,  cap |-> 2],
     [nodes |-> MCLexicalCallbacks, cap |-> 1]}

MCCallbacks ==
    [box     |-> RuleFor(TRUE, FALSE, "blocks"),
     caption |-> RuleFor(FALSE, FALSE, "inline"),
     mention |-> RuleFor(TRUE, FALSE, "inline")]

MCDeclared ==
    [box       |-> RuleFor(FALSE, FALSE, "blocks"),
     hardBreak |-> RuleFor(FALSE, TRUE, "none"),
     mention   |-> RuleFor(TRUE, FALSE, "none"),
     paragraph |-> RuleFor(FALSE, FALSE, "inline")]

MCPmRuleSets ==
    {[nodes |-> <<>>,        marks |-> {},                          cap |-> 2],
     [nodes |-> MCCallbacks, marks |-> {"code", "comment"},         cap |-> 1],
     [nodes |-> MCDeclared,  marks |-> {"bold", "comment", "link"}, cap |-> 2]}

\* Marks: a value tells two links apart; "unset" is a style that sets nothing.
With(names, value) == [name \in names |-> value]

MCMarkSets ==
    {With({}, 1), With({"bold", "link"}, 1), With({"link"}, 2),
     With({"code", "bold", "link"}, 1), With({"comment", "bold"}, 1),
     [textStyle |-> "unset", subscript |-> 1, superscript |-> 1]}

-----------------------------------------------------------------------------
\* Values Ruby writes, the last nested too deep for MAX_NESTING = 2.
MCValues ==
    {HashOf(1 :> Scalar("float one")),
     HashOf(1 :> HashOf(2 :> Value("symbol", Narrow))),
     ArrayOf(<<HashOf(1 :> Scalar("one")), Value("symbol", Wide)>>),
     ArrayOf(<<ArrayOf(<<HashOf(1 :> ArrayOf(<<>>))>>)>>)}

MCCaretIndex == (-2)..2

MCHandleIndex == (-2)..0
=============================================================================
