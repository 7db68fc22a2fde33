------------------------------ MODULE HtmlCore ------------------------------
(***************************************************************************)
(* What the two HTML renderers share: the emitter, the work on their        *)
(* traversal stack, the rules an application registers and the facts        *)
(* node_types reports.  Markup is abstracted to tokens: the start and the   *)
(* end of a node's element, and one token for each unit of text and each    *)
(* childless element.  A callback's segment is a start and an end too: the  *)
(* caller's markup goes around the content.                                 *)
(***************************************************************************)
EXTENDS Integers, Sequences, SequencesExt, FiniteSets

\* Tokens name what they show: a node b, or item i of the node b.
Start(b)   == <<[t |-> "start", b |-> b, i |-> 0]>>
End(b)     == <<[t |-> "end", b |-> b, i |-> 0]>>
Shown(b, i) == <<[t |-> "shown", b |-> b, i |-> i]>>

-----------------------------------------------------------------------------
(* The emitter: frames of output, the innermost last.                       *)

new_emitter == <<<<>>>>

push_str(frames, tokens) == Append(Front(frames), Last(frames) \o tokens)

begin_frame(frames) == Append(frames, <<>>)

\* What the innermost frame captured goes, as content of b, to the one around it.
emit_deferred(frames, b) == push_str(Front(frames), Start(b) \o Last(frames) \o End(b))

\* The segments, with every callback's markup spliced around its content.
into_segments(frames) == Last(frames)

-----------------------------------------------------------------------------
(* Rules: [nodes, marks, cap], nodes a function from some types to a rule,  *)
(* marks the marks with a rule, cap the nesting cap.                        *)

RuleFor(callback, void, content) == [callback |-> callback, void |-> void, content |-> content]

\* What a rule's element is for a node b whose content renders as `inner`.
RuleElement(rule, b, inner) ==
    IF rule.void /\ ~ rule.callback THEN Start(b) \o End(b)
    ELSE Start(b) \o (IF rule.content = "none" THEN <<>> ELSE inner) \o End(b)

\* The rule shows nothing of what its node holds.
Hides(rule) == rule.content = "none" \/ (rule.void /\ ~ rule.callback)

-----------------------------------------------------------------------------
(* The walk over blocks.  Work is taken from the end of the stack.          *)

Open(b, depth)   == [w |-> "open", b |-> b, depth |-> depth]
Close(b)         == [w |-> "close", b |-> b, depth |-> 0]
CloseNothing     == [w |-> "nothing", b |-> 0, depth |-> 0]
EndDeferred(b)   == [w |-> "deferred", b |-> b, depth |-> 0]

\* Work for the blocks cs: dropped past the cap, in order when taken.
OpenAll(cs, depth, cap) ==
    IF depth < cap THEN [i \in DOMAIN cs |-> Open(Reverse(cs)[i], depth + 1)] ELSE <<>>

\* The loop of render_block_tree, at most `turns` turns: each pops one piece
\* of work and opens a block, ends an element or seals a callback's segment.
WorkOff(OpenBlock(_, _, _), start, turns) ==
    LET Turn(s) ==
            LET work   == Last(s.stack)
                popped == [s EXCEPT !.stack = Front(@)]
            IN  CASE work.w = "open"     -> OpenBlock(popped, work.b, work.depth)
                  [] work.w = "close"    -> [popped EXCEPT !.frames = push_str(@, End(work.b))]
                  [] work.w = "nothing"  -> popped
                  [] work.w = "deferred" -> [popped EXCEPT !.frames = emit_deferred(@, work.b)]
        after[n \in 0..turns] ==
            IF n = 0 THEN start
            ELSE LET s == after[n - 1] IN IF s.stack = <<>> THEN s ELSE Turn(s)
    IN  after[turns]

\* A rule's block: its inline content now, its blocks (for content "blocks")
\* and its end later.
OpenRuled(s, b, rule, inline, blocks) ==
    IF rule.callback
    THEN [stack  |-> s.stack \o <<EndDeferred(b)>> \o blocks,
          frames |-> push_str(begin_frame(s.frames), inline)]
    ELSE IF rule.void \/ rule.content # "blocks"
    THEN [s EXCEPT !.frames = push_str(@, RuleElement(rule, b, inline))]
    ELSE [stack  |-> s.stack \o <<Close(b)>> \o blocks,
          frames |-> push_str(s.frames, Start(b) \o inline)]

-----------------------------------------------------------------------------
(* node_types.                                                              *)

\* The facts about each type among nodes: how many there are, the types of
\* their children and whether they hold text.
type_map(nodes, TypeOfNode(_), ChildTypes(_), HasText(_)) ==
    [ty \in {TypeOfNode(n) : n \in nodes} |->
        LET those == {n \in nodes : TypeOfNode(n) = ty}
        IN  [count    |-> Cardinality(those),
             children |-> UNION {ChildTypes(n) : n \in those},
             text     |-> \E n \in those : HasText(n)]]

\* The types to_html has neither a rule nor a built-in arm for.
unknown_types(types, ruled, builtin) == {ty \in DOMAIN types : ty \notin ruled \union builtin}

-----------------------------------------------------------------------------
(* What whole output is: read from left to right, `open` holds the elements *)
(* that have started and not ended.  A start or an item is placed well when *)
(* PlacedWell says so, given the elements open around it.                  *)

Nests(tokens, PlacedWell(_, _)) ==
    LET Read(at, token) ==
            IF token.t = "end"
            THEN IF at.open # <<>> /\ Last(at.open) = token.b
                 THEN [at EXCEPT !.open = Front(@)] ELSE [at EXCEPT !.well = FALSE]
            ELSE [well |-> at.well /\ PlacedWell(token, at.open),
                  open |-> IF token.t = "start" THEN Append(at.open, token.b) ELSE at.open]
        Unopened == [well |-> TRUE, open |-> <<>>]
    IN  FoldLeft(Read, Unopened, tokens) = Unopened

Started(tokens) == {token.b : token \in {u \in ToSet(tokens) : u.t = "start"}}

ItemsOf(tokens) == SelectSeq(tokens, LAMBDA token : token.t = "shown")
=============================================================================
