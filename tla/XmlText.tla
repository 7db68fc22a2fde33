------------------------------ MODULE XmlText ------------------------------
(***************************************************************************)
(* Live Y::XmlText handles and the helpers that write Lexical documents     *)
(* through them.  A document is a tree: the root and every block hold a     *)
(* sequence of UTF-16 units, embeds and nested blocks.  A handle is a       *)
(* block's identity: every action names a block, and is refused once the    *)
(* block is out of the tree, as `resolve` refuses it.  Each operation is    *)
(* one transaction under the document's lock, so each is one step.          *)
(***************************************************************************)
EXTENDS Indexes

CONSTANTS Block,      \* identities of nested blocks
          Root,       \* the root XmlText
          MaxUnits,   \* bound: units, embeds and blocks in the whole document
          MaxIndex    \* bound: the indexes and lengths Ruby passes

ASSUME XmlTextConstants == MaxUnits \in Nat /\ MaxIndex \in Nat /\ Root \notin Block

VARIABLES kids,     \* what the root and each block hold, in order
          type,     \* __type of each block, "none" once it is gone
          changed   \* the ordinals the last apply_update_changes returned

vars == <<kids, type, changed>>

\* `changed` after any other operation.
NoReport == {-1}

Index == (-MaxIndex)..MaxIndex

-----------------------------------------------------------------------------
(* Blocks.  "m" is an embedded map (a text node's marker), "e" a decorator  *)
(* element.                                                                 *)

Embedded(b) == [k |-> "block", id |-> b]

IsBlock(item) == item.k = "block"

\* The blocks embedded in a sequence, in order.
embedded_xml_texts(s) ==
    LET blocks == ItemsAt(s, {p \in DOMAIN s : IsBlock(s[p])})
    IN  [i \in DOMAIN blocks |-> blocks[i].id]

\* Each block of the tree k with every block below it.
Below(k) ==
    LET below[b \in DOMAIN k] ==
            {b} \union UNION {below[c] : c \in ToSet(embedded_xml_texts(k[b]))}
    IN  below

\* How many units, embeds and blocks a tree holds.
Size(k) == FoldFunction(LAMBDA s, n : n + Len(s), 0, k)

\* The document index of the n-th embedded block, or the end when there is none.
embedded_xml_text_index(s, n) ==
    LET blocks == {i \in DOMAIN s : IsBlock(s[i])}
        nth    == {i \in blocks : Cardinality({j \in blocks : j < i}) = n}
    IN  IF nth = {} THEN Len(s) ELSE (CHOOSE i \in nth : TRUE) - 1

ends_with_xml_text(s) == s # <<>> /\ IsBlock(Last(s))

\* The n-th embedded block, none outside.
xml_text(s, n) ==
    LET blocks == embedded_xml_texts(s)
        i      == element_index(n, Len(blocks))
    IN  IF i = -1 THEN {} ELSE {blocks[i + 1]}

-----------------------------------------------------------------------------
(* What each write leaves in the sequence it is called on.                  *)

Spliced(s, at, items) == SubSeq(s, 1, at) \o items \o SubSeq(s, at + 1, Len(s))

RemoveRange(s, at, n) == SubSeq(s, 1, at) \o SubSeq(s, at + n + 1, Len(s))

Inserted(s, index, chunk) == Spliced(s, end_or_units(s, index), chunk)

EmbedInserted(s, index, embed) ==
    Spliced(s, to_units(s, insert_index(index, char_len(s))), <<embed>>)

Deleted(s, index, length) ==
    LET at == delete_units(s, index, length)
    IN  IF at[2] > at[1] THEN RemoveRange(s, at[1], at[2] - at[1]) ELSE s

BlockInserted(s, n, b) ==
    LET ordinal == insert_index(n, Len(embedded_xml_texts(s)))
    IN  Spliced(s, embedded_xml_text_index(s, ordinal), <<Embedded(b)>>)

BlockDeleted(s, n) ==
    LET ordinal == element_index(n, Len(embedded_xml_texts(s)))
    IN  IF ordinal = -1 THEN s ELSE RemoveRange(s, embedded_xml_text_index(s, ordinal), 1)

TextAppended(s, chunk) ==
    (IF s = <<>> \/ ends_with_xml_text(s) THEN Append(s, Unit("m")) ELSE s) \o chunk

-----------------------------------------------------------------------------
(* The shapes editors and the writer's helpers give a document: what a      *)
(* block of each type may hold.  "paragraph" stands for headings, quotes    *)
(* and code blocks too; "box" and "mark" are an application's own types,    *)
(* one a block and one inline.                                              *)

Holds ==
    [root      |-> {"paragraph", "list", "box", "e"},
     paragraph |-> {"text", "m", "e", "link", "mark"},
     list      |-> {"listitem"},
     listitem  |-> {"text", "m", "link", "mark", "list"},
     link      |-> {"text", "m", "mark"},
     mark      |-> {"text", "m", "link"},
     box       |-> {"paragraph", "list"}]

Types == DOMAIN Holds \ {"root"}

TypeOf(b) == IF b = Root THEN "root" ELSE type[b]

\* The blocks a handle still resolves to.
Alive == {b \in DOMAIN kids : TypeOf(b) # "none"}

\* A bound: the document has room for n more.
Room(n) == Size(kids) + n <= MaxUnits

Takes(b, kind) == b \in Alive /\ kind \in Holds[TypeOf(b)]

\* Content for a block of type t: units, then a block of type `nested` (if
\* any) with a text node of its own, as `content` and append_list make it.
Content(t) ==
    LET Run(chunk) == <<Unit("m")>> \o chunk
        texts      == IF "text" \in Holds[t] THEN {<<>>} \union {Run(c) : c \in Chunks} ELSE {<<>>}
        inner      == Holds[t] \intersect {"paragraph", "listitem", "link"}
    IN  [units : texts, nested : {"none"}, inner : {<<>>}]
        \union [units : {<<>>}, nested : inner, inner : {Run(Narrow)}]

-----------------------------------------------------------------------------
Init ==
    /\ kids = [b \in {Root} \union Block |-> <<>>]
    /\ type = [b \in Block |-> "none"]
    /\ changed = NoReport

\* A transaction leaves the tree k with types t: what is out of the tree is gone.
Commit(k, t) ==
    LET alive == Below(k)[Root]
    IN  /\ kids' = [b \in DOMAIN k |-> IF b \in alive THEN k[b] ELSE <<>>]
        /\ type' = [b \in Block |-> IF b \in alive THEN t[b] ELSE "none"]

\* A write through a handle on b that leaves s in it.
Write(b, s) == Commit([kids EXCEPT ![b] = s], type) /\ changed' = NoReport

insert(b, index, chunk) ==
    /\ Takes(b, "text")
    /\ Room(Len(chunk))
    /\ Write(b, Inserted(kids[b], index, chunk))

insert_embed(b, index) ==
    /\ Takes(b, "m")
    /\ Room(1)
    /\ Write(b, EmbedInserted(kids[b], index, Unit("m")))

delete(b, index, length) ==
    /\ b \in Alive
    /\ Write(b, Deleted(kids[b], index, length))

clear(b) == b \in Alive /\ Write(b, <<>>)

append_text(b, chunk) ==
    /\ Takes(b, "text")
    /\ Room(Len(chunk) + 1)
    /\ Write(b, TextAppended(kids[b], chunk))

delete_xml_text(b, n) ==
    /\ b \in Alive
    /\ Write(b, BlockDeleted(kids[b], n))

\* Piece.write for each piece of the content c, after s in b; d is the
\* identity its nested block gets.
Written(k, b, s, c, d) ==
    IF c.nested = "none"
    THEN [k EXCEPT ![b] = s \o c.units]
    ELSE [k EXCEPT ![b] = s \o c.units \o <<Embedded(d)>>, ![d] = c.inner]

Typed(t, c, d) == IF c.nested = "none" THEN t ELSE [t EXCEPT ![d] = c.nested]

\* An identity no block has, if there is one left: which one makes no difference.
Fresh(taken) == IF Block \subseteq taken THEN {} ELSE {CHOOSE b \in Block \ taken : TRUE}

\* The identity of the block in the content c, or Root when there is none.
FreshIn(c, taken) == IF c.nested = "none" THEN {Root} ELSE Fresh(taken)

Weight(c) == Len(c.units) + Len(c.inner) + (IF c.nested = "none" THEN 0 ELSE 1)

\* append, and replace when `emptied`.
write_content(b, c, d, emptied) ==
    /\ b \in Alive \ {Root}
    /\ Room(Weight(c))
    /\ Commit(Written(kids, b, IF emptied THEN <<>> ELSE kids[b], c, d), Typed(type, c, d))
    /\ changed' = NoReport

insert_xml_text(b, n, t, c, new, d) ==
    /\ Takes(b, t)
    /\ Room(Weight(c) + 1)
    /\ new \notin Alive
    /\ Commit(Written([kids EXCEPT ![b] = BlockInserted(@, n, new)], new, <<>>, c, d),
              Typed([type EXCEPT ![new] = t], c, d))
    /\ changed' = NoReport

-----------------------------------------------------------------------------
(* apply_update_changes.  A root's children hold one unit each: blocks and  *)
(* decorators.                                                              *)

\* A fault: decorators counted as blocks.
ordinal_of_children(s, i) == i

\* How many blocks of the root s come before document index i.
ordinal(s, i) == Len(embedded_xml_texts(SubSeq(s, 1, i)))

blocks_in(s, from, to) == Len(embedded_xml_texts(SubSeq(s, from + 1, to)))

\* An event on the root itself, one entry of its delta after the other: it
\* walks the root as it was, inserted items the root as it is now.
delta_entry(at, d, before, after) ==
    CASE d.op = "retain"  -> [at EXCEPT !.old = @ + d.n, !.new = @ + d.n]
      [] d.op = "insert"  ->
           [at EXCEPT !.new  = @ + 1,
                      !.hits = @ \union (IF IsBlock(d.item) THEN {ordinal(after, at.new)} ELSE {})]
      [] d.op = "deleted" ->
           LET first == ordinal(before, at.old)
           IN  [at EXCEPT !.old  = @ + d.n,
                          !.hits = @ \union first..(first + blocks_in(before, at.old, at.old + d.n) - 1)]

\* The ordinals it touches.
root_positions(delta, before, after) ==
    LET at[i \in 0..Len(delta)] ==
            IF i = 0 THEN [old |-> 0, new |-> 0, hits |-> {}]
            ELSE delta_entry(at[i - 1], delta[i], before, after)
    IN  at[Len(delta)].hits

\* The ordinal of the root's child a change below it is in: the first index of
\* the event's path.
PathOrdinal(k, b) ==
    LET i == CHOOSE i \in DOMAIN k[Root] : IsBlock(k[Root][i]) /\ b \in Below(k)[k[Root][i].id]
    IN  ordinal(k[Root], i - 1)

contains_branch(k, block, b) == b \in Below(k)[block]

\* The ordinal of the root's child a position in the block b falls in.
block_at(k, b) ==
    LET blocks == embedded_xml_texts(k[Root])
    IN  SelectInSeq(blocks, LAMBDA block : contains_branch(k, block, b)) - 1

\* A peer's update: it removes n children of the root from index `from`,
\* inserts `item` (if any) at index `at`, outside of what it removes, and
\* adds an embed of edited.kind to edited.blocks.
Delta(from, n, at, item) ==
    LET retain(m) == IF m > 0 THEN <<[op |-> "retain", n |-> m]>> ELSE <<>>
        removal   == IF n > 0 THEN <<[op |-> "deleted", n |-> n]>> ELSE <<>>
        insertion == IF item = <<>> THEN <<>> ELSE <<[op |-> "insert", item |-> Head(item)]>>
    IN  IF at <= from
        THEN retain(at) \o insertion \o retain(from - at) \o removal
        ELSE retain(from) \o removal \o retain(at - from - n) \o insertion

apply_update_changes(from, n, at, item, edited, t) ==
    LET before == kids[Root]
        after  == IF at <= from
                  THEN Spliced(RemoveRange(before, from, n), at, item)
                  ELSE RemoveRange(Spliced(before, at, item), from, n)
        k      == [b \in DOMAIN kids |-> IF b = Root THEN after
                                         ELSE IF b \in edited.blocks THEN Append(kids[b], Unit(edited.kind))
                                         ELSE kids[b]]
    IN  /\ \A b \in edited.blocks : Takes(b, edited.kind) /\ b \in Below(k)[Root]
        /\ Commit(k, t)
        /\ changed' = {PathOrdinal(k, b) : b \in edited.blocks}
                      \union root_positions(Delta(from, n, at, item), before, after)

\* Bound: an update removes at most two of the root's children and changes at
\* most one block.
Edited ==
    {[blocks |-> {}, kind |-> "m"]} \union
    {[blocks |-> {b}, kind |-> IF "e" \in Holds[type[b]] THEN "e" ELSE "m"] : b \in Alive \ {Root}}

ApplyUpdateChanges ==
    /\ Room(2)
    /\ \E from, at \in 0..Len(kids[Root]), n \in 0..2, edited \in Edited :
          /\ from + n <= Len(kids[Root])
          /\ at \in (0..from) \union ((from + n)..Len(kids[Root]))
          /\ \/ at = from /\ apply_update_changes(from, n, at, <<>>, edited, type)
             \/ apply_update_changes(from, n, at, <<Unit("e")>>, edited, type)
             \/ \E new \in Fresh(Alive) :
                   apply_update_changes(from, n, at, <<Embedded(new)>>, edited,
                                        [type EXCEPT ![new] = "paragraph"])

\* Bound: of the indexes below 0 a transaction uses one, the last place.  The
\* properties try every index in every document.
WriteIndex == (-1)..MaxIndex

Next ==
    \/ \E b \in Alive, i \in WriteIndex :
          \/ \E c \in Chunks : insert(b, i, c)
          \/ insert_embed(b, i)
          \/ \E n \in 1..MaxIndex : delete(b, i, n)
          \/ delete_xml_text(b, i)
          \/ \E t \in Types \intersect Holds[TypeOf(b)], new \in Fresh(Alive) :
                \E c \in Content(t) : \E d \in FreshIn(c, Alive \union {new}) :
                   insert_xml_text(b, i, t, c, new, d)
    \/ \E b \in Alive, c \in Chunks : append_text(b, c)
    \/ \E b \in Alive : clear(b)
    \/ \E b \in Alive \ {Root}, emptied \in BOOLEAN :
          \E c \in Content(type[b]) : \E d \in FreshIn(c, Alive) : write_content(b, c, d, emptied)
    \/ ApplyUpdateChanges

Spec == Init /\ [][Next]_vars

-----------------------------------------------------------------------------
(* Properties.                                                              *)

TextEditsAsRuby(s) ==
    LET chars == Chars(s)
    IN  \A i \in Index :
          /\ \A c \in Chunks : Chars(Inserted(s, i, c)) = RubyInsert(chars, i, Chars(c))
          /\ Chars(EmbedInserted(s, i, Unit("m"))) = RubyInsert(chars, i, <<Unit("m")>>)
          /\ \A n \in 0..MaxIndex : Chars(Deleted(s, i, n)) = RubySlice(chars, i, n)

\* The units of text in a sequence.
TextIn(s) == ItemsAt(s, {p \in DOMAIN s : IsText(s[p])})

BlockEditsAsRuby(s) ==
    LET blocks == embedded_xml_texts(s)
    IN  \A i \in Index :
          /\ embedded_xml_texts(BlockInserted(s, i, Root)) = RubyInsert(blocks, i, <<Root>>)
          /\ embedded_xml_texts(BlockDeleted(s, i)) = RubySlice(blocks, i, 1)
          /\ TextIn(BlockDeleted(s, i)) = TextIn(s)
          /\ xml_text(s, i) = {blocks[p] : p \in RubyPlace(i, Len(blocks))}

\* Through every handle, at every index, insert, insert_embed and delete do to
\* the characters what String#insert and String#slice! do, and insert_xml_text
\* and delete_xml_text to the blocks what Array#insert and slice! do: no index
\* lands inside a character, whatever embeds and blocks lie before it.
EditsAsRuby == \A b \in Alive : TextEditsAsRuby(kids[b]) /\ BlockEditsAsRuby(kids[b])

\* The children of the root that the tree k1 lacks, and k2 lacks, and those
\* of k2 a block changed in.
Touched(k1, k2) ==
    LET was == embedded_xml_texts(k1[Root])
        is  == embedded_xml_texts(k2[Root])
        stayed == UNION {Below(k1)[b] \intersect Below(k2)[b] : b \in ToSet(was) \intersect ToSet(is)}
    IN  {i - 1 : i \in {j \in DOMAIN was : was[j] \notin ToSet(is)}}
        \union {i - 1 : i \in {j \in DOMAIN is : is[j] \notin ToSet(was)}}
        \union {block_at(k2, b) : b \in {c \in stayed : k1[c] # k2[c]}}

\* apply_update_changes returns the ordinal of every block the update added,
\* the one block_at gives for a position in any block it changed, at any
\* depth, and the one every removed block had: no other, and decorators shift
\* none.  So an agent that looks up a person's caret finds its block reported.
ChangesAreReported == [][changed' # NoReport => changed' = Touched(kids, kids')]_vars

=============================================================================
