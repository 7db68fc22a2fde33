------------------------------ MODULE Indexes ------------------------------
(***************************************************************************)
(* How every live handle turns Ruby's indexes into a document's: Ruby       *)
(* counts characters and an embed as one, the document UTF-16 units.        *)
(***************************************************************************)
EXTENDS Integers, Sequences, FiniteSets, SequencesExt

\* A character outside the basic plane takes two units, "hi" and "lo"; any
\* other item takes one.
Unit(k) == [k |-> k, id |-> 0]

IsText(item) == item.k \in {"a", "hi", "lo"}

Narrow == <<Unit("a")>>

Wide == <<Unit("hi"), Unit("lo")>>

Chunks == {Narrow, Wide}

Clamp(n, low, high) == IF n < low THEN low ELSE IF n > high THEN high ELSE n

insert_index(index, len) == Clamp(IF index < 0 THEN len + index + 1 ELSE index, 0, len)

\* The element an index names, or -1 outside.
element_index(index, len) ==
    LET i == IF index < 0 THEN len + index ELSE index
    IN  IF i \in 0..(len - 1) THEN i ELSE -1

\* The span of characters delete(index, length) removes, empty outside.
delete_span(index, length, len) ==
    LET start == IF index < 0 THEN len + index ELSE index
    IN  IF start < 0 \/ start > len
        THEN <<0, 0>>
        ELSE <<start, start + Clamp(length, 0, len - start)>>

\* The items of s at some of its places, in order.
ItemsAt(s, places) ==
    LET upto[p \in 0..Len(s)] ==
            IF p = 0 THEN <<>> ELSE upto[p - 1] \o (IF p \in places THEN <<s[p]>> ELSE <<>>)
    IN  upto[Len(s)]

\* How many of the places are among the first p.
CountTo(places, p) == Cardinality({q \in places : q <= p})

\* Where each character starts.
CharStarts(s) == {p \in DOMAIN s : s[p].k # "lo"}

char_len(s) == Cardinality(CharStarts(s))

\* A fault: a character taken for a unit.
to_units_unscaled(s, chars) == chars

\* The document index of character `chars`: the units of the ones before it.
to_units(s, chars) == Cardinality({p \in DOMAIN s : CountTo(CharStarts(s), p) <= chars})

\* A fault: a unit taken for a character.
to_chars_unscaled(s, units) == units

\* The character index of document index `units`: the characters that start before it.
to_chars(s, units) == CountTo(CharStarts(s), units)

end_or_units(s, index) ==
    IF index = -1 THEN Len(s) ELSE to_units(s, insert_index(index, char_len(s)))

\* The document indexes delete(index, length) removes between.
delete_units(s, index, length) ==
    LET span == delete_span(index, length, char_len(s))
    IN  <<to_units(s, span[1]), to_units(s, span[2])>>

-----------------------------------------------------------------------------
(* What Ruby's own classes do, to compare with.                             *)

\* A sequence as Ruby sees it, one element per character or embed.  Half of a
\* wide character shows as itself.
Chars(s) ==
    LET second == {p \in DOMAIN s : p > 1 /\ s[p].k = "lo" /\ s[p - 1].k = "hi"}
        shown  == [p \in DOMAIN s |-> IF p + 1 \in second THEN Unit("wide") ELSE s[p]]
    IN  ItemsAt(shown, DOMAIN s \ second)

\* String#insert and Array#insert, with an index outside brought to the nearest end.
RubyInsert(cs, index, new) ==
    LET before == Cardinality({p \in DOMAIN cs : p <= (IF index < 0 THEN Len(cs) + index + 1 ELSE index)})
    IN  SubSeq(cs, 1, before) \o new \o SubSeq(cs, before + 1, Len(cs))

\* The place Array#[] reads: none outside.
RubyPlace(index, len) == {p \in 1..len : p = (IF index < 0 THEN len + index ELSE index) + 1}

\* String#slice!(index, length).
RubySlice(cs, index, length) ==
    LET start == IF index < 0 THEN Len(cs) + index ELSE index
    IN  ItemsAt(cs, {p \in DOMAIN cs : start < 0 \/ p <= start \/ p > start + length})
=============================================================================
