------------------------------- MODULE Carets -------------------------------
(***************************************************************************)
(* Y::Text and the relative positions editors put in awareness as carets.   *)
(* A text is a sequence of units with identities; a deleted one stays as a  *)
(* tombstone.  Ruby's writes and a peer's are the same changes.  What a     *)
(* position names and where that is now is decided in yrs, outside of this  *)
(* repository.                                                              *)
(***************************************************************************)
EXTENDS Indexes

CONSTANTS MaxText,    \* bound: units ever written
          CaretIndex  \* the indexes Ruby passes

ASSUME CaretConstants == MaxText \in Nat /\ CaretIndex \subseteq Int

VARIABLES units,  \* each unit ever written, with its kind, identity and whether it is alive
          caret   \* the hash the last relative_position returned

caretVars == <<units, caret>>

Live(us) == ItemsAt(us, {p \in DOMAIN us : us[p].alive})

\* A {type, tname, item, assoc} hash, without the one of type and tname that names this text.
NoCaret == [item |-> 0, tname |-> FALSE, assoc |-> 0]

CaretInit == units = <<>> /\ caret = NoCaret

\* Where new units may come to lie for a document index: next to tombstones on either side.
Places(at) ==
    {p \in 0..Len(units) : Len(Live(SubSeq(units, 1, p))) = at /\ (p > 0 => units[p].k # "hi")}

text_insert(index, chunk) ==
    /\ Len(units) + Len(chunk) <= MaxText
    /\ \E p \in Places(end_or_units(Live(units), index)) :
          units' = SubSeq(units, 1, p)
                   \o [i \in DOMAIN chunk |-> [k |-> chunk[i].k, id |-> Len(units) + i, alive |-> TRUE]]
                   \o SubSeq(units, p + 1, Len(units))
    /\ UNCHANGED caret

\* The units with those at document indexes from+1 to `to` deleted.
Buried(from, to) ==
    [p \in DOMAIN units |->
        IF Len(Live(SubSeq(units, 1, p))) \in (from + 1)..to THEN [units[p] EXCEPT !.alive = FALSE] ELSE units[p]]

text_delete(index, length) ==
    LET at == delete_units(Live(units), index, length)
    IN  /\ units' = IF at[2] > at[1] THEN Buried(at[1], at[2]) ELSE units
        /\ UNCHANGED caret

text_clear == units' = Buried(0, Len(Live(units))) /\ UNCHANGED caret

-----------------------------------------------------------------------------
(* Positions.  Scope 0 is the text itself, else a unit's identity.          *)

\* The position of document index `at`: the unit after it, or before it.
sticky_index(at, before) ==
    LET live == Live(units)
        unit == IF before THEN at ELSE at + 1
    IN  [scope |-> IF unit \in DOMAIN live THEN live[unit].id ELSE 0, before |-> before]

\* The document index a position is at now.
get_offset(sticky) ==
    LET place == SelectInSeq(units, LAMBDA u : u.id = sticky.scope)
        left  == Len(Live(SubSeq(units, 1, place - 1)))
    IN  IF sticky.scope = 0
        THEN IF sticky.before THEN 0 ELSE Len(Live(units))
        ELSE left + (IF sticky.before /\ units[place].alive THEN 1 ELSE 0)

to_ruby(sticky) ==
    [item |-> sticky.scope, tname |-> sticky.scope = 0, assoc |-> IF sticky.before THEN -1 ELSE 0]

sticky_from_ruby(position) ==
    [scope |-> IF position.item # 0 THEN position.item ELSE 0, before |-> position.assoc < 0]

PositionAt(index, before) ==
    to_ruby(sticky_index(to_units(Live(units), insert_index(index, char_len(Live(units)))), before))

native_relative_position(index, before) ==
    /\ caret' = PositionAt(index, before)
    /\ UNCHANGED units

index_at(position) == to_chars(Live(units), get_offset(sticky_from_ruby(position)))

CaretNext ==
    \/ \E i \in CaretIndex :
          \/ \E c \in Chunks : text_insert(i, c)
          \/ \E n \in 1..MaxText : text_delete(i, n)
          \/ \E before \in BOOLEAN : native_relative_position(i, before)
    \/ text_clear

CaretSpec == CaretInit /\ [][CaretNext]_caretVars

-----------------------------------------------------------------------------
\* The characters alive up to place p.
CharsUpTo(p) == Cardinality({q \in 1..p : units[q].alive /\ units[q].k # "lo"})

\* A caret stays beside its character, wide or not, whatever is written and
\* deleted around it; when the character goes it stays between the neighbours,
\* and one at an end stays there.  Taken and looked up at once it gives the
\* index it was taken at.
CaretsKeepTheirPlace ==
    LET place == SelectInSeq(units, LAMBDA u : u.id = caret.item)
        all   == CharsUpTo(Len(units))
    IN  /\ caret # NoCaret =>
              index_at(caret) =
                  CASE caret.item # 0 /\ caret.assoc = 0  -> CharsUpTo(place - 1)
                    [] caret.item # 0 /\ caret.assoc = -1 -> CharsUpTo(place)
                    [] caret.item = 0 /\ caret.assoc = 0  -> all
                    [] caret.item = 0 /\ caret.assoc = -1 -> 0
        /\ \A i \in CaretIndex, before \in BOOLEAN :
              index_at(PositionAt(i, before)) = insert_index(i, all)
=============================================================================
