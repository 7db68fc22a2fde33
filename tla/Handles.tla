------------------------------ MODULE Handles ------------------------------
(***************************************************************************)
(* Live Y::Map and Y::Array handles.  A handle is an identity: it outlives  *)
(* what it names, then reads as empty and refuses writes.  A Hash written   *)
(* to a document becomes a live map, an Array a plain value.  Each          *)
(* operation is one transaction under the document's lock, so each is one   *)
(* step; a value's conversion comes before it, and raises before anything   *)
(* is written.                                                              *)
(***************************************************************************)
EXTENDS Indexes, FiniteSets, FiniteSetsExt, TLC

CONSTANTS Key,          \* map keys, numbers that stand for strings: a symbol is the key of its string
          Values,       \* what Ruby writes
          MAX_NESTING,  \* how deep it may nest
          MaxShared,    \* bound: shared types ever created
          MaxItems,     \* bound: what all of them hold, entries, elements and units
          HandleIndex   \* the indexes Ruby passes

VARIABLES shared,  \* each shared type ever created: its kind, what it holds and whether it is alive
          target   \* the handle of the last write

handleVars == <<shared, target>>

-----------------------------------------------------------------------------
(* Values, Ruby's and the document's: a scalar, a string of units, an Array *)
(* or a Hash, or the shared type with an identity.                          *)

Value(is, of)  == [is |-> is, of |-> of, id |-> 0]
Scalar(name)   == Value(name, <<>>)
Text(chunk)    == Value("string", chunk)
ArrayOf(items) == Value("array", items)
HashOf(pairs)  == Value("hash", pairs)
Shared(id)     == [is |-> "shared", of |-> <<>>, id |-> id]

Nested(v) == v.is \in {"array", "hash"}

\* A collection with F applied to everything in it.
Each(of, F(_)) == [i \in DOMAIN of |-> F(of[i])]

RECURSIVE invalue_at(_, _)
\* A Ruby value as the document takes it: a symbol is its string.  "error"
\* stands in it for what nests too deep.
invalue_at(v, depth) ==
    IF depth > MAX_NESTING THEN Scalar("error")
    ELSE IF Nested(v) THEN [v EXCEPT !.of = Each(@, LAMBDA w : invalue_at(w, depth + 1))]
    ELSE IF v.is = "symbol" THEN Text(v.of)
    ELSE v

RECURSIVE Raises(_)
Raises(v) == v.is = "error" \/ (Nested(v) /\ \E i \in DOMAIN v.of : Raises(v.of[i]))

RECURSIVE any_to_ruby(_)
\* A plain value of the document as Ruby reads it: a whole float is an integer.
any_to_ruby(v) ==
    IF Nested(v) THEN [v EXCEPT !.of = Each(@, any_to_ruby)]
    ELSE IF v.is = "float one" THEN Scalar("one")
    ELSE v

RECURSIVE out_to_any(_, _)
\* A value with the snapshot of every shared type in it.
out_to_any(s, v) ==
    IF v.is # "shared" THEN v
    ELSE IF s[v.id].kind = "text" THEN Text(s[v.id].of)
    ELSE Value(IF s[v.id].kind = "map" THEN "hash" ELSE "array",
               Each(s[v.id].of, LAMBDA w : out_to_any(s, w)))

\* What a handle reads.
Read(s, v) == any_to_ruby(out_to_any(s, v))

to_h(s, h) == Each(s[h].of, LAMBDA v : Read(s, v))

to_a(s, h) == Each(s[h].of, LAMBDA v : Read(s, v))

map_get(s, h, key) == IF key \in DOMAIN s[h].of THEN Read(s, s[h].of[key]) ELSE Scalar("nil")

array_get(s, h, index) ==
    LET i == element_index(index, Len(s[h].of))
    IN  IF i = -1 THEN Scalar("nil") ELSE Read(s, s[h].of[i + 1])

\* get_map, get_array and get_text: the handle on a stored value of that kind.
Narrowed(s, v, kind) == IF v.is = "shared" /\ s[v.id].kind = kind THEN v.id ELSE 0

map_child(s, h, key, kind) == IF key \in DOMAIN s[h].of THEN Narrowed(s, s[h].of[key], kind) ELSE 0

array_child(s, h, index, kind) ==
    LET i == element_index(index, Len(s[h].of))
    IN  IF i = -1 THEN 0 ELSE Narrowed(s, s[h].of[i + 1], kind)

-----------------------------------------------------------------------------
(* Shared types.                                                            *)

New(kind, of) == [kind |-> kind, of |-> of, alive |-> TRUE]

\* The shared types ids and everything in them.
RECURSIVE Within(_, _)
Within(s, ids) ==
    LET inner == {w.id : w \in UNION {ToSet(s[i].of) : i \in {j \in ids : s[j].kind # "text"}}} \ {0}
    IN  IF ids = {} THEN {} ELSE ids \union Within(s, inner)

Handle(s) == {h \in DOMAIN s : s[h].alive}

\* What a transaction leaves: a shared type that is in neither root is gone.
Committed(s) ==
    LET kept == Within(s, {1, 2})
    IN  [h \in DOMAIN s |-> IF h \in kept THEN s[h] ELSE [s[h] EXCEPT !.of = <<>>, !.alive = FALSE]]

RECURSIVE to_in(_, _)
\* Stores a converted value: what is stored for it, and s with the maps it needs.
to_in(s, v) ==
    LET Pair(k, acc) ==
            LET put == to_in(acc.s, v.of[k])
            IN  [s |-> put.s, of |-> acc.of @@ (k :> put.v)]
        pairs == FoldSet(Pair, [s |-> s, of |-> <<>>], DOMAIN v.of)
    IN  IF v.is = "hash"
        THEN [s |-> Append(pairs.s, New("map", pairs.of)), v |-> Shared(Len(pairs.s) + 1)]
        ELSE [s |-> s, v |-> v]

text_in(s, chunk) == [s |-> Append(s, New("text", chunk)), v |-> Shared(Len(s) + 1)]

-----------------------------------------------------------------------------
(* What each write leaves, and what it returns.                             *)

Done(s, returned) == [s |-> Committed(s), returned |-> any_to_ruby(returned)]

Without(of, key) == [k \in DOMAIN of \ {key} |-> of[k]]

map_put(put, h, key) == Done([put.s EXCEPT ![h].of = (key :> put.v) @@ @], put.v)

\* A fault: the value read after it is removed.
map_delete_then_read(s, h, key) ==
    LET removed == [s EXCEPT ![h].of = Without(@, key)]
        prev == IF key \in DOMAIN s[h].of THEN out_to_any(Committed(removed), s[h].of[key]) ELSE Scalar("nil")
    IN  Done(removed, prev)

map_delete(s, h, key) ==
    LET prev == IF key \in DOMAIN s[h].of THEN out_to_any(s, s[h].of[key]) ELSE Scalar("nil")
    IN  Done([s EXCEPT ![h].of = Without(@, key)], prev)

array_put(put, h, index) ==
    LET at == insert_index(index, Len(put.s[h].of))
    IN  Done([put.s EXCEPT ![h].of = InsertAt(@, at + 1, put.v)], put.v)

array_delete_at(s, h, index) ==
    LET i == element_index(index, Len(s[h].of))
    IN  IF i = -1 THEN Done(s, Scalar("nil"))
        ELSE Done([s EXCEPT ![h].of = RemoveAt(@, i + 1)], out_to_any(s, s[h].of[i + 1]))

\* A fault: a Hash written over the map that was there.
array_replace_in_place(put, h, index) ==
    LET i    == element_index(index, Len(put.s[h].of))
        was  == put.s[h].of[i + 1]
    IN  IF i = -1 THEN Done(shared, Scalar("error"))
        ELSE IF was.is = "shared" /\ put.v.is = "shared"
        THEN Done([put.s EXCEPT ![was.id] = put.s[put.v.id]], put.v)
        ELSE Done([put.s EXCEPT ![h].of[i + 1] = put.v], put.v)

\* An index outside raises, with nothing written.
array_replace(put, h, index) ==
    LET i == element_index(index, Len(put.s[h].of))
    IN  IF i = -1 THEN Done(shared, Scalar("error"))
        ELSE Done([put.s EXCEPT ![h].of = InsertAt(RemoveAt(@, i + 1), i + 1, put.v)], put.v)

emptied(s, h) == Done([s EXCEPT ![h].of = <<>>], Scalar("nil"))

-----------------------------------------------------------------------------
HandlesInit == shared = <<New("map", <<>>), New("array", <<>>)>> /\ target = 1

Converted == {v \in {invalue_at(v, 0) : v \in Values} : ~ Raises(v)}

\* What Ruby writes, as it is stored: a value, or a text.
Puts == {to_in(shared, v) : v \in Converted} \union {text_in(shared, c) : c \in Chunks}

Wrote(h, done) ==
    /\ Len(done.s) <= MaxShared
    /\ FoldLeft(LAMBDA n, one : n + Cardinality(DOMAIN one.of), 0, done.s) <= MaxItems
    /\ shared' = done.s
    /\ target' = h

Of(kind) == {h \in Handle(shared) : shared[h].kind = kind}

map_set(h, key, put) == h \in Of("map") /\ Wrote(h, map_put(put, h, key))

array_insert(h, index, put) == h \in Of("array") /\ Wrote(h, array_put(put, h, index))

array_set(h, index, put) ==
    /\ h \in Of("array")
    /\ element_index(index, Len(shared[h].of)) # -1
    /\ Wrote(h, array_replace(put, h, index))

text_insert_at(h, index, chunk) ==
    LET at == end_or_units(shared[h].of, index)
    IN  /\ h \in Of("text")
        /\ Wrote(h, Done([shared EXCEPT ![h].of = SubSeq(@, 1, at) \o chunk \o SubSeq(@, at + 1, Len(@))],
                         Scalar("nil")))

\* A JavaScript peer's update puts a live array into a map.
PeerArray(h, key) ==
    LET put == [s |-> Append(shared, New("array", <<>>)), v |-> Shared(Len(shared) + 1)]
    IN  h \in Of("map") /\ Wrote(h, map_put(put, h, key))

HandlesNext ==
    \/ \E h \in Of("map"), key \in Key :
          \/ \E put \in Puts : map_set(h, key, put)
          \/ Wrote(h, map_delete(shared, h, key))
          \/ PeerArray(h, key)
    \/ \E h \in Of("array"), index \in HandleIndex :
          \/ \E put \in Puts : array_insert(h, index, put) \/ array_set(h, index, put)
          \/ Wrote(h, array_delete_at(shared, h, index))
    \/ \E h \in Of("text"), index \in HandleIndex, chunk \in Chunks : text_insert_at(h, index, chunk)
    \/ \E h \in Handle(shared) : Wrote(h, emptied(shared, h))

-----------------------------------------------------------------------------
(* Properties.                                                              *)

\* What Ruby reads back of v: what JSON.parse(JSON.generate(v)) gives.
RECURSIVE Json(_)
Json(v) ==
    CASE Nested(v)          -> [v EXCEPT !.of = Each(@, Json)]
      [] v.is = "symbol"    -> Text(v.of)
      [] v.is = "float one" -> Scalar("one")
      [] OTHER              -> v

Writable == {v \in Values : ~ Raises(invalue_at(v, 0))}

JsonOf == [v \in Writable |-> Json(v)]

\* `stored` is what each writable value is stored as.
MapWritesAsRuby(h, stored) ==
    LET before == to_h(shared, h)
    IN  \A key \in Key :
          LET deleted == map_delete(shared, h, key)
          IN  /\ to_h(deleted.s, h) = Without(before, key)
              /\ map_get(deleted.s, h, key) = Scalar("nil")
              /\ deleted.returned = IF key \in DOMAIN before THEN before[key] ELSE Scalar("nil")
              /\ \A v \in Writable :
                    LET s == map_put(stored[v], h, key).s
                    IN  /\ to_h(s, h) = (key :> JsonOf[v]) @@ before
                        /\ map_get(s, h, key) = JsonOf[v]
                        /\ map_child(s, h, key, "array") = 0
                        /\ LET nested == map_child(s, h, key, "map")
                           IN  IF v.is = "hash" THEN to_h(s, nested) = JsonOf[v].of ELSE nested = 0

ArrayWritesAsRuby(h, stored) ==
    LET items  == shared[h].of
        before == to_a(shared, h)
    IN  \A index \in HandleIndex :
          LET place   == RubyPlace(index, Len(items))
              there   == IF place = {} THEN {Scalar("nil")} ELSE {before[p] : p \in place}
              deleted == array_delete_at(shared, h, index)
          IN  /\ {array_get(shared, h, index)} = there
              /\ {deleted.returned} = there
              /\ deleted.s[h].of = RubySlice(items, index, 1)
              /\ \A v \in Writable :
                    LET inserted == array_put(stored[v], h, index).s
                        replaced == array_replace(stored[v], h, index).s
                    IN  /\ to_a(inserted, h) = RubyInsert(before, index, <<JsonOf[v]>>)
                        /\ \E x \in ToSet(inserted[h].of) : inserted[h].of = RubyInsert(items, index, <<x>>)
                        /\ place = {} => replaced = shared
                        /\ \A p \in place :
                              /\ to_a(replaced, h) = [before EXCEPT ![p] = JsonOf[v]]
                              /\ \A q \in DOMAIN items \ {p} : replaced[h].of[q] = items[q]
                              /\ (array_child(replaced, h, index, "map") # 0) = (v.is = "hash")

\* Through every handle, at any depth, []=, insert, delete and delete_at do
\* what Ruby's Hash and Array do, and return what was there: a live map is
\* read before it goes.  A Hash comes back as a live handle, an Array as a
\* plain value, and the other items stay the ones they were.
ReadsAsRuby ==
    LET stored == [v \in Writable |-> to_in(shared, invalue_at(v, 0))]
    IN  /\ \A h \in Of("map") : MapWritesAsRuby(h, stored)
        /\ \A h \in Of("array") : ArrayWritesAsRuby(h, stored)

\* A write changes what its own handle reads and takes at most one of its
\* items away, or all.  Of the other handles only those in what it took go,
\* and for good; each other one keeps its contents, so a handle never turns
\* into one on whatever took its place.
HandlesKeepTheirValue ==
    [][LET Items(s) == {v.id : v \in ToSet(s[target'].of)} \ {0}
           taken    == IF shared[target'].kind = "text" THEN {} ELSE Items(shared) \ Items(shared')
       IN  /\ Cardinality(taken) <= 1 \/ shared'[target'].of = <<>>
           /\ \A h \in DOMAIN shared \ {target'} :
                 shared'[h] = IF h \in Within(shared, taken)
                              THEN [shared[h] EXCEPT !.of = <<>>, !.alive = FALSE]
                              ELSE shared[h]]_handleVars

=============================================================================
