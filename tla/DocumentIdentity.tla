-------------------------- MODULE DocumentIdentity --------------------------
(***************************************************************************)
(* How a document row is found or made (app/models/y/document.rb and       *)
(* lib/y/collaborative/attribute.rb).  A row has two identities: its key,  *)
(* which channels use, and the record attribute it is bound to, which Ruby *)
(* code uses; either may come first.  Two unique indexes keep rows apart,  *)
(* and Document.for and Document.append race each other, statement by      *)
(* statement, to make or claim the row.                                    *)
(*                                                                         *)
(* A row never changes its key, so a row is named by its key here, and     *)
(* rows[k] says whom it is bound to.  Rows are not deleted while the calls *)
(* of the model run.                                                       *)
(***************************************************************************)
EXTENDS Naturals

CONSTANTS Caller,     \* the calls, each recording one update
          Attr,       \* attributes of records: a (record, name) pair
          Key,        \* document keys
          Derived,    \* per attribute: key_for(record, name)
          Absent,     \* no row has this key
          Unbound,    \* a key-only row: record and name are nil
          Nothing     \* no row found

ASSUME IdentityAssumption ==
    /\ Derived \in [Attr -> Key]
    /\ \A a, b \in Attr : Derived[a] = Derived[b] => a = b
    /\ Absent \notin Attr
    /\ Unbound \notin Attr
    /\ Absent # Unbound
    /\ Nothing \notin Key

VARIABLES
    rows,      \* per key: the row's binding, Unbound, or Absent
    updates,   \* per key: the calls whose update the row has
    wants,     \* per call: the attribute or the key it was given
    pc,        \* per call: the statement it executes next
    retries,   \* per call: `attempts` of Document.for
    doc        \* per call: the row it got

vars == <<rows, updates, wants, pc, retries, doc>>

Statements == {"find", "adopt", "claim", "refind", "insert", "lookup",
               "find_key", "insert_key", "append", "done", "raised"}

ByAttr == [by : {"attr"}, attr : Attr]
ByKey  == [by : {"key"}, key : Key]

TypeOK ==
    /\ rows \in [Key -> Attr \cup {Absent, Unbound}]
    /\ updates \in [Key -> SUBSET Caller]
    /\ wants \in [Caller -> ByAttr \cup ByKey]
    /\ pc \in [Caller -> Statements]
    /\ retries \in [Caller -> 0..2]
    /\ doc \in [Caller -> Key \cup {Nothing}]
    /\ \A c \in Caller : pc[c] \in {"append", "done"} => doc[c] \in Key
    /\ \A k \in Key : updates[k] # {} => rows[k] # Absent

(* The unique index on record_type, record_id and name. *)
OneRowEach == \A j, k \in Key : rows[j] = rows[k] /\ rows[j] \in Attr => j = k

Init ==
    /\ rows = [k \in Key |-> Absent]
    /\ updates = [k \in Key |-> {}]
    /\ wants \in [Caller -> ByAttr \cup ByKey]
    /\ pc = [c \in Caller |-> IF wants[c].by = "attr" THEN "find" ELSE "find_key"]
    /\ retries = [c \in Caller |-> 0]
    /\ doc = [c \in Caller |-> Nothing]

-----------------------------------------------------------------------------
(* Call c executes statement s next. *)
At(c, s) == pc[c] = s

BoundTo(a) == {k \in Key : rows[k] = a}

(* The call goes on with statement s. *)
Goto(c, s) == pc' = [pc EXCEPT ![c] = s] /\ UNCHANGED doc

(* The call has its row, k; what is left is to append to it. *)
Got(c, k) == /\ pc' = [pc EXCEPT ![c] = "append"]
             /\ doc' = [doc EXCEPT ![c] = k]

(* Look up by record and name: take the row, or go on with statement s. *)
FindOr(c, s) ==
    LET found == BoundTo(wants[c].attr)
    IN  IF found = {} THEN Goto(c, s) ELSE \E k \in found : Got(c, k)

(* find_by(record, name) *)
Find(c) ==
    /\ At(c, "find")
    /\ FindOr(c, "adopt")
    /\ UNCHANGED <<rows, updates, wants, retries>>

(* adopt: is there a key-only row under the derived key? *)
Adopt(c) ==
    /\ At(c, "adopt")
    /\ Goto(c, IF rows[Derived[wants[c].attr]] = Unbound THEN "claim" ELSE "insert")
    /\ UNCHANGED <<rows, updates, wants, retries>>

(* adopt: bind the row, unless the index has another row for the attribute. *)
Claim(c) ==
    /\ At(c, "claim")
    /\ LET a == wants[c].attr
       IN  IF BoundTo(a) \subseteq {Derived[a]}
           THEN rows' = [rows EXCEPT ![Derived[a]] = a] /\ Got(c, Derived[a])
           ELSE Goto(c, "refind") /\ UNCHANGED rows
    /\ UNCHANGED <<updates, wants, retries>>

(* adopt's rescue: a racer adopted or created it first. *)
Refind(c) ==
    /\ At(c, "refind")
    /\ FindOr(c, "insert")
    /\ UNCHANGED <<rows, updates, wants, retries>>

(* create_or_find_by!(record, name): the insert, under the derived key. *)
InsertUnder(c, k) ==
    /\ At(c, "insert")
    /\ LET a == wants[c].attr
       IN  IF BoundTo(a) = {} /\ rows[k] = Absent
           THEN rows' = [rows EXCEPT ![k] = a] /\ Got(c, k)
           ELSE Goto(c, "lookup") /\ UNCHANGED rows
    /\ UNCHANGED <<updates, wants, retries>>

InsertAnyKey(c) == \E k \in Key : InsertUnder(c, k)

Insert(c) == InsertUnder(c, Derived[wants[c].attr])

LookupOnce(c) ==
    /\ At(c, "lookup")
    /\ FindOr(c, "raised")
    /\ UNCHANGED <<rows, updates, wants, retries>>

(* create_or_find_by!(record, name): the insert collided, so look the row up;
   if it is not there either, Document.for tries once more, then raises. *)
Lookup(c) ==
    /\ At(c, "lookup")
    /\ FindOr(c, IF retries[c] = 0 THEN "find" ELSE "raised")
    /\ retries' = [retries EXCEPT ![c] = IF BoundTo(wants[c].attr) = {} THEN @ + 1 ELSE @]
    /\ UNCHANGED <<rows, updates, wants>>

(* find_by(key) *)
FindKey(c) ==
    /\ At(c, "find_key")
    /\ IF rows[wants[c].key] = Absent THEN Goto(c, "insert_key") ELSE Got(c, wants[c].key)
    /\ UNCHANGED <<rows, updates, wants, retries>>

InsertKeyBlindly(c) ==
    /\ At(c, "insert_key")
    /\ rows' = [rows EXCEPT ![wants[c].key] = Unbound]
    /\ Got(c, wants[c].key)
    /\ UNCHANGED <<updates, wants, retries>>

(* create_or_find_by!(key): insert, or find the row that was there first. *)
InsertKey(c) ==
    /\ At(c, "insert_key")
    /\ rows' = [rows EXCEPT ![wants[c].key] = IF @ = Absent THEN Unbound ELSE @]
    /\ Got(c, wants[c].key)
    /\ UNCHANGED <<updates, wants, retries>>

(* The row's append (DocumentStore tells what it does). *)
Append(c) ==
    /\ At(c, "append")
    /\ updates' = [updates EXCEPT ![doc[c]] = @ \cup {c}]
    /\ pc' = [pc EXCEPT ![c] = "done"]
    /\ UNCHANGED <<rows, wants, retries, doc>>

(* The application makes a row for an attribute under a key of its own. *)
Supply(a, k) ==
    /\ BoundTo(a) = {}
    /\ rows[k] = Absent
    /\ rows' = [rows EXCEPT ![k] = a]
    /\ UNCHANGED <<updates, wants, pc, retries, doc>>

For(c) == Find(c) \/ Adopt(c) \/ Claim(c) \/ Refind(c) \/ Insert(c) \/ Lookup(c)

AppendByKey(c) == FindKey(c) \/ InsertKey(c)

Next == \/ \E c \in Caller : For(c) \/ AppendByKey(c) \/ Append(c)
        \/ \E a \in Attr, k \in Key : Supply(a, k)

Spec == Init /\ [][Next]_vars

-----------------------------------------------------------------------------
(* Attribute#key: the key clients sync the attribute under. *)
DocumentKey(a) == IF BoundTo(a) = {} THEN Derived[a] ELSE CHOOSE k \in Key : rows[k] = a

(* Attribute#load_state: whose updates it returns, or nil. *)
LoadState(a) == IF BoundTo(a) = {} THEN Nothing ELSE updates[CHOOSE k \in Key : rows[k] = a]

-----------------------------------------------------------------------------
(* Document.for raises only where it must: another attribute's row has taken
   the derived key.  Whatever channels and other calls do between its
   statements, one more pass is enough. *)
ForFindsOne ==
    \A c \in Caller : pc[c] = "raised" =>
        rows[Derived[wants[c].attr]] \in Attr \ {wants[c].attr}

(* The key of an attribute never changes: a page that subscribed before the
   first row existed is on the same stream as one that subscribes after the
   row was created, or adopted, by any call.  Only the application, binding
   the attribute to a key of its own, can change it. *)
KeyStays ==
    [][\A a \in Attr : \/ DocumentKey(a)' = DocumentKey(a)
                       \/ \E k \in Key : Supply(a, k)]_vars

(* Once bound, a row stays bound to its attribute: neither adopt nor a channel
   that finds the row there first takes or unbinds the document of another. *)
BindingStays == [][\A k \in Key : rows[k] \in Attr => rows'[k] = rows[k]]_vars

(* An update that Document.for's row took is part of what the attribute loads,
   and stays so: its row was, and remains, the attribute's. *)
UpdatesAreLoaded ==
    \A c \in Caller : wants[c].by = "attr" /\ pc[c] = "done" =>
        BoundTo(wants[c].attr) # {} /\ c \in LoadState(wants[c].attr)

=============================================================================
