----------------------- MODULE DocumentChannelProofs -----------------------
(***************************************************************************)
(* For any number of calls, subscriptions, frames, attributes and keys.     *)
(* First of DocumentIdentity: Document.for fails only where it must, an     *)
(* attribute keeps its key and a row its binding, and what was appended to  *)
(* an attribute is what it loads.  Then of the channel: it makes the calls  *)
(* DocumentIdentity is about and no others, a frame fails only where it     *)
(* must, what is refused is stopped, and a broadcast reaches exactly its    *)
(* document's subscribers.                                                  *)
(***************************************************************************)
EXTENDS DocumentChannel, TLAPS

-----------------------------------------------------------------------------
(* The calls of Document.for and of the key lookup.                         *)

(* The row under the derived key of the attribute that call c was given. *)
AtDerived(c) == rows[Derived[wants[c].attr]]

Has(a) == \E k \in Key : rows[k] = a

(* A call follows the program of what it was given. *)
Follows ==
    \A c \in Caller :
        /\ wants[c].by = "attr" =>
               pc[c] \in Statements \ {"find_key", "insert_key"}
        /\ wants[c].by = "key" =>
               pc[c] \in {"find_key", "insert_key", "append", "done"}

(* What a call of Document.for knows: at each statement, what an earlier one
   saw and no other call can undo; on the second pass, that the row which made
   the insert collide is still there. *)
Knows(c) ==
    /\ pc[c] \in {"append", "done"} => rows[doc[c]] = wants[c].attr
    /\ pc[c] = "done" => c \in updates[doc[c]]
    /\ pc[c] = "claim" => AtDerived(c) \in {Unbound, wants[c].attr}
    /\ pc[c] = "refind" => Has(wants[c].attr)
    /\ pc[c] = "lookup" => Has(wants[c].attr) \/ AtDerived(c) # Absent
    /\ retries[c] = 1 => AtDerived(c) # Absent
    /\ retries[c] = 1 /\ pc[c] \in {"insert", "lookup"}
           => Has(wants[c].attr) \/ AtDerived(c) \in Attr \ {wants[c].attr}
    /\ retries[c] = 2 => pc[c] = "raised"
    /\ pc[c] = "raised" => AtDerived(c) \in Attr \ {wants[c].attr}

(* A call that has its row has one that exists. *)
GotRow ==
    \A c \in Caller : pc[c] \in {"append", "done"} => rows[doc[c]] # Absent

IdentityInv ==
    /\ TypeOK
    /\ OneRowEach
    /\ Follows
    /\ GotRow
    /\ \A c \in Caller : wants[c].by = "attr" => Knows(c)

(* How a step may change rows: a row appears, or a key-only row is bound to
   the attribute whose derived key it has. *)
RowsStep ==
    \A k \in Key :
        \/ rows'[k] = rows[k]
        \/ rows[k] = Absent /\ rows'[k] # Absent
        \/ rows[k] = Unbound /\ \E a \in Attr : Derived[a] = k /\ rows'[k] = a

-----------------------------------------------------------------------------
(* The invariant holds before any call has begun. *)
LEMMA InvInit == Init => IdentityInv
<1> SUFFICES ASSUME Init PROVE IdentityInv
    OBVIOUS
<1> USE IdentityAssumption DEF Init
<1>1. TypeOK
    BY DEF TypeOK, Statements, ByAttr, ByKey
<1>2. OneRowEach
    BY DEF OneRowEach
<1>3. Follows
    BY DEF Follows, Statements, ByAttr, ByKey
<1>4. GotRow
    BY DEF GotRow
<1>5. ASSUME NEW c \in Caller, wants[c].by = "attr" PROVE Knows(c)
    BY <1>5 DEF Knows
<1> QED BY <1>1, <1>2, <1>3, <1>4, <1>5 DEF IdentityInv

(* What one call knows survives every step of the others. *)
LEMMA KnowledgeStays ==
    ASSUME TypeOK, TypeOK', OneRowEach, RowsStep, wants' = wants,
           NEW c \in Caller, wants[c].by = "attr", Knows(c),
           pc'[c] = pc[c], doc'[c] = doc[c], retries'[c] = retries[c],
           \A k \in Key : updates[k] \subseteq updates'[k]
    PROVE  Knows(c)'
<1> DEFINE a == wants[c].attr
<1>1. a \in Attr /\ Derived[a] \in Key
    BY IdentityAssumption DEF TypeOK, ByAttr, ByKey
<1>2. \A k \in Key : rows[k] \in Attr => rows'[k] = rows[k]
    BY IdentityAssumption DEF RowsStep
<1>3. Has(a) => Has(a)'
    BY <1>1, <1>2 DEF Has
<1>4. AtDerived(c) # Absent => AtDerived(c)' # Absent
    BY <1>1, IdentityAssumption DEF RowsStep, AtDerived
<1>5. AtDerived(c) \in {Unbound, a} => AtDerived(c)' \in {Unbound, a}
    BY <1>1, IdentityAssumption DEF RowsStep, AtDerived
<1>6. AtDerived(c) \in Attr \ {a} => AtDerived(c)' \in Attr \ {a}
    BY <1>1, <1>2 DEF AtDerived
<1>7. pc[c] \in {"append", "done"} => doc[c] \in Key /\ rows'[doc[c]] = a
    BY <1>1, <1>2 DEF Knows, TypeOK
<1>8. pc[c] = "done" => c \in updates'[doc[c]]
    BY <1>7 DEF Knows
<1> QED BY <1>1, <1>3, <1>4, <1>5, <1>6, <1>7, <1>8 DEF Knows

(* Every step changes rows as RowsStep says, and moves one call at most. *)
LEMMA StepShape ==
    ASSUME IdentityInv, Next
    PROVE  /\ RowsStep
           /\ wants' = wants
           /\ \A k \in Key : updates[k] \subseteq updates'[k]
<1> USE IdentityAssumption DEF IdentityInv, TypeOK
<1>1. ASSUME NEW c \in Caller, For(c)
      PROVE  RowsStep /\ wants' = wants /\ updates' = updates
  <2>1. wants[c].by = "attr"
      BY <1>1 DEF For, Find, Adopt, Claim, Refind, Insert, InsertUnder, Lookup, At,
             Follows, ByAttr, ByKey
  <2>2. wants[c].attr \in Attr /\ Derived[wants[c].attr] \in Key
      BY <2>1 DEF ByAttr, ByKey
  <2>3. CASE Claim(c)
    <3>1. rows[Derived[wants[c].attr]] \in {Unbound, wants[c].attr}
        BY <2>1, <2>3 DEF Claim, At, Knows, AtDerived
    <3> QED BY <3>1, <2>2, <2>3 DEF Claim, RowsStep, Goto, Got
  <2>4. CASE Insert(c)
      BY <2>2, <2>4 DEF Insert, InsertUnder, RowsStep
  <2>5. CASE Find(c) \/ Adopt(c) \/ Refind(c) \/ Lookup(c)
      BY <2>5 DEF Find, Adopt, Refind, Lookup, RowsStep
  <2> QED BY <1>1, <2>3, <2>4, <2>5 DEF For
<1>2. ASSUME NEW c \in Caller, AppendByKey(c)
      PROVE  RowsStep /\ wants' = wants /\ updates' = updates
  <2>1. wants[c].key \in Key
      BY <1>2 DEF AppendByKey, FindKey, InsertKey, At, Follows, ByAttr, ByKey
  <2> QED BY <1>2, <2>1 DEF AppendByKey, FindKey, InsertKey, RowsStep
<1>3. ASSUME NEW c \in Caller, Append(c)
      PROVE  /\ RowsStep
             /\ wants' = wants
             /\ \A k \in Key : updates[k] \subseteq updates'[k]
    BY <1>3 DEF Append, At, RowsStep
<1>4. ASSUME NEW a \in Attr, NEW k \in Key, Supply(a, k)
      PROVE  RowsStep /\ wants' = wants /\ updates' = updates
    BY <1>4 DEF Supply, RowsStep
<1> QED BY <1>1, <1>2, <1>3, <1>4 DEF Next

(* A statement of Document.for preserves the invariant. *)
LEMMA ForStep ==
    ASSUME IdentityInv, NEW c \in Caller, For(c), RowsStep, wants' = wants,
           \A k \in Key : updates[k] \subseteq updates'[k]
    PROVE  IdentityInv'
<1> DEFINE a == wants[c].attr
<1> USE IdentityAssumption
<1>1. wants[c].by = "attr" /\ Knows(c)
    BY DEF IdentityInv, TypeOK, For, Find, Adopt, Claim, Refind, Insert, InsertUnder, Lookup,
           At, Follows, ByAttr, ByKey
<1>2. a \in Attr /\ Derived[a] \in Key
    BY <1>1 DEF IdentityInv, TypeOK, ByAttr, ByKey
<1>3. /\ pc[c] \in {"find", "adopt", "claim", "refind", "insert", "lookup"}
      /\ updates' = updates
    BY DEF For, Find, Adopt, Claim, Refind, Insert, InsertUnder, Lookup, At
<1>4. /\ \/ \E s \in Statements \ {"find_key", "insert_key", "append", "done"} : Goto(c, s)
         \/ \E k \in Key : rows'[k] = a /\ Got(c, k)
      /\ \/ rows' = rows
         \/ BoundTo(a) \subseteq {Derived[a]} /\ rows' = [rows EXCEPT ![Derived[a]] = a]
      /\ retries' \in [Caller -> 0..2]
      /\ \A d \in Caller \ {c} : retries'[d] = retries[d]
  <2>1. CASE Find(c) \/ Refind(c)
      BY <1>2, <2>1 DEF Find, Refind, FindOr, BoundTo, IdentityInv, TypeOK, Statements
  <2>2. CASE Adopt(c)
      BY <2>2 DEF Adopt, IdentityInv, TypeOK, Statements
  <2>3. CASE Claim(c)
      BY <1>2, <2>3 DEF Claim, IdentityInv, TypeOK, Statements
  <2>4. CASE Insert(c)
      BY <1>2, <2>4 DEF Insert, InsertUnder, IdentityInv, TypeOK, Statements
  <2>5. CASE Lookup(c)
    <3>1. retries[c] \in {0, 1}
        BY <1>1, <1>3 DEF Knows, IdentityInv, TypeOK
    <3>2. retries' \in [Caller -> 0..2] /\ \A d \in Caller \ {c} : retries'[d] = retries[d]
        BY <2>5, <3>1 DEF Lookup, IdentityInv, TypeOK
    <3> QED BY <1>2, <2>5, <3>2 DEF Lookup, FindOr, BoundTo, IdentityInv, TypeOK, Statements
  <2> QED BY <2>1, <2>2, <2>3, <2>4, <2>5 DEF For
<1>5. TypeOK'
    BY <1>2, <1>3, <1>4 DEF IdentityInv, TypeOK, Goto, Got, Statements
<1>6. OneRowEach'
    BY <1>2, <1>4 DEF IdentityInv, TypeOK, OneRowEach, BoundTo
<1>7. Follows'
    BY <1>1, <1>4, wants' = wants DEF IdentityInv, TypeOK, Follows, Goto, Got, Statements
<1>8. GotRow'
  <2>1. \A k \in Key : rows[k] # Absent => rows'[k] # Absent
      BY DEF RowsStep
  <2> QED BY <1>2, <1>4, <2>1 DEF IdentityInv, TypeOK, GotRow, Goto, Got
<1>9. ASSUME NEW d \in Caller, d # c, wants'[d].by = "attr" PROVE Knows(d)'
  <2>1. pc'[d] = pc[d] /\ doc'[d] = doc[d] /\ retries'[d] = retries[d]
      BY <1>4, <1>9 DEF Goto, Got, IdentityInv, TypeOK
  <2> QED BY <1>5, <1>9, <2>1, KnowledgeStays DEF IdentityInv
<1>10. Knows(c)'
  <2> USE <1>1, <1>2, <1>5 DEF IdentityInv, TypeOK
  <2>0. retries[c] \in {0, 1} /\ (retries[c] = 1 => AtDerived(c) # Absent)
      BY <1>3 DEF Knows
  <2>1. CASE Find(c)
      BY <2>0, <2>1 DEF Find, FindOr, Goto, Got, BoundTo, Knows, AtDerived, Has
  <2>2. CASE Adopt(c)
      BY <2>0, <2>2 DEF Adopt, Goto, Knows, AtDerived, Has
  <2>3. CASE Claim(c)
      BY <2>0, <2>3 DEF Claim, Goto, Got, BoundTo, Knows, AtDerived, Has
  <2>4. CASE Refind(c)
      BY <2>0, <2>4 DEF Refind, FindOr, Goto, Got, BoundTo, Knows, AtDerived, Has, At
  <2>5. CASE Insert(c)
      BY <2>0, <2>5 DEF Insert, InsertUnder, Goto, Got, BoundTo, Knows, AtDerived, Has, At
  <2>6. CASE Lookup(c)
    <3>1. CASE Has(a)
        BY <2>0, <2>6, <3>1 DEF Lookup, FindOr, Goto, Got, BoundTo, Knows, AtDerived, Has
    <3>2. CASE ~Has(a)
      <4>1. BoundTo(a) = {}
          BY <3>2 DEF BoundTo, Has
      <4>2. /\ pc'[c] = IF retries[c] = 0 THEN "find" ELSE "raised"
            /\ retries'[c] = retries[c] + 1
            /\ rows' = rows
          BY <2>6, <4>1 DEF Lookup, FindOr, Goto
      <4>3. AtDerived(c) # Absent
          BY <2>6, <3>2 DEF Lookup, At, Knows
      <4>4. retries[c] = 1 => AtDerived(c) \in Attr \ {a}
          BY <2>6, <3>2 DEF Lookup, At, Knows
      <4> QED BY <2>0, <4>2, <4>3, <4>4 DEF Knows, AtDerived, Has
    <3> QED BY <3>1, <3>2
  <2> QED BY <2>1, <2>2, <2>3, <2>4, <2>5, <2>6 DEF For
<1> QED BY <1>5, <1>6, <1>7, <1>8, <1>9, <1>10 DEF IdentityInv

(* So do a channel's statements, the append, and the application's own row. *)
LEMMA OtherStep ==
    ASSUME IdentityInv, RowsStep, wants' = wants,
           \A k \in Key : updates[k] \subseteq updates'[k],
           \/ \E c \in Caller : AppendByKey(c) \/ Append(c)
           \/ \E a \in Attr, k \in Key : Supply(a, k)
    PROVE  IdentityInv'
<1> USE IdentityAssumption
<1>0. \A k \in Key : /\ rows[k] # Absent => rows'[k] # Absent
                     /\ rows[k] \in Attr => rows'[k] = rows[k]
    BY DEF RowsStep
<1>1. ASSUME NEW c \in Caller, AppendByKey(c) PROVE IdentityInv'
  <2>1. wants[c].by = "key" /\ wants[c].key \in Key
      BY <1>1 DEF IdentityInv, TypeOK, AppendByKey, FindKey, InsertKey, At, Follows, ByAttr, ByKey
  <2>2. /\ \/ Goto(c, "insert_key")
           \/ rows'[wants[c].key] # Absent /\ Got(c, wants[c].key)
        /\ \/ rows' = rows
           \/ rows' = [rows EXCEPT ![wants[c].key] = Unbound]
        /\ updates' = updates /\ retries' = retries
      BY <1>1, <2>1 DEF AppendByKey, FindKey, InsertKey, IdentityInv, TypeOK
  <2>3. TypeOK'
      BY <2>1, <2>2, <1>0 DEF IdentityInv, TypeOK, Goto, Got, Statements
  <2>4. OneRowEach'
      BY <2>1, <2>2 DEF IdentityInv, TypeOK, OneRowEach
  <2>5. Follows' /\ GotRow'
      BY <2>1, <2>2, <1>0 DEF IdentityInv, TypeOK, Follows, GotRow, Goto, Got, Statements
  <2>6. ASSUME NEW d \in Caller, wants'[d].by = "attr" PROVE Knows(d)'
    <3>1. pc'[d] = pc[d] /\ doc'[d] = doc[d] /\ retries'[d] = retries[d]
        BY <2>1, <2>2, <2>6 DEF Goto, Got, IdentityInv, TypeOK
    <3> QED BY <2>3, <2>6, <3>1, KnowledgeStays DEF IdentityInv
  <2> QED BY <2>3, <2>4, <2>5, <2>6 DEF IdentityInv
<1>2. ASSUME NEW c \in Caller, Append(c) PROVE IdentityInv'
  <2>1. doc[c] \in Key /\ rows[doc[c]] # Absent /\ rows' = rows
      BY <1>2 DEF Append, At, IdentityInv, TypeOK, GotRow
  <2>2. TypeOK'
      BY <1>2, <2>1 DEF Append, At, IdentityInv, TypeOK, Statements
  <2>3. OneRowEach' /\ Follows' /\ GotRow'
      BY <1>2, <2>1 DEF Append, At, IdentityInv, TypeOK, OneRowEach, Follows, GotRow, Statements
  <2>4. ASSUME NEW d \in Caller, d # c, wants'[d].by = "attr" PROVE Knows(d)'
    <3>1. pc'[d] = pc[d] /\ doc'[d] = doc[d] /\ retries'[d] = retries[d]
        BY <1>2, <2>4 DEF Append, IdentityInv, TypeOK
    <3> QED BY <2>2, <2>4, <3>1, KnowledgeStays DEF IdentityInv
  <2>5. ASSUME wants'[c].by = "attr" PROVE Knows(c)'
      BY <1>2, <2>1, <2>5 DEF Append, At, IdentityInv, TypeOK, Knows, AtDerived, Has
  <2> QED BY <2>2, <2>3, <2>4, <2>5 DEF IdentityInv
<1>3. ASSUME NEW a \in Attr, NEW k \in Key, Supply(a, k) PROVE IdentityInv'
  <2>1. TypeOK'
      BY <1>3 DEF Supply, IdentityInv, TypeOK
  <2>2. OneRowEach'
      BY <1>3 DEF Supply, BoundTo, IdentityInv, TypeOK, OneRowEach
  <2>3. Follows' /\ GotRow'
      BY <1>0, <1>3 DEF Supply, IdentityInv, TypeOK, Follows, GotRow
  <2>4. ASSUME NEW d \in Caller, wants'[d].by = "attr" PROVE Knows(d)'
      BY <1>3, <2>1, <2>4, KnowledgeStays DEF Supply, IdentityInv
  <2> QED BY <2>1, <2>2, <2>3, <2>4 DEF IdentityInv
<1> QED BY <1>1, <1>2, <1>3

(* The invariant is inductive. *)
LEMMA InvStep == IdentityInv /\ [Next]_vars => IdentityInv'
<1> SUFFICES ASSUME IdentityInv, [Next]_vars PROVE IdentityInv'
    OBVIOUS
<1>1. CASE Next
    BY <1>1, StepShape, ForStep, OtherStep DEF Next
<1>2. CASE UNCHANGED vars
    BY <1>2 DEF vars, IdentityInv, TypeOK, OneRowEach, Follows, GotRow, Knows, AtDerived, Has
<1> QED BY <1>1, <1>2

(* Under every interleaving of the statements the invariant holds. *)
THEOREM IdentityInvariant == Spec => []IdentityInv
<1> QED BY InvInit, InvStep, PTL DEF Spec

(* Document.for raises only when another attribute's row has its key: one
   retry is enough, whatever the other calls do. *)
THEOREM ForNeverLosesTheRace == Spec => []ForFindsOne
<1>1. IdentityInv => ForFindsOne
    BY DEF IdentityInv, ForFindsOne, Knows, AtDerived, Follows, TypeOK, ByAttr, ByKey
<1> QED BY <1>1, IdentityInvariant, PTL

(* The row an attribute is bound to is the one CHOOSE finds. *)
LEMMA TheRow ==
    ASSUME OneRowEach, NEW a \in Attr, NEW k \in Key, rows[k] = a
    PROVE  BoundTo(a) # {} /\ (CHOOSE j \in Key : rows[j] = a) = k
    BY DEF BoundTo, OneRowEach

(* What Document.for's row took is what the attribute loads. *)
THEOREM AppendedIsLoaded == Spec => []UpdatesAreLoaded
<1>1. ASSUME IdentityInv PROVE UpdatesAreLoaded
  <2> SUFFICES ASSUME NEW c \in Caller, wants[c].by = "attr", pc[c] = "done"
               PROVE  /\ BoundTo(wants[c].attr) # {}
                      /\ c \in LoadState(wants[c].attr)
      BY DEF UpdatesAreLoaded
  <2>1. /\ wants[c].attr \in Attr
        /\ doc[c] \in Key
        /\ rows[doc[c]] = wants[c].attr
        /\ c \in updates[doc[c]]
      BY <1>1 DEF IdentityInv, TypeOK, Knows, ByAttr, ByKey
  <2>2. BoundTo(wants[c].attr) # {} /\ LoadState(wants[c].attr) = updates[doc[c]]
      BY <1>1, <2>1, TheRow DEF IdentityInv, LoadState
  <2> QED BY <2>1, <2>2
<1> QED BY <1>1, IdentityInvariant, PTL

(* No call takes or unbinds another attribute's row. *)
THEOREM BindingsStay == Spec => BindingStays
<1>1. ASSUME IdentityInv, [Next]_vars
      PROVE  [\A k \in Key : rows[k] \in Attr => rows'[k] = rows[k]]_vars
    BY <1>1, StepShape, IdentityAssumption DEF RowsStep
<1> QED BY <1>1, IdentityInvariant, PTL DEF Spec, BindingStays

(* A call leaves every attribute its key: the row it makes or adopts is under
   the derived key, which was the attribute's before. *)
LEMMA CallsKeepKeys ==
    ASSUME IdentityInv, IdentityInv', NEW c \in Caller, For(c) \/ AppendByKey(c) \/ Append(c),
           NEW a \in Attr
    PROVE  DocumentKey(a)' = DocumentKey(a)
<1>0. Next
    BY DEF Next
<1>1. CASE Has(a)
  <2>1. PICK k \in Key : rows[k] = a
      BY <1>1 DEF Has
  <2>2. rows'[k] = a
      BY <1>0, <2>1, StepShape, IdentityAssumption DEF RowsStep
  <2>3. DocumentKey(a) = k
      BY <2>1, TheRow DEF IdentityInv, DocumentKey
  <2>4. BoundTo(a)' # {} /\ (CHOOSE j \in Key : rows'[j] = a) = k
      BY <2>2 DEF IdentityInv, OneRowEach, BoundTo
  <2> QED BY <2>3, <2>4 DEF DocumentKey
<1>2. CASE ~Has(a) /\ ~Has(a)'
    BY <1>2 DEF Has, DocumentKey, BoundTo
<1>3. CASE ~Has(a) /\ Has(a)'
  <2>1. DocumentKey(a) = Derived[a]
      BY <1>3 DEF Has, DocumentKey, BoundTo
  <2>2. PICK k \in Key : rows'[k] = a
      BY <1>3 DEF Has
  <2>3. rows[k] # a
      BY <1>3, <2>2 DEF Has
  <2>4. CASE For(c)
    <3>1. wants[c].by = "attr" /\ wants[c].attr \in Attr
        BY <2>4 DEF IdentityInv, TypeOK, For, Find, Adopt, Claim, Refind, Insert,
               InsertUnder, Lookup, At, Follows, ByAttr, ByKey
    <3>2. rows' = [rows EXCEPT ![Derived[wants[c].attr]] = wants[c].attr]
        BY <2>2, <2>3, <2>4 DEF For, Find, Adopt, Claim, Refind, Insert, InsertUnder, Lookup
    <3>3. k = Derived[a]
        BY <2>2, <2>3, <3>1, <3>2, IdentityAssumption DEF IdentityInv, TypeOK
    <3>4. BoundTo(a)' # {} /\ (CHOOSE j \in Key : rows'[j] = a) = k
        BY <2>2 DEF IdentityInv, OneRowEach, BoundTo
    <3> QED BY <2>1, <3>3, <3>4 DEF DocumentKey
  <2>5. CASE AppendByKey(c) \/ Append(c)
      BY <2>2, <2>3, <2>5, IdentityAssumption
         DEF AppendByKey, FindKey, InsertKey, Append, IdentityInv, TypeOK
  <2> QED BY <2>4, <2>5
<1> QED BY <1>1, <1>2, <1>3

(* The application's own row changes the key of no other attribute. *)
LEMMA SupplyKeepsOthers ==
    ASSUME IdentityInv, IdentityInv', NEW b \in Attr, NEW j \in Key, Supply(b, j),
           NEW a \in Attr, b # a
    PROVE  DocumentKey(a)' = DocumentKey(a)
<1>1. BoundTo(a)' = BoundTo(a) /\ \A i \in Key : rows'[i] = a <=> rows[i] = a
    BY IdentityAssumption DEF Supply, BoundTo, IdentityInv, TypeOK
<1>2. CASE Has(a)
  <2>1. PICK i \in Key : rows[i] = a /\ rows'[i] = a
      BY <1>1, <1>2 DEF Has
  <2>2. DocumentKey(a) = i
      BY <2>1, TheRow DEF IdentityInv, DocumentKey
  <2>3. BoundTo(a)' # {} /\ (CHOOSE l \in Key : rows'[l] = a) = i
      BY <2>1 DEF IdentityInv, OneRowEach, BoundTo
  <2> QED BY <2>2, <2>3 DEF DocumentKey
<1>3. CASE ~ Has(a)
    BY <1>1, <1>3 DEF Has, BoundTo, DocumentKey
<1> QED BY <1>2, <1>3

(* An attribute keeps the key its clients sync under when its row is made or
   adopted; only the application's own row changes it. *)
THEOREM KeysStay == Spec => KeyStays
<1>1. ASSUME IdentityInv, IdentityInv', [Next]_vars, NEW a \in Attr
      PROVE  \/ DocumentKey(a)' = DocumentKey(a)
             \/ \E k \in Key : Supply(a, k)
  <2>1. CASE \E c \in Caller : For(c) \/ AppendByKey(c) \/ Append(c)
      BY <1>1, <2>1, CallsKeepKeys
  <2>2. ASSUME NEW b \in Attr, NEW j \in Key, Supply(b, j), b # a
        PROVE  DocumentKey(a)' = DocumentKey(a)
      BY <1>1, <2>2, SupplyKeepsOthers
  <2>3. CASE UNCHANGED vars
      BY <2>3 DEF vars, DocumentKey, BoundTo
  <2> QED BY <1>1, <2>1, <2>2, <2>3 DEF Next
<1>2. ASSUME IdentityInv, IdentityInv', [Next]_vars
      PROVE  [\A a \in Attr : \/ DocumentKey(a)' = DocumentKey(a)
                              \/ \E k \in Key : Supply(a, k)]_vars
    BY <1>1, <1>2
<1> QED BY <1>2, IdentityInvariant, PTL DEF Spec, KeyStays

-----------------------------------------------------------------------------
(* The channel.                                                             *)

(* No row has another attribute's derived key. *)
OwnKeys == \A a \in Attr : rows[Derived[a]] \in {Absent, Unbound, a}

(* What a subscription has at each stage. *)
StagesInv ==
    \A s \in Sub :
        /\ streams[s] \in {Nothing, key[s]}
        /\ authorized_document_key[s] \in {Nothing, key[s]}
        /\ stage[s] \in {"new", "policy", "overtaken", "refused"} => streams[s] = Nothing
        /\ stage[s] \in {"new", "policy", "load", "greeted", "overtaken"} => authorized_document_key[s] = Nothing
        /\ stage[s] = "open" => authorized_document_key[s] # Nothing
        /\ stage[s] \in {"policy", "load", "greeted", "overtaken", "open"} => key[s] # Nothing
        /\ stage[s] = "new" => key[s] = Nothing

(* A frame is recorded only in an open subscription, for its attribute. *)
FramesInv ==
    \A c \in Caller :
        /\ from[c] \in Sub => wants[c].by = "attr" /\ wants[c].attr = about[from[c]]
        /\ from[c] = Nothing => frame[c] \in {"recording", "relayed"}
        /\ from[c] \in Sub /\ frame[c] \in {"recording", "unlocated", "relayed"} => stage[from[c]] = "open"
        /\ frame[c] \in {"waiting", "unlocated", "refused"} => pc[c] = "find"
        /\ frame[c] = "refused" => ~ anycable /\ stage[from[c]] \in {"overtaken", "refused"}
        /\ wants[c].by = "key" /\ pc[c] \in {"append", "done"} => doc[c] = wants[c].key

(* A subscription's key is its document's, or was before the application
   moved the document. *)
KeysInv ==
    \A s \in Sub : key[s] # Nothing =>
        /\ key[s] \in {Derived[about[s]], DocumentKey(about[s])}
        /\ key[s] = DocumentKey(about[s]) \/ about[s] \in moved

ChannelInv ==
    /\ ChannelTypeOK
    /\ OwnKeys
    /\ StagesInv
    /\ FramesInv
    /\ KeysInv
    /\ BroadcastsGoHome

-----------------------------------------------------------------------------
(* A step of the channel is a step of DocumentIdentity, or none of its. *)
LEMMA ChannelStepMaps == [ChannelNext]_channelVars => [Next]_vars
<1> SUFFICES ASSUME [ChannelNext]_channelVars PROVE [Next]_vars
    OBVIOUS
<1>1. ASSUME NEW s \in Sub, Subscribed(s) \/ Expire(s) PROVE UNCHANGED vars
    BY <1>1 DEF Subscribed, Expire, Locate, Authorize, Greet, Remember, SubscribeRaises, IdentityStays
<1>2. ASSUME NEW c \in Caller, NEW s \in Sub, Receive(c, s) PROVE UNCHANGED vars
    BY <1>2 DEF Receive
<1>3. ASSUME NEW c \in Caller, Record(c) PROVE Next
    BY <1>3 DEF Record, Next
<1>4. ASSUME NEW c \in Caller, Distribute(c) PROVE UNCHANGED vars
    BY <1>4 DEF Distribute
<1>5. ASSUME NEW a \in Attr, NEW k \in Key, Bind(a, k) PROVE Next
    BY <1>5 DEF Bind, Next
<1>6. CASE UNCHANGED channelVars
    BY <1>6 DEF channelVars
<1> QED BY <1>1, <1>2, <1>3, <1>4, <1>5, <1>6 DEF ChannelNext

(* Whatever is proved of DocumentIdentity's calls holds of those the channel
   makes. *)
THEOREM ChannelImplementsIdentity == ChannelSpec => Spec
<1>1. ChannelInit => Init
    BY DEF ChannelInit
<1> QED BY <1>1, ChannelStepMaps, PTL DEF ChannelSpec, Spec

(* Nothing is subscribed, received or bound to begin with. *)
LEMMA ChannelInvInit == ChannelInit => ChannelInv
<1> SUFFICES ASSUME ChannelInit PROVE ChannelInv
    OBVIOUS
<1> USE IdentityAssumption, SubAssumption DEF ChannelInit, Init
<1>1. ChannelTypeOK
    BY DEF ChannelTypeOK, Stages
<1>2. OwnKeys /\ KeysInv /\ BroadcastsGoHome
    BY DEF OwnKeys, KeysInv, BroadcastsGoHome
<1>3. StagesInv
    BY DEF StagesInv
<1>4. FramesInv
    BY DEF FramesInv, ByAttr, ByKey
<1> QED BY <1>1, <1>2, <1>3, <1>4 DEF ChannelInv

(* What an attribute's key says of the row under it. *)
LEMMA KeyIs ==
    ASSUME IdentityInv, NEW a \in Attr, NEW k \in Key, DocumentKey(a) = k
    PROVE  rows[k] = a \/ (Derived[a] = k /\ BoundTo(a) = {})
<1>1. CASE Has(a)
    BY <1>1, TheRow DEF Has, DocumentKey, IdentityInv
<1>2. CASE ~ Has(a)
    BY <1>2 DEF Has, DocumentKey, BoundTo
<1> QED BY <1>1, <1>2

(* Two attributes never share a key. *)
LEMMA KeysDiffer ==
    ASSUME IdentityInv, OwnKeys, NEW a \in Attr, NEW b \in Attr, a # b, NEW k \in Key,
           rows[k] = a \/ k = Derived[a]
    PROVE  DocumentKey(b) # k
<1> SUFFICES ASSUME DocumentKey(b) = k PROVE FALSE
    OBVIOUS
<1>1. rows[k] = b \/ Derived[b] = k
    BY KeyIs
<1> QED BY <1>1, IdentityAssumption DEF OwnKeys

(* An attribute's key is a key. *)
LEMMA KeyIsAKey ==
    ASSUME IdentityInv, NEW a \in Attr
    PROVE  DocumentKey(a) \in Key
<1>1. CASE Has(a)
    BY <1>1, TheRow DEF Has, DocumentKey, IdentityInv
<1>2. CASE ~ Has(a)
    BY <1>2, IdentityAssumption DEF Has, DocumentKey, BoundTo
<1> QED BY <1>1, <1>2

-----------------------------------------------------------------------------
(* Steps that leave the calls alone: rows and keys stay as they are. *)
LEMMA KeysRest ==
    ASSUME UNCHANGED vars
    PROVE  /\ \A a \in Attr : DocumentKey(a)' = DocumentKey(a)
           /\ OwnKeys => OwnKeys'
<1>1. rows' = rows
    BY DEF vars
<1>2. ASSUME NEW a \in Attr PROVE DocumentKey(a)' = DocumentKey(a)
    BY <1>1 DEF DocumentKey, BoundTo
<1>3. OwnKeys => OwnKeys'
    BY <1>1 DEF OwnKeys
<1> QED BY <1>2, <1>3

(* A statement of `subscribed`, and the end of a grant. *)
LEMMA SubscribedStep ==
    ASSUME IdentityInv, ChannelInv, NEW s \in Sub, Subscribed(s) \/ Expire(s)
    PROVE  ChannelInv'
<1> USE SubAssumption, IdentityAssumption DEF ChannelInv
<1>1. /\ UNCHANGED <<vars, anycable, from, frame, astray, moved, about>>
      /\ wants' = wants /\ pc' = pc /\ doc' = doc
    BY DEF Subscribed, Expire, Locate, Authorize, Greet, Remember, SubscribeRaises, IdentityStays, vars
<1>2. \A u \in Sub : DocumentKey(about[u]) \in Key /\ about[u] \in Attr
    BY KeyIsAKey DEF ChannelTypeOK
<1>3. /\ \A a \in Attr : DocumentKey(a)' = DocumentKey(a)
      /\ OwnKeys'
    BY <1>1, KeysRest
<1>4. ChannelTypeOK'
  <2> USE DEF ChannelTypeOK, Stages, Reach, Reject, RejectDocumentSubscription
  <2>1. CASE Locate(s)
      BY <1>1, <1>2, <2>1 DEF Locate
  <2>2. CASE Authorize(s)
      BY <1>1, <2>2 DEF Authorize
  <2>3. CASE Greet(s)
      BY <1>1, <2>3 DEF Greet
  <2>4. CASE Remember(s)
      BY <1>1, <2>4 DEF Remember
  <2>5. CASE SubscribeRaises(s)
      BY <1>1, <2>5 DEF SubscribeRaises
  <2>6. CASE Expire(s)
      BY <1>1, <2>6 DEF Expire
  <2> QED BY <2>1, <2>2, <2>3, <2>4, <2>5, <2>6 DEF Subscribed
<1>5. \A u \in Sub : key'[u] = key[u] \/ key'[u] = DocumentKey(about[u])
    BY DEF Subscribed, Expire, Locate, Authorize, Greet, Remember, SubscribeRaises, ChannelTypeOK
<1>6. StagesInv'
  <2>1. CASE Locate(s)
      BY <1>2, <2>1 DEF Locate, Reach, Reject, StagesInv, ChannelTypeOK
  <2>2. CASE Authorize(s)
      BY <2>2 DEF Authorize, Reach, Reject, StagesInv, ChannelTypeOK
  <2>3. CASE Greet(s) \/ Remember(s)
      BY <2>3 DEF Greet, Remember, Reach, StagesInv, ChannelTypeOK
  <2>4. CASE SubscribeRaises(s)
      BY <2>4 DEF SubscribeRaises, Reach, RejectDocumentSubscription, StagesInv, ChannelTypeOK
  <2>5. CASE Expire(s)
      BY <2>5 DEF Expire, StagesInv
  <2> QED BY <2>1, <2>2, <2>3, <2>4, <2>5 DEF Subscribed
<1>7. FramesInv'
  <2>1. \A u \in Sub : /\ stage[u] = "open" => stage'[u] = "open"
                       /\ stage[u] \in {"overtaken", "refused"} => stage'[u] \in {"overtaken", "refused"}
                       /\ ~ good[u] => ~ good'[u]
      BY DEF Subscribed, Expire, Locate, Authorize, Greet, Remember, SubscribeRaises, Reach, Reject,
             RejectDocumentSubscription, ChannelTypeOK
  <2> QED BY <1>1, <2>1 DEF FramesInv, ChannelTypeOK
<1>8. KeysInv' /\ BroadcastsGoHome'
    BY <1>1, <1>3, <1>5, <1>2 DEF KeysInv, BroadcastsGoHome
<1> QED BY <1>3, <1>4, <1>6, <1>7, <1>8

(* A frame arrives. *)
LEMMA ReceiveStep ==
    ASSUME IdentityInv, ChannelInv, NEW c \in Caller, NEW s \in Sub, Receive(c, s)
    PROVE  ChannelInv'
<1> USE SubAssumption, IdentityAssumption DEF ChannelInv
<1>1. /\ UNCHANGED <<vars, about, good, key, authorized_document_key, anycable, from, astray, moved>>
      /\ wants' = wants /\ pc' = pc /\ doc' = doc
      /\ from[c] = s /\ frame[c] = "waiting" /\ Delivers(s)
    BY DEF Receive, vars
<1>2. /\ \A a \in Attr : DocumentKey(a)' = DocumentKey(a)
      /\ OwnKeys'
    BY <1>1, KeysRest
<1>3. KeysInv' /\ BroadcastsGoHome'
    BY <1>1, <1>2 DEF KeysInv, BroadcastsGoHome, ChannelTypeOK
<1>4. CASE authorized_document_key[s] = Nothing
  <2>1. stage[s] = "greeted" /\ ~ anycable
      BY <1>1, <1>4 DEF Delivers, StagesInv
  <2>2. /\ stage' = [stage EXCEPT ![s] = "overtaken"]
        /\ streams' = [streams EXCEPT ![s] = Nothing]
        /\ frame' = [frame EXCEPT ![c] = "refused"]
      BY <1>4 DEF Receive, RejectDocumentSubscription, Reach
  <2>3. ChannelTypeOK'
      BY <1>1, <2>2 DEF ChannelTypeOK, Stages
  <2>4. StagesInv'
      BY <1>1, <1>4, <2>1, <2>2 DEF ChannelTypeOK, StagesInv
  <2>5. FramesInv'
      BY <1>1, <2>1, <2>2 DEF ChannelTypeOK, FramesInv
  <2> QED BY <1>2, <1>3, <2>3, <2>4, <2>5
<1>5. CASE authorized_document_key[s] # Nothing
  <2>1. stage[s] = "open"
      BY <1>1, <1>5 DEF Delivers, StagesInv
  <2>2. /\ UNCHANGED <<stage, streams>>
        /\ frame' = [frame EXCEPT ![c] = IF HasRecord(s) THEN "recording" ELSE "unlocated"]
      BY <1>5 DEF Receive
  <2>3. ChannelTypeOK'
      BY <1>1, <2>2 DEF ChannelTypeOK
  <2>4. StagesInv'
      BY <1>1, <2>2 DEF StagesInv
  <2>5. FramesInv'
      BY <1>1, <2>1, <2>2 DEF ChannelTypeOK, FramesInv, HasRecord
  <2> QED BY <1>2, <1>3, <2>3, <2>4, <2>5
<1> QED BY <1>4, <1>5

(* A statement of a call. *)
LEMMA RecordStep ==
    ASSUME IdentityInv, IdentityInv', ChannelInv, NEW c \in Caller, Record(c)
    PROVE  ChannelInv'
<1> USE SubAssumption, IdentityAssumption DEF ChannelInv
<1>1. /\ UNCHANGED <<subVars, anycable, from, frame, astray, moved>>
      /\ For(c) \/ AppendByKey(c) \/ Append(c)
      /\ frame[c] = "recording"
    BY DEF Record
<1>2. UNCHANGED <<about, good, stage, key, streams, authorized_document_key>>
    BY <1>1 DEF subVars
<1>3. \A a \in Attr : DocumentKey(a)' = DocumentKey(a)
    BY <1>1, CallsKeepKeys
<1>4. wants' = wants /\ RowsStep
  <2>1. Next
      BY <1>1 DEF Next
  <2> QED BY <2>1, StepShape
<1>5. OwnKeys'
  <2>1. CASE For(c)
    <3>1. wants[c].by = "attr" /\ wants[c].attr \in Attr
        BY <2>1 DEF IdentityInv, TypeOK, For, Find, Adopt, Claim, Refind, Insert,
               InsertUnder, Lookup, At, Follows, ByAttr, ByKey
    <3>2. \/ rows' = rows
          \/ rows' = [rows EXCEPT ![Derived[wants[c].attr]] = wants[c].attr]
        BY <2>1 DEF For, Find, Adopt, Claim, Refind, Insert, InsertUnder, Lookup
    <3> QED BY <3>1, <3>2 DEF OwnKeys, IdentityInv, TypeOK
  <2>2. CASE AppendByKey(c) \/ Append(c)
    <3>1. \A k \in Key : rows'[k] = rows[k] \/ rows'[k] = Unbound
        BY <2>2 DEF AppendByKey, FindKey, InsertKey, Append, IdentityInv, TypeOK
    <3> QED BY <3>1 DEF OwnKeys
  <2> QED BY <1>1, <2>1, <2>2
<1>6. FramesInv'
  <2>1. \A d \in Caller : d # c => pc'[d] = pc[d] /\ doc'[d] = doc[d]
      BY <1>1 DEF For, Find, FindOr, Adopt, Claim, Refind, Insert, InsertUnder, Lookup, Goto, Got,
             AppendByKey, FindKey, InsertKey, Append, IdentityInv, TypeOK
  <2>2. wants[c].by = "key" /\ pc'[c] \in {"append", "done"} => doc'[c] = wants[c].key
    <3>1. CASE For(c)
        BY <3>1 DEF IdentityInv, TypeOK, For, Find, Adopt, Claim, Refind, Insert,
               InsertUnder, Lookup, At, Follows, ByAttr, ByKey
    <3>2. CASE AppendByKey(c)
        BY <3>2 DEF AppendByKey, FindKey, InsertKey, Goto, Got, IdentityInv, TypeOK
    <3>3. CASE Append(c)
        BY <3>3 DEF Append, At, FramesInv
    <3> QED BY <1>1, <3>1, <3>2, <3>3
  <2> QED BY <1>1, <1>2, <1>4, <2>1, <2>2 DEF FramesInv
<1>7. ChannelTypeOK' /\ StagesInv'
    BY <1>1, <1>2 DEF ChannelTypeOK, StagesInv
<1>8. KeysInv' /\ BroadcastsGoHome'
    BY <1>1, <1>2, <1>3 DEF KeysInv, BroadcastsGoHome, ChannelTypeOK
<1> QED BY <1>5, <1>6, <1>7, <1>8

(* The attribute of a row has the row's key. *)
LEMMA RowsKey ==
    ASSUME IdentityInv, NEW a \in Attr, NEW k \in Key, rows[k] = a
    PROVE  DocumentKey(a) = k
BY TheRow DEF IdentityInv, DocumentKey

(* A subscription has another key than its document only when the document
   was moved. *)
LEMMA StrayWasMoved ==
    ASSUME ChannelInv, NEW s \in Sub, streams[s] # Nothing, streams[s] # DocumentKey(about[s])
    PROVE  about[s] \in moved
BY DEF ChannelInv, StagesInv, KeysInv

(* A broadcast for an attribute: whoever is left out, or reached by mistake,
   has another key than its document. *)
LEMMA AttributesBroadcast ==
    ASSUME IdentityInv, ChannelInv, NEW c \in Caller, frame[c] = "recording", pc[c] = "done",
           wants[c].by = "attr", NEW s \in Sub,
           s \in (Home(doc[c]) \ Heard(Topic(c))) \cup (Heard(Topic(c)) \ Home(doc[c]))
    PROVE  about[s] \in moved
<1> DEFINE a == wants[c].attr
           k == doc[c]
<1> USE IdentityAssumption, SubAssumption
<1>1. /\ a \in Attr /\ k \in Key /\ rows[k] = a
      /\ about[s] \in Attr
    BY DEF IdentityInv, TypeOK, Knows, ByAttr, ByKey, ChannelInv, ChannelTypeOK
<1>2. DocumentKey(a) = k
    BY <1>1, RowsKey
<1>3. /\ Topic(c) \in {Derived[a], k}
      /\ Topic(c) = k \/ a \in moved
  <2>1. CASE from[c] \in Sub
    <3>1. about[from[c]] = a /\ Topic(c) = key[from[c]] /\ key[from[c]] # Nothing
        BY <2>1 DEF ChannelInv, FramesInv, StagesInv, Topic
    <3> QED BY <1>2, <2>1, <3>1 DEF ChannelInv, KeysInv
  <2>2. CASE from[c] \notin Sub
      BY <1>2, <2>2 DEF Topic
  <2> QED BY <2>1, <2>2
<1>4. Topic(c) \in Key
    BY <1>1, <1>3
<1>5. CASE s \in Home(k) \ Heard(Topic(c))
  <2>1. about[s] = a /\ streams[s] # Nothing /\ streams[s] # Topic(c)
      BY <1>1, <1>5 DEF Home, Heard
  <2> QED BY <1>2, <1>3, <2>1, StrayWasMoved
<1>6. CASE s \in Heard(Topic(c)) \ Home(k)
  <2>1. streams[s] = Topic(c) /\ about[s] # a
      BY <1>1, <1>4, <1>6 DEF Home, Heard
  <2>2. DocumentKey(about[s]) # Topic(c)
      BY <1>1, <1>3, <1>4, <2>1, KeysDiffer DEF ChannelInv
  <2> QED BY <1>4, <2>1, <2>2, StrayWasMoved
<1> QED BY <1>5, <1>6

(* A broadcast of a channel that has only the key. *)
LEMMA KeysBroadcast ==
    ASSUME IdentityInv, ChannelInv, NEW c \in Caller, frame[c] = "recording", pc[c] = "done",
           wants[c].by = "key", NEW s \in Sub,
           s \in (Home(doc[c]) \ Heard(Topic(c))) \cup (Heard(Topic(c)) \ Home(doc[c]))
    PROVE  about[s] \in moved
<1> DEFINE k == doc[c]
<1> USE IdentityAssumption, SubAssumption
<1>1. k \in Key /\ rows[k] # Absent /\ about[s] \in Attr
    BY DEF IdentityInv, TypeOK, GotRow, ChannelInv, ChannelTypeOK
<1>2. Topic(c) = k
    BY DEF ChannelInv, FramesInv, Topic
<1>3. CASE s \in Home(k) \ Heard(k)
  <2>1. streams[s] # Nothing /\ streams[s] # k
      BY <1>3 DEF Home, Heard
  <2>2. DocumentKey(about[s]) = k
      BY <1>1, <1>3, RowsKey DEF Home
  <2> QED BY <2>1, <2>2, StrayWasMoved
<1>4. CASE s \in Heard(k) \ Home(k)
  <2>1. /\ streams[s] = k /\ rows[k] # about[s]
        /\ rows[k] = Unbound => DocumentKey(about[s]) # k
      BY <1>1, <1>4 DEF Home, Heard
  <2>2. DocumentKey(about[s]) # k
    <3> SUFFICES ASSUME DocumentKey(about[s]) = k PROVE FALSE
        OBVIOUS
    <3>1. Derived[about[s]] = k
        BY <1>1, <2>1, KeyIs
    <3> QED BY <1>1, <2>1, <3>1 DEF ChannelInv, OwnKeys
  <2> QED BY <1>1, <2>1, <2>2, StrayWasMoved
<1> QED BY <1>2, <1>3, <1>4

(* A recorded update is broadcast. *)
LEMMA DistributeStep ==
    ASSUME IdentityInv, ChannelInv, NEW c \in Caller, Distribute(c)
    PROVE  ChannelInv'
<1> USE SubAssumption, IdentityAssumption
<1>1. /\ UNCHANGED <<vars, subVars, anycable, from, moved>>
      /\ UNCHANGED <<about, good, stage, key, streams, authorized_document_key>>
      /\ wants' = wants /\ pc' = pc /\ doc' = doc
      /\ frame[c] = "recording" /\ pc[c] = "done" /\ frame' = [frame EXCEPT ![c] = "relayed"]
    BY DEF Distribute, vars, subVars
<1>2. /\ \A a \in Attr : DocumentKey(a)' = DocumentKey(a)
      /\ OwnKeys'
    BY <1>1, KeysRest DEF ChannelInv
<1>3. StagesInv' /\ KeysInv'
    BY <1>1, <1>2 DEF ChannelInv, ChannelTypeOK, StagesInv, KeysInv
<1>4. FramesInv'
    BY <1>1 DEF ChannelInv, ChannelTypeOK, FramesInv
<1>5. astray' \subseteq astray \cup {c} \X {s \in Sub : about[s] \in moved}
  <2>1. wants[c].by \in {"attr", "key"}
      BY DEF IdentityInv, TypeOK, ByAttr, ByKey
  <2>2. \A s \in (Home(doc[c]) \ Heard(Topic(c))) \cup (Heard(Topic(c)) \ Home(doc[c])) :
            s \in Sub /\ about[s] \in moved
    <3>1. Home(doc[c]) \subseteq Sub /\ Heard(Topic(c)) \subseteq Sub
        BY DEF Home, Heard
    <3> QED BY <1>1, <2>1, <3>1, AttributesBroadcast, KeysBroadcast
  <2> QED BY <2>2 DEF Distribute
<1>6. ChannelTypeOK'
    BY <1>1, <1>5 DEF ChannelInv, ChannelTypeOK
<1>7. BroadcastsGoHome'
    BY <1>1, <1>5 DEF ChannelInv, BroadcastsGoHome
<1> QED BY <1>2, <1>3, <1>4, <1>6, <1>7 DEF ChannelInv

(* The application binds an attribute to a key of its own. *)
LEMMA BindStep ==
    ASSUME IdentityInv, IdentityInv', ChannelInv, NEW b \in Attr, NEW k \in Key, Bind(b, k)
    PROVE  ChannelInv'
<1> USE SubAssumption, IdentityAssumption
<1>1. /\ UNCHANGED <<subVars, anycable, from, frame, astray>>
      /\ UNCHANGED <<about, good, stage, key, streams, authorized_document_key>>
      /\ UNCHANGED <<wants, pc, doc>>
      /\ Supply(b, k) /\ rows' = [rows EXCEPT ![k] = b]
    BY DEF Bind, Supply, subVars
<1>2. moved' \in {moved, moved \cup {b}}
    BY DEF Bind
<1>3. ChannelTypeOK' /\ BroadcastsGoHome'
    BY <1>1, <1>2 DEF ChannelInv, ChannelTypeOK, BroadcastsGoHome
<1>4. OwnKeys'
    BY <1>1 DEF Bind, ChannelInv, OwnKeys, IdentityInv, TypeOK
<1>5. StagesInv'
    BY <1>1 DEF ChannelInv, StagesInv
<1>6. FramesInv'
    BY <1>1 DEF ChannelInv, FramesInv
<1>7. KeysInv'
  <2> SUFFICES ASSUME NEW s \in Sub, key[s] # Nothing
               PROVE  /\ key[s] \in {Derived[about[s]], DocumentKey(about[s])'}
                      /\ key[s] = DocumentKey(about[s])' \/ about[s] \in moved'
      BY <1>1 DEF KeysInv
  <2>1. about[s] \in Attr
      BY DEF ChannelInv, ChannelTypeOK
  <2>2. /\ key[s] \in {Derived[about[s]], DocumentKey(about[s])}
        /\ key[s] = DocumentKey(about[s]) \/ about[s] \in moved
      BY DEF ChannelInv, KeysInv
  <2>3. CASE about[s] = b
    <3>1. DocumentKey(b) = Derived[b]
        BY <1>1 DEF Supply, DocumentKey
    <3>2. b \in moved'
        BY <2>3 DEF Bind
    <3> QED BY <2>2, <2>3, <3>1, <3>2
  <2>4. CASE about[s] # b
      BY <1>1, <1>2, <2>1, <2>2, <2>4, SupplyKeepsOthers
  <2> QED BY <2>3, <2>4
<1> QED BY <1>3, <1>4, <1>5, <1>6, <1>7 DEF ChannelInv

-----------------------------------------------------------------------------
(* The invariant is inductive, given what is known of the calls. *)
LEMMA ChannelInvStep ==
    IdentityInv /\ IdentityInv' /\ ChannelInv /\ [ChannelNext]_channelVars => ChannelInv'
<1> SUFFICES ASSUME IdentityInv, IdentityInv', ChannelInv, [ChannelNext]_channelVars
             PROVE  ChannelInv'
    OBVIOUS
<1>1. CASE ChannelNext
    BY <1>1, SubscribedStep, ReceiveStep, RecordStep, DistributeStep, BindStep DEF ChannelNext
<1>2. CASE UNCHANGED channelVars
  <2>1. UNCHANGED <<vars, wants, pc, doc, subVars, anycable, from, frame, astray, moved>>
      BY <1>2 DEF channelVars, vars
  <2>2. UNCHANGED <<about, good, stage, key, streams, authorized_document_key>>
      BY <2>1 DEF subVars
  <2>3. OwnKeys' /\ \A a \in Attr : DocumentKey(a)' = DocumentKey(a)
      BY <2>1, KeysRest DEF ChannelInv
  <2>4. ChannelTypeOK' /\ StagesInv' /\ BroadcastsGoHome'
      BY <2>1, <2>2 DEF ChannelInv, ChannelTypeOK, StagesInv, BroadcastsGoHome
  <2>5. FramesInv'
      BY <2>1, <2>2 DEF ChannelInv, FramesInv
  <2>6. KeysInv'
      BY <2>1, <2>2, <2>3 DEF ChannelInv, ChannelTypeOK, KeysInv
  <2> QED BY <2>3, <2>4, <2>5, <2>6 DEF ChannelInv
<1> QED BY <1>1, <1>2

(* Whatever the subscriptions, their frames and the application's own calls
   do between each other's statements, the invariant holds. *)
THEOREM ChannelInvariant == ChannelSpec => [](IdentityInv /\ ChannelInv)
<1>1. ChannelSpec => []IdentityInv
    BY ChannelImplementsIdentity, IdentityInvariant, PTL
<1> QED BY <1>1, ChannelInvInit, ChannelInvStep, PTL DEF ChannelSpec

(* A broadcast goes to its document's subscribers and to no one else, unless
   the application moved the document under them. *)
THEOREM ChannelBroadcastsGoHome == ChannelSpec => []BroadcastsGoHome
<1>1. ChannelInv => BroadcastsGoHome
    BY DEF ChannelInv
<1> QED BY <1>1, ChannelInvariant, PTL

(* No call loses its race for a row (Document.for's retry), and only a frame
   that overtook its own `subscribed` is refused. *)
THEOREM ChannelHandlesFrames == ChannelSpec => []FramesAreHandled
<1>1. IdentityInv /\ ChannelInv => FramesAreHandled
  <2> SUFFICES ASSUME IdentityInv, ChannelInv, NEW c \in Caller
               PROVE  /\ pc[c] # "raised"
                      /\ frame[c] = "refused" =>
                             ~ anycable /\ stage[from[c]] \in {"overtaken", "refused"}
      BY DEF FramesAreHandled
  <2>1. ASSUME pc[c] = "raised" PROVE FALSE
    <3>1. wants[c].by = "attr" /\ wants[c].attr \in Attr
        BY <2>1 DEF IdentityInv, TypeOK, Follows, ByAttr, ByKey
    <3>2. AtDerived(c) \in Attr \ {wants[c].attr}
        BY <2>1, <3>1 DEF IdentityInv, Knows
    <3> QED BY <3>1, <3>2, IdentityAssumption DEF ChannelInv, OwnKeys, AtDerived
  <2> QED BY <2>1 DEF ChannelInv, FramesInv
<1> QED BY <1>1, ChannelInvariant, PTL

(* A refused subscription streams nothing and has recorded nothing. *)
THEOREM ChannelStopsTheRefused == ChannelSpec => []RefusedIsStopped
<1>1. ChannelInv => RefusedIsStopped
    BY SubAssumption DEF ChannelInv, StagesInv, FramesInv, RefusedIsStopped, ChannelTypeOK
<1> QED BY <1>1, ChannelInvariant, PTL
=============================================================================
