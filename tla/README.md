# A TLA+ model of yrby

yrby lets browsers edit a Yjs document together through a Rails application.
The browser side is a TypeScript client (`packages/client`), the server side a
Ruby gem (`lib/y`, `app`) over a Rust extension (`ext/yrby`) that wraps the yrs
CRDT.  This directory holds TLA+ modules for the parts whose correctness is a
matter of order (who does what, between which two steps of whom) and for the
native code that turns documents into Ruby values and HTML, TLC
configurations that check them on small instances, and TLAPS proofs for the
properties that matter most.

`PROJECT.json` maps every definition to the source lines it translates and
lists runs, mutants, findings, hazards and theorems.

## 1. Inventory

| Component | Source | State it keeps | Operations |
|---|---|---|---|
| Document store | `app/models/y/document.rb` | a snapshot column, a table of update rows with a `pending` flag, the row lock | `append`, `load_state`, `compact!` (plain path, path around a gap) |
| Document identity | `document.rb`, `lib/y/collaborative/attribute.rb` | the row's key and its (record, name) binding, two unique indexes | `Document.for`, `adopt`, `append` by key, `Attribute#key`, `#load_state` |
| CRDT helpers | `ext/yrby/src/protocol.rs`, `lib.rs` | none (pure) | state vector, pending, `compacted_state`, `update_ready?`, `update_advances?`, `update_from_message` |
| Sync channel | `lib/y/action_cable/sync.rb` | nothing between messages | subscribe, handshake, record, relay, ack |
| Document channel, grants | `app/channels/y/document_channel.rb`, `lib/y/collaborative.rb` | the authorized key, the record of a channel instance | authorize at subscribe, refuse and rescue, refuse frames without a key, locate the record anew, broadcast |
| Delivery queue | `packages/client/src/reliable_sync.ts` | pending updates with sequence numbers, a timer | enqueue, flush the merged tail, cumulative acknowledge, retransmit |
| Protocol session | `y_protocol_session.ts` | cycle, `synced`, the queue | resume, pause, receive, local edits |
| Provider | `actioncable_provider.ts` | a phase with its attempt, kept presence, reported status | connect, disconnect, renew, destroy, the cable's callbacks |
| Session store | `document_session.ts` | one session per document key, leases, lifecycle phase | acquire, release, retry, discard, settle, grant refresh, close |
| Element, Turbo adapter | `document_element.ts`, `turbo_adapter.ts` | target, attempt, lease, `inert` bookkeeping, timers | element callbacks, settle steps, Turbo's events |
| `Doc#edit` | `lib/y/doc.rb`, `lib.rs` | unsent updates, fiber-local list of running edits | edit, take, put back |
| Awareness | `lib.rs`, provider | presence states | set, remove, relay |
| Shared-type handles | `shared.rs`, `array.rs`, `map.rs`, `text.rs`, `xml_text.rs` | an identity of a shared type in a document | indexed reads and writes, nested handles, conversions, relative positions, which blocks an update changed |
| Read cursors | `read.rs` | none | a root as text or as Ruby values |
| Renderers | `ext/yrby/crates`, `lib/y/rendering.rb` | node and mark rules, a stack of work, a stack of output frames | a Lexical or ProseMirror root to HTML with callbacks, node types |
| Markdown writer, decoder | `lib/y/lexical_markdown.rb`, `lexical_writer.rb`, `decoder.rb` | none | Markdown to blocks, bytes to plain text |

**How they interact.**  An editor writes to its Y.Doc; the protocol session
enqueues the update and the provider sends the merged tail over a cable
subscription.  The sync channel records the update in the document store,
relays it to the document's stream and acknowledges its id, in that order; a
joining tab handshakes (SyncStep1 both ways, SyncStep2 as the answer).  In the
page, elements take leases on sessions, a session owns a provider, and closes
it when nobody holds a lease and nothing is pending.  Server code writes
through `Doc#edit`, whose result is appended and broadcast like a client's
update.  A document row can be reached by key (channels) or by record
attribute (Ruby code), and either may make it.  A page's subscription opens
with a signed grant for an attribute; its frames are appended by attribute and
broadcast under the key it read when it opened.

**What is hard.**  Web processes race on the tables with no lock but the row
lock of a compaction; loads make two reads.  Frames of one tab are handled
side by side and may overtake each other; handlers die between record, relay
and ack; connections drop with frames on them; acks come late.  Updates may
arrive before what they build on, and compaction must neither lose nor
swallow such a gap.  In the page everything is single-threaded, but nearly
every call runs application code (editor cleanup, awareness listeners,
document observers, the consumer's `create`) that may call back into the
object that is in the middle of a change.  The native code is sequential (one
transaction per call, under the document's lock), but it counts in three
ways, characters, UTF-16 units and blocks, and walks trees that hold text
between blocks and blocks between text, with a stack of its own in place of
recursion.

**What makes the parts correct.**  Store: nothing recorded is ever lost, the
snapshot never holds what is parked, a load returns at least what was stored when it
began.  Identity: racing callers end on one row, a key clients use never
changes, updates stay reachable.  Document channel: a broadcast reaches its
document's subscribers and no others, a frame of an open subscription is
handled, a refused one leaves nothing behind.  Channel and queue: acknowledged means
durable, nobody sees what is not durable, a synced tab has loaded and misses
nothing, everything converges.  `Doc#edit`: every write is delivered once.
Provider: no subscription leaks, no destroy is lost, presence and status are
true.  Sessions: one live session per document, unacknowledged edits are not
thrown away, an unneeded session closes.  Element: an editor is bound and
editable only where it may be.  Handles: an edit lands where Ruby's
index says, a handle never sees what replaced its target, a caret keeps its
place, an update is reported at the blocks it changed.  Renderers: all text,
once, in document order, tags nested, marks worn as the rules say.  The list
with lines is `hazards` in `PROJECT.json`.

## 2. Modules

| Module | What it is | Extends / instantiates |
|---|---|---|
| `Crdt` | documents and updates as sets of structs with causal pasts; the pure functions of `protocol.rs` | |
| `DurableDoc` | abstract: what a store promises | |
| `DocumentStore` | the store, one database statement per step | `Crdt`; implements `DurableDoc` |
| `ReliableSync` | the delivery queue as operators | |
| `Collab` | tabs, queues, connections, channel, store, end to end | `Crdt`, `ReliableSync`; its store is what `DurableDoc` promises |
| `DocumentIdentity` | finding, adopting and inserting rows | |
| `DocumentChannel` | subscriptions, their grants and frames, and broadcasts, over the racing calls of `DocumentIdentity` | `DocumentIdentity`, of which it is an implementation |
| `DocEdit` | `Doc#edit` over threads and fibers | |
| `Provider` | the ActionCable provider with application code inside its calls | |
| `DocumentSession` | a document's sessions in one page | |
| `DocumentElement` | elements and the Turbo adapter | |
| `Indexes` | Ruby's indexes, characters and UTF-16 units (`shared.rs`), with what Ruby's own classes do | |
| `XmlText` | the tree of blocks behind a Lexical editor: every write of `Y::XmlText`, peers' updates, `apply_update_changes` | `Indexes` |
| `Carets` | `Y::Text` with tombstones, and relative positions in it | `Indexes` |
| `Handles` | `Y::Map`, `Y::Array` and nested texts: values in and out, handles that outlive their target | `Indexes` |
| `HtmlCore` | output frames, rules, the stack of deferred work, node types | |
| `LexicalHtml` | the Lexical renderer and the two readers of its text | `XmlText`, `HtmlCore` |
| `ProseMirrorHtml` | the ProseMirror renderer over trees an editor makes | `HtmlCore` |
| `DocumentRoots` | a document with a root of each kind, and its edits | `LexicalHtml`, `ProseMirrorHtml`, `Carets`, `Handles`, `DocEdit` |
| `*Proofs` | theorems about the module they are named after; `DocumentChannelProofs` begins with those about `DocumentIdentity`, and `ContentProofs` is about `XmlText` and `Carets` | those modules, `TLAPS` |
| `MC*` | constants and symmetry sets for TLC | the module they are named after |

A definition named like another with a suffix or another verb
(`StopEndsHalfway` before `StopEnds`) is a deliberately wrong variant.  It is
used by no specification: replacing the right definition by it must make TLC
report the property that `mutants` in `PROJECT.json` names, which shows that
the property depends on that piece of code.

### Documents (`Crdt`)

An update is the set of structs it carries; applying it is union.  `Past[u]`
is all a struct comes after, its author's earlier structs included, and
`Needs[u]` the part of it that integration waits for: a struct takes effect
when that is there and is parked otherwise.  The difference between the two is
a *hole*: yrs integrates a block past a Skip if its origins do not need what is
skipped (`protocol.rs:138-145`), and then neither the parked structs nor the
state vector, which stops at the first hole, shows the block.  `Past` is
transitively closed and holds no deletions, as in yrs; deletions are structs
that no state vector counts.  Everything the server decides about updates is a
function of these sets, including the two judgements `compact!` makes of a row
near a gap, the clocks an update starts from (`Below`) and the Skip-capped
state vector of the update itself (`UpdateStateVector`).  How yrs integrates a
block is not in this repository; `Needs` is any part of `Past` closed under
itself.  The store's runs have structs with `Needs` smaller than `Past`, and its
theorems hold for any; in the delivery runs the two are equal, as for an
editor's updates sent in one piece ("standard Yjs providers never emit these
frames").

### Store (`DocumentStore`, `DurableDoc`)

`state`, `tail`, `payload`, `quarantine` are the columns, `lock` the row lock,
`pc`, `snap`, `seen`, `got` a process's place and locals.  Append, count,
lock, pluck, fold-and-commit, the two reads of a load are steps; a
transaction's writes appear at its commit, and a process may die between any
two steps.  `DurableDoc` says what the channel relies on: recorded content
only grows, and a load returns something between what was stored when it began
and what is stored when it ends.  The refinement maps `content` to snapshot
plus tail.

### Delivery (`ReliableSync`, `Collab`)

The queue is a log and a count of acknowledged entries.  A frame names its
tab, connection, content and delivery id.  `up` and `down` are sets, so frames
overtake each other; `jobs` holds updates that are recorded and not yet
relayed or acknowledged, `Workers` at most.  Subscribe and unsubscribe
commands of one connection are handled in the order they were sent.  A
connection that is lost takes its frames along; a page reload takes the queue
and the document along; a tab may also disconnect and come back on the same
cable connection (`MaxLeave`).

### Identity (`DocumentIdentity`)

A row is named by its key and `rows[k]` is its binding.  Each step is one
statement of `for`, `adopt` or `append`, with the index violations the
database would raise; the application may also make or bind rows of its own.
Rows are not deleted while calls run.

### Document channel (`DocumentChannel`)

`stage[s]` is the statement of `subscribed` that subscription `s` executes
next: locate the record and read the key, ask the policy and open the stream,
load and greet, remember the key.  The policy may refuse, any of them may
raise, and `subscribed` then rescues.  On Action Cable another worker may
handle the client's answer to the handshake before the key is remembered
(`Delivers`); the channel then refuses, and `subscribed` runs on
(`overtaken`).  `from[c]` says whose frame makes call `c`, which from there on
is a call of `DocumentIdentity`; calls of nobody's frame are channels that have
only the key, and Ruby code.  `anycable` chooses whether `document` finds the
record `subscribed` left or asks the grant again.  A broadcast compares the
streams with `Home`, whose subscribers should hear it, and keeps the
difference in `astray`.  `Expire` is enabled only at the two stages whose
statements look at the grant; the record itself stays.  The application binds only keys that no
attribute derives; what a call does when a foreign row has its derived key is
`DocumentIdentity`'s.  A subscription that the client ends is not modelled, nor
what Action Cable does with a stream it opens and closes at once.

### `Doc#edit` (`DocEdit`)

`editing` is the fiber-local list, inherited by threads a block starts, and an
edit is nested if one of its entries still runs.  Taking the unsent list,
merging (which may fail, or be interrupted), returning and putting back are
steps.  The unsent list is the set of its writes, so a merge is a union.

### Page (`Provider`, `DocumentSession`, `DocumentElement`)

`Provider` and `DocumentSession` keep a `stack` of calls in progress, each at
a point where application code runs; that code may make any public call.
`Provider`'s awareness listeners may connect, disconnect and destroy but do
not set presence while it is being removed, and nothing runs while the page is
hidden.  `DocumentSession` sees its provider as a phase and a pending flag.
`DocumentElement` has every method of the element as a function on a record;
promises and timers are actions, microtasks run before tasks, and the editor
cleanup a call causes runs right after it.  `disconnectTurbo`, which only
shutdown and tests use, is left out.

### Document content (`Indexes`, `XmlText`, `Carets`, `Handles`)

A sequence is one item per UTF-16 unit, embed or block; a wide character is a
pair of items, so an index that lands inside one shows.  `kids[b]` is the
sequence of a block, and a write is the function the code computes on it
(`Inserted`, `BlockInserted`, `TextAppended`, ...) followed by `Commit`, which
drops what is out of the tree, as a yrs transaction does.  `Content` is what
`Y::Lexical.content` and `append_list` hand to a write.  `changed` is what
`apply_update_changes` returned for the last peer's update and is compared
with the two trees.

In `Handles` a Hash that is written becomes a live map with an identity, an
Array a plain value; reading converts back.  `Values` nests as deep as
`MAX_NESTING` allows and once deeper.  `target` is the handle of the last
write, so a property can say that no other root-reachable value changed.  In
`Carets` a deleted unit stays as a tombstone.  Where a position among
tombstones is now, and which side of tombstones an insertion lands on, is
decided in yrs, and modelled as the documented behaviour and a
nondeterministic choice; tombstones are kept, so the nil of `index_at` for an
item that is gone (`text.rs:119`) does not occur.

### Rendering (`HtmlCore`, `LexicalHtml`, `ProseMirrorHtml`)

Output is a sequence of tokens: start and end of an element of a block or
mark, and one token for each unit or decorator shown.  `OpenBlock` pushes
work and output exactly as the code does: the end tag first, then the
children in reverse, so that the stack yields them in order; a callback's
content is captured in a frame of its own and becomes one deferred segment.
Whatever the renderer shows is compared with the tree it was given.  Rules
are a type's element (callback or declared, void or not, and whether its
content is blocks, inline or none); the caps on nesting are small so that
documents reach them.  Rules without content hide what their nodes hold, which
the properties then do not expect; rules that ask for blocks where a type holds
text, or the reverse, are not among the sets.  A root may hold text beside its
elements, which no editor writes but the ProseMirror renderer takes; a root that
begins with text is not ProseMirror's and renders to nothing.  Tag names,
attributes, format bits and escaping are not tokens.

## 3. Runs

| Run | Instance | What it shows |
|---|---|---|
| `document_store` | 2 processes, 3 rows, threshold 2, 4 structs (a chain of three, a deletion), payloads with and without gaps and a merged one with a hole in it, one process that may die | deleted rows are captured, loads miss nothing, `DurableDoc` is implemented; a hole hides no content from the snapshot; the tail is bounded although appends jump past the threshold |
| `collab_delivery` | 1 tab, 2 edits, 2 connections, reload, 2 workers, handlers of every kind of frame may fail | acknowledged is durable; the store never gets a gap |
| `collab_two_tabs` | 2 tabs, one deleting what the other wrote, 2 workers, acks may be lost, fair | seen is durable; synced has loaded and misses nothing; all tabs and the store end equal, queues empty |
| `collab_heals` | a page that held content before its session, may leave and return on its connection, updates and acks may fail, fair | the gap its first edit leaves heals by handshake; nothing in flight for a tab that left does harm |
| `collab_returns` | two tabs, one leaves and returns | finding 1 |
| `identity` | 2 subscriptions, 2 calls (frames, by key, or of Ruby code), 2 attributes, 3 keys, Action Cable and AnyCable | updates stay reachable; no call raises for a lost race; a frame is refused only if it overtook its own subscribe; broadcasts reach their document's subscribers; what is refused is stopped |
| `identity_expiry` | the same, with the expired grants of open subscriptions in question | finding 3 |
| `provider` | 3 attempts, 3 nested calls, 2 presence values | no subscription leaks, destroy takes effect, presence is kept, a frame marks synced and is answered on no other subscription than its own |
| `document_session` | 2 sessions, 3 leases, fair | one live session, closing only when done; unneeded sessions close, blocked ones release; one grant is asked for per rejection |
| `element` | 2 elements, 1 document | no lease leaks, inert until synced, clones inert, no element forgotten |
| `element_move` | 2 elements | finding 2 |
| `document_roots` | documents of up to 3 blocks and 5 units (Lexical), 3 elements and 4 nodes (ProseMirror), 4 units ever written (a text), 2 roots, 4 shared types and 3 items (handles); 3 sets of rules for each renderer; 3 threads, 3 calls of `edit`, 2 writes | edits and index arithmetic agree with Ruby's own classes; changes are reported; tags nest; text that no rule hides is shown once, by ProseMirror also in order; marks are worn; carets keep their place; handles keep their value; no write is lost or doubled by `Doc#edit` and, without failures, none is left out |

**Why the bounds are enough to be interesting.**  Two processes and a
threshold of two are the least with racing compactions that have something to
fold; three rows allow a quarantined gap, its filler and a row in between.  Two
edits of one tab make a merged tail differ from its newest update, and two
connections make old frames meet new ones.  Two calls are a winner and a loser
of each race, and the application's row is a third actor; two subscriptions
are one before and one after a change, of one attribute or of two; the third
key is the application's own.  Three nested calls are a callback inside a callback inside `create`.
Three blocks are a list, its item and a link or list in it; five units are such
a list with text in its innermost block, or a wide character between an
embed and a block.  Three elements are a container in a container around a
text, or siblings with text between them.  A behaviour of `document_roots`
writes to one of the four roots or calls `edit` (`RootsNext`): they share no
state in the code but the document's lock, what a transaction wrote makes no
difference to the list of unsent updates, and the properties are about one
root, or the edits, each.  The run has no liveness property; its blocks, its
edits and the threads that run from the start are symmetric.  Two sessions are a closing one and its successor; three leases are one being
released, one held and one taken in the middle.  Rows, sessions and leases are
numbered and used in order, which stands in for symmetry in runs with a
liveness property; symmetry sets are declared only over model values that no
definition distinguishes, and only in runs without one.

**History variables.**  `died` (store) and `calm` (edit) record that a process
died or that a merge failed or was interrupted; the bound of the tail and the
absence of gaps are claimed only while that has not happened.  `jolted`
(element) records that the one event behind finding 2 has struck an element,
whose `NeverForgotten` is then not claimed.  No guard reads any of them.

**Deadlock.**  Runs with `CHECK_DEADLOCK FALSE` are of systems that may stop:
edits, connections, calls, sessions, attempts and the size of a document are finite in number by their
bounds, and when they are used up nothing is left to do.  The store and
element runs check deadlock: a load, a navigation or a retry is always
possible.

**Fairness.**  Collab: frames are handled and delivered, the retransmit timer ticks while something
is unacknowledged, and a handler may die any number of times but not every
time (strong fairness of record, relay and ack).  `Faulty` names the kinds of
frame whose handlers may fail; in the two runs with liveness a SyncStep2 is not
among them, because the code retries a SyncStep2 only at the next handshake
and a tab need never make one.  Sessions: microtasks run, a request answers (it
has a timeout), the server accepts or rejects, and an update it keeps being
connected for is acknowledged.  Nothing is assumed of users or applications.

## 4. Findings

1. `collab_returns` / `SyncedIsCaughtUp`.  A tab that disconnects and connects
   again on the same cable connection can be marked synced by the answer to
   its earlier handshake, before it has what was stored meanwhile.  The later
   answer still comes, so nothing is lost; `synced` is early.
2. `element_move` / `MovesKeepBinding`.  An element taken out and put back in
   one turn keeps its binding, except when another element is inserted in
   between: the adapter then reconciles all elements, the one that is out
   loses `live`, and nothing makes it live again.
3. `identity_expiry` / `OpenKeepsWorking`.  Under AnyCable an open subscription
   whose grant has expired can no longer record an update: `document` locates
   the record anew and is nil inside `on_change` (`document_channel.rb:124`),
   which raises, so the frame is not acknowledged and is sent again until the
   page subscribes with a fresh grant.  Only the key it was authorized for is
   remembered.  The gem's README says that both transports remember the decision,
   and a test that an open subscription keeps working (`README.md:652`,
   `test/document_channel_test.rb:244`); that holds on Action Cable.

One more disagreement has no run of its own.  `update_advances?` guards against
blocks hidden behind a Skip by asking for insertions past a *non-zero* cap of
the update's own state vector (`protocol.rs:151-155`).  An update that starts
past its author's first clock and has a Skip has an empty state vector, so the
guard passes it by, and if the document has everything up to the Skip the
answer is no although the block behind it is new, which `protocol.rs:107-108` and
`CHANGELOG.md:251-253` do not say.  The store is not hurt: `compact!` deletes
only rows it has folded.  `HiddenGapsAdvance` says that the answer is right for
every other update; `SkipsLate` is the exception, and without it the property
fails for a chain of four and the payload `{a2, a4}`.

**Observations**, which contradict no statement of the repository or are its
documented choice:

* `Attribute#load_state` answers nil while updates recorded under the
  attribute's key wait in a row that no write through the attribute has
  adopted yet (`attribute.rb:84`).
* `append_text` to a block that ends in a decorator or a line break starts no
  text node of its own (`xml_text.rs:345-365`): it looks only for an empty
  block and one that ends in a nested block.
* `block_text` continues the last line of a nested block with the text that
  follows it, where `xml_blocks_text` starts a new line; both find the same
  text, which is what `TextIsShownOnce` asks.
* On Action Cable a client that answers the handshake very fast has its
  subscription refused although it was authorized, because `subscribed` sends
  the handshake before it remembers the key (`document_channel.rb:65`).
  Nothing is lost: the provider takes a refusal as a reason to get a fresh
  grant.  `RefusedIsStopped` says that nothing of it stays behind.
* A value nested one level deeper than `MAX_NESTING` passes when its innermost
  container is empty: depth is checked when an element is converted.

## 5. Proofs

The theorems hold for every value of the constants that satisfies the named
assumptions (`CrdtAssumption`, `StoreAssumption`, `CollabAssumption`,
`EditAssumption`, `IdentityAssumption`, `SubAssumption`, `SessionAssumption`,
`ProviderAssumption`, `ElementAssumption`, `XmlTextConstants`,
`CaretConstants`), which TLC evaluates in the runs.
They say that bounds are numbers (and caret indexes integers), that the root is
no block, and that the values standing for "none" are
no values of the kind they are told from (no document or attempt is `Nothing`,
no presence is `Null` or `"no"`).  Two theorems have a hypothesis of their
own, `Unseeded` and `RelaysSucceed`, explained below.

* **Store** (`DocumentStoreProofs`).  `StoreInv` is types, a snapshot in
  which nothing is parked, lock discipline and completeness of a load in progress.  None is inductive
  alone: a fold writes a state that contains the old snapshot only because its
  `snap` is the one in the table (lock discipline), and keeps it only because
  nothing of the old one was parked; a load is complete because tail rows it has not seen
  are in a snapshot that grows.  Two lemmas about the pure functions carry the
  argument: nothing is parked in the integrated part of anything
  (`IntegratedNeverParks`), and of the rows folded one that is ready on that
  part is contained in it, holes or not (`ReadyRowIsCaptured`), which is what
  `compact!` relies on when it deletes a row around a gap.  That it also asks
  whether the row advances is a second guard; `NoHiddenGapIsMissed` is about
  it, and rests on `NoOpIsKnown`: an insertion below the cap of its update's
  state vector is compared, one past a non-zero cap is taken for new, and
  without a Skip a ready update has all of its author's earlier clocks in the
  document it is compared with.  From the
  invariant follow `SnapshotOnlyGrows`, `DeletedRowsAreCaptured` and
  `StoreImplementsDurableDoc` (initial states and steps map).
  `TailAlwaysBounded` adds `TailInv`: while there are enough clean rows for a
  compaction, some process has yet to count them, or is about to fold all but
  fewer than the threshold of them.  Counting *after* the append and folding at
  *or over* the threshold is what keeps it: whoever counts last sees every row,
  and a fold leaves no clean row of those it plucked
  (`FoldLeavesNoCleanRow`), for it deletes or quarantines each.
* **Delivery** (`CollabProofs`).  `CollabInv` adds to the three properties:
  frames are of their tab's present or an earlier connection; the id of a live
  frame covers only updates that the frame carries or the store has, and of a
  recorded one only what the store has; what is relayed is durable; a
  handshake in progress is the tab's own.  Ids being covered is the point: a
  cumulative ack is safe because every frame carries the whole tail.

  `StoreNeverHasGaps` rests on `GapInv`: what a tab's document holds is stored
  or in its queue's log, and needs nothing but what it holds and the store
  has; so a tail, which is the log less what is acknowledged (and so stored),
  needs nothing but itself and the store (`TailIsWhole`), and so does the
  answer to a state vector the server announced (`AnswerIsWhole`), as long as
  the store only grows.  Its hypothesis `Unseeded` says that no document held
  structs before its session: such structs are in no queue, a first edit on
  top of them does leave a gap, and `GapHeals` is about that case.

  `SyncedNeverMisses` rests on `MissInv`: whatever a synced tab lacks of the
  store is in a frame to it or in a job that will relay it, the same holds of
  what a SyncStep2 on its way does not bring, and a connected tab has a live
  stream, so that a relay becomes a frame of its own.  Its hypothesis
  `RelaysSucceed` says that a handler that dies does so after its relay
  (`Faulty \subseteq {"ack"}`, as in `collab_two_tabs`).  It is needed: a
  handler that dies between record and relay leaves the other tabs synced
  without the change, until the sender's retransmission is relayed or they
  connect again.
* **Edit** (`DocEditProofs`).  `EditInv` (types, no write lost, nothing twice)
  is inductive as it stands.  `UpdatesHaveNoGaps` adds `InOrder`: until a merge
  fails or an interrupt strikes, what edits have returned or hold is all that
  was made up to some write.  A take covers everything made, and no other step
  that goes well changes what is covered.
* **Identity** (first part of `DocumentChannelProofs`).  `IdentityInv` says at each
  statement of `for` what an earlier statement saw and nobody can undo; on the
  second pass the row that made the insert collide is still there, so the pass
  finds it, adopts it, or must raise because it is another attribute's.
* **Document channel** (`DocumentChannelProofs`).  `ChannelImplementsIdentity`
  maps every step of the channel to one of `DocumentIdentity` or to none, so
  `IdentityInv` is there for the rest.  `ChannelInv` adds that no row has
  another attribute's derived key (so no call raises), what a subscription has
  at each stage, that a frame is recorded only in an open subscription for its
  own attribute, and that a subscription's key is its document's or was before
  the application moved it.  A broadcast goes astray only if two attributes
  share a key, which distinct derived keys and rows exclude, or if its document
  was moved.
* **Sessions** (`DocumentSessionProofs`).  `SessionInv` is types (the stack of
  calls in progress included), the one live session, that only a refreshing
  session waits for a grant it will use, and that a session which asked has
  left "open".  The theorems hold for any depth of calls: every step of
  the stack only needs its innermost frame to be well-formed.  The two
  action properties follow step by step: `ClosingStep` finds the one place
  that closes, which a settle reaches without leases and pending work only,
  and `AskingStep` the one that asks, which an asked session has left.
* **Provider** (`ProviderProofs`).  `ProviderInv` adds to the four properties:
  while the phase is "stopping" exactly one call in the stack is that stop, of
  the present attempt, and otherwise none is; frames of the present cycle came
  in on the present subscription (`StackFits`); and in each phase, the
  presence the application asked for is in `local`, in the stash of
  `disconnect` or in the one of `pagehide` (`PresenceInv`).  None of the
  four is inductive without them: `DestroyTakesEffect` needs the stop that will
  see the upgrade, `FramesStayHome` the cycle of every frame that is being
  applied below the present call.  `wire` is whose subscription `#send` uses,
  and a frame carries the attempt it came in on; that the two agree whenever a
  frame marks the session synced or is answered follows from the order in
  which `#stop` ends the cycle and lets go of the subscription
  (`CurrentFramesAreOurs`), for a SyncStep2 is checked against the cycle only.
* **Element** (`DocumentElementProofs`).  `ElementInv` says of each element
  that it is `Sound` (lease, inert value and saved value are its attempt's and
  the application's), `Wanted` (only a live, mounted element has an attempt,
  for its target) and `GetsOn` (a live element is queued, stalled or
  underway), and of the page that the adapter comes back to whatever `Waits`
  and that what Turbo is about to clone is `Detached`.  A lemma per method
  says what it keeps of these (`Keeps`), `StepIsGood` and `SettledKeeps` do so
  for the settle, and two lemmas lift them to the page: one for steps that make
  nothing live, one for the adapter's reconcile.  `AttemptsAreWanted` shows
  besides that the branch of `#settle` that "should not happen"
  (`document_element.ts:224`) does not.

  The proof needed one change of the model: the cases of `Settled`, `Step` and
  `Reconciled` were a `CASE` with overlapping guards, of which TLA+ may choose
  any; they are now tried in the order of the code's early returns.

* **Document content** (`ContentProofs`).  Contents are sequences of any length,
  so the lemmas here need induction.  The library's induction theorems take an
  operator; `NatSetInduction` takes a set, and follows from the library's fact
  that the naturals are well-founded, while `RecursionExists` gives a recursive
  function (`ItemsAt`, the items at given places) the equation it is declared
  by.  On them rest three groups of lemmas: the number of items that
  stand for an index (`CountTo`, `ItemsAtRank`, `ItemsAtConcat`); that
  `to_units` lands between characters and never inside a surrogate pair
  (`ToUnits`); and that the characters of two joined texts are the joined
  characters, if the first does not end in half a pair (`CharsConcat`).  With
  them a write in units is the splice of characters Ruby's `insert` and
  `slice!` make of the text.

  `XmlInvariant` is that every block holds both units
  of each of its wide characters, next to each other (`Paired`), and that the
  root holds blocks and decorators only.  `EditsAsRuby` is not inductive
  without it: an index is turned into units by walking characters, and on an
  orphaned half the walk is off by one from then on.  It is kept by every
  write of the handle *and* by the peer's updates, which edit the same blocks.

  `CaretInvariant` is that paired units live and die together, that no two
  units have an id, and that an anchor names a unit of the text, alive or
  tombstoned.  `CaretsKeepTheirPlace` follows: a resolved caret counts the
  characters alive before its unit, and a write elsewhere moves no unit past
  another.

  These are theorems of `XmlText`'s `Spec` and of `CaretSpec`.  The runs check
  the properties of `RootsSpec`, whose steps are the steps of those two
  specifications or leave their variables alone; that module also reaches
  recursive operators, so nothing is proved of it.

  `TreeInvariant` is that a document is a tree: no block stands twice among the
  children of the root and the blocks (`OneParent`), some height falls from
  each block to its children, so that none is below itself (`Founded`), and the
  blocks that have a type, those a handle resolves to, are the ones the root
  reaches (`Gone`).  It implies `XmlInvariant`.  A write never moves a block: it
  adds fresh ones, and what it takes out goes with all that is below it, so
  each write is shown to keep, add or drop blocks of one sequence (`Keeps`) and
  one lemma turns that into a tree (`Regrown`).

  `ChangesAreReported` rests on it.  `Below` is a recursive function of a tree,
  defined only because the tree is founded; `BelowIsReach` shows by induction
  on the height that it is the least closed set (`Reach`), and from then on the
  proof speaks of closed sets.  What is below one child of the root is below no
  other (`ApartBelow`), so the first index of an event's path and `block_at` find
  the same child (`PathIsBlock`), and a block that changed is below a child that
  was there before and is there still (`BlocksTouched`).  For the root itself
  an update is cut into parts that are joined again (`Parts`); the walk of
  `root_positions` over its delta counts the blocks of the first ones in the
  root as it was and in the root as it is (`UpdatePositions`), and as no block is
  in two places those are the ordinals of what left and of what came
  (`PartsDiffer`).

  The proofs needed three changes of the model: `ItemsAt` and the walk of
  `root_positions` are recursive functions, and what an update edits is one
  record, the set of edited blocks and the kind of what they get, and not a
  sequence whose places carry the meaning.

`TypeCorrect` of the store, delivery, edits, sessions, the provider and the
element, `NothingParksInTheSnapshot`,
`SnapshotOnlyGrows`, `AttemptsAreWanted`, `CurrentFramesAreOurs`, and of identity
`ForFindsOne`, `KeyStays`, `BindingStays`, and of content `XmlInvariant`,
`TreeInvariant` and `CaretInvariant` are proved and not also checked by a run.

**Only model-checked.**

* Every liveness property (`Converges`, `GapHeals`,
  `UnneededCloses`, `BlockingReleases`), which is out of the provers' reach.
* `ReadsAsRuby` and `HandlesKeepTheirValue`: the trees of shared types are
  read and written by `RECURSIVE` operators, of which the provers know nothing.
* `TagsNest`, `TextIsShownOnce`, `MarksAreWorn` and `PmShownInOrder` of the
  renderers: each says what a fold, a recursion over the tree and a stack of
  work compute together.  A proof would need, for each of these, the existence
  and induction arguments that `ContentProofs` makes for `ItemsAt` and `Below`;
  they have not been carried out.

Every other safety and action property of a passing run is a theorem.

## 6. Plan

Done, in this order: store, delivery, `Doc#edit`, sessions, identity, element,
provider, document content and rendering, document channel.  Left:

1. Proofs: the renderers' folds as recursive functions, with the stack of open
   tags as their invariant, on the induction of `ContentProofs`; `TailFrames`
   of `ReliableSync` against an abstract queue.
2. `DocumentChannel` composed with the session's refresh of grants, and with
   subscriptions that the client ends.
3. `ReliableSync` with re-entrant callbacks, step by step.
4. Positions in XML texts (`Y::Anchor`) over `XmlText`, as `Carets` does for
   `Y::Text`, and the ProseMirror text reader of `read.rs`.

## 7. Not modelled

Encrypted documents run the store's code over encrypted columns.  The native
Awareness type is a thin shell over yrs, and what a cleared state keeps of its
clock is decided there; the relay of awareness frames promises nothing.  Of
the handles, block attributes and the anchors' storage; of the renderers, tag
names, attributes, URL and CSS checks, escaping, the parsing of rules and the
rule tables of Lexxy and Tiptap; the Markdown parser and the decoder: string
work that no property here tells apart.  Log lines, error wording, base64,
envelopes and frame validation carry no state the properties are about.  The
engine and the generators run once; the indexes they create are in
`DocumentIdentity`.  The demo application and the benches are uses of the
library.  What the Action Cable and AnyCable clients do with an unsubscribe
that meets a new subscription of the same identifier is decided outside this
repository.
