# A TLA+ model of pjson

pjson is a C++ JSON library: a document object model (DOM) with caller-chosen
allocators, two parsers (DOM and SAX), a serializer, JSON Pointer, JSON Patch
and JSON Merge Patch, and a JSON Schema validator.  It has no threads and no
persistent state of its own.  What is hard in it is

* **ownership under aliasing**: every operation may be handed an argument that
  is an ancestor, a descendant or a sibling of the value it changes;
* **failure in the middle**: each allocation may throw, and most operations
  promise that nothing has changed when they do;
* **recursion replaced by work lists**: copying, teardown, merging, parsing and
  validation keep explicit stacks of pointers into documents they modify;
* **budgets**: nodes, bytes, operations, depth and work are charged before they
  are spent, on paths that fail, discard or retry;
* **boundaries of size_t** in index parsing and array growth.

The models follow `pjsonlib/src` at the commit in `src/`; `PROJECT.json` maps
each definition to the lines it stands for.

## Inventory

| Part | State it keeps | Operations | Talks to | What makes it correct |
|---|---|---|---|---|
| DOM (`pjson.cpp`) | a tree of nodes; each node an allocator for life and a storage block, or the shared null storage | construct, copy, move, assign, swap, insert, subscript, erase, clear, reserve, reset | allocators; every other part builds on it | ownership is a forest, storage returns to the allocator it came from, operations are all-or-nothing and treat documents as values |
| Teardown (`_disposeChildren`) | a list linked through the nodes being freed | reset, destructors, clear | DOM | every descendant released once, constant stack, no allocation |
| JSON Pointer (`pjson_pointer.cpp`) | none | decode, escape, index parsing, lookup | Patch, Schema | decoding inverts escaping; an index token is the canonical decimal of a `size_t`; the right token is blamed |
| JSON Patch (`pjson_patch.cpp`) | a private clone, budgets, the caller's `PatchError` | six operations, publication | DOM, Pointer | RFC 6902, atomicity, the right operation blamed, budgets bound the clone |
| Merge Patch (`pjson_patch.cpp`) | a private clone, a work list of pairs of pointers, budgets | merge, publication | DOM | RFC 7396, atomicity, no stale pointer, termination |
| DOM parser (`pjson_parser.cpp`) | container stack, limits, error | parse text or stream | DOM | accepts JSON, limits, the first error reported |
| SAX parser (`pjson_parser.cpp`) | container stack, key sets, limits | callbacks | the caller's handler | same texts and limits as the DOM parser, balanced callbacks |
| Serializer (`pjson_serialize.cpp`) | frame stack, sink | toString, write | streams | the counting pass finds each logical failure before a byte is written |
| Parser objects (`pjson_parser.cpp`) | a heap object with options and an allocator | construct, copy, move, assign, destroy | both parsers | a parser is a value; a moved-from one has the defaults |
| Numbers (`pjson.cpp`, `pjson_parser.cpp`, `pjson_serialize.cpp`, `pjson_schema_value.cpp`) | none | comparison and equality of int64, uint64 and double; checked getters; tokens to numbers and back; `multipleOf` | parsers, serializer, Patch `test`, Schema | an exact order, nothing rounded on the way, what is written is read back |
| Schema compiler (`pjson_schema*.cpp`) | resources by URI, anchors, compiled patterns, limits | compile, resolve | Pointer, remote resolver callback | every schema node is judged under its own resource and dialect; documents are loaded once and within the limits; no identifier is taken over |
| Schema evaluation (`pjson_schema.cpp`) | work, depth and diagnostic budgets, active references, dynamic scope, error sinks | validate | DOM, Numbers, regex | the verdict is the meaning of the schema, an exhausted budget is never "valid", termination on reference cycles |
| Object storage (`pjson_internal.h`) | hash table with a keyed hash | lookup, iteration | DOM | iteration order means nothing to a caller |

Third-party code (Ryu, SRELL, the meta-schemas), the build, packaging, tests,
fuzzers, benchmark and examples are outside the model.

How the parts meet: Patch decodes its pointers with Pointer, clones with the
DOM's deep copy and publishes with a storage swap; Merge Patch likewise; every
replaced or erased subtree goes through teardown.  The models meet in the same
places: `Dom` treats teardown as one step and `Dispose` refines that step;
`Doc` says what `Dom` means as values, and `Patch` and `MergePatch` are written
on those values (`Trees`), because the clone they work on is private.  The
parsers read lexemes and the schema validator reads references, patterns and
formats as names: what those are as texts is modelled in modules of its own
(`JsonStrings`, `JsonNumbers`, `SchemaText`), character by character.

## Modules

**`Trees`** - JSON values as trees: a function from paths to a type and a
payload, with the edits (put, insert, push, erase, splice) the other modules
share.

**`Dom`** - the heap.  `heap` gives each node its liveness, its allocator
(`_allocator`) and its storage (`_pImpl`: home allocator, type tag, payload,
children).  Operations that cannot fail half-way are single actions
(`reset`, `clear`, `erase`, `swap`, `SubscriptKey`, a same-allocator
`MoveAssign`, ...).  Deep copies and growth loops are jobs: `StartCopy`,
`CopyChild`, `CopyPop` and a `Finish...` per operation follow
`_copyContentsInto` child by child; `GrowStep` follows `operator[](size_t)` and
the vector appends; `AllocationFails` may strike at any step and runs that
operation's exception path (`Rollback`).  Stack objects of the C++ code
(`replacement`, `tmp`, `snapshot`, `sourceCopy`) are the nodes `T1`, `T2`.
`containsNode` may answer TRUE when it should not, because the code answers
so when its own work list cannot be allocated.

**`Doc`**, **`DomRefine`** - the promise to the caller: each operation is one
atomic step on trees, computed from its arguments as they were at the call.
`DomRefine` maps the heap to the tree read from each handle (and to the tree
before the call while a job runs) and states `Dom` implements `Doc`.  A step of
`Doc` does not name the operation that was called; `AsCalled` ties the effect of
copies, moves and growth to the call and its own arguments.  It also says that
`operator[](size_t)` reaches the index it was given, or refuses it: at the largest
`size_t` the required size wraps to 0.  The overload for `int` is not an action of
its own: below zero it refers to an existing element or throws and changes
nothing, otherwise it calls this one.

**`Dispose`** - `_disposeChildren` pointer by pointer, in two threads at once:
the walk of a container (`DropNull`, `Push`, `Emptied`), the intrusive list
(`Pop`) and the link field of the shared null storage.

**`Pointer`** - `decodePointer` character by character, `escapePointerToken`,
`parsePointerIndex` with a small `size_t`.

**`Lookup`** - reading a document: lookups by name and index, typed reads,
visitors, `findPointer` with the code and the token it blames, and `patchEqual`,
the equality of the patch operation `test`, which pays for every step.

**`Numbers`** - signed and unsigned integers and doubles of parameterised width
(`IntBits`, `Precision`, `Scale`): `_compareNumbers`, `operator==`, `tryGet`, the
conversions of native values, the schema's limits and exact `multipleOf`.

**`JsonNumbers`** - the texts of numbers: `scanJsonNumber`, the conversion of a
token with its saturating exponent, and the layout `_formatDouble` gives to the
shortest digits.

**`JsonStrings`** - the bytes of strings: the two readers (`decodeStringBody` for
the DOM, `parseStringRaw` for SAX), the writer, UTF-8, lines and columns.

**`ObjectHash`** - SipHash-2-4 on names, a word being the set of its bits.

**`ParserObject`**, **`ParserValues`** - the life of `pJsonParser` objects as
pointers to heap objects, and as values; the first implements the second.

**`Patch`** - `applyPatch`.  A pointer is its decoded tokens; a token is a
natural, those of `Indexes` being canonical decimals.  One action per JSON Patch
operation, with the member checks (`Defect`), the node budget, the exception
handler (`OutOfMemory`) and the publication (`Publish`).

**`MergePatch`** - `applyMergePatch` with its work list.  The members of a patch
object are visited in any order (hash order).

**`Serialize`** - one call of `toString`, `toString(out, error)`,
`write(stream)` or `write(stream, error)`.  `Count` and `Emit` start the
traversal `_writeValueTo` in the counting and in the emitting pass; `Child` and
`Close` are its two kinds of iteration.  An iteration is a sequence of pieces
(bytes, indentation, an allocation, a value that cannot be written), and `Feed`
gives the sink as many as it takes: the counting sink stops at the limit, at
the largest `size_t` or at a value with no JSON form, a stream may stop at any
piece, an allocation may fail wherever the code makes one.

**`SerializeText`** - the text of a value by recursion, and the first obstacle in
it, against which the traversal is checked.

**`ParserInput`** - what the two parsers share: the options, the text and the
grammar of containers.  A text is a sequence of lexemes (brackets, commas,
colons, strings, numbers, literals, junk), each with the white space before it,
the kind of each of its bytes and what is wrong with it.  A lexeme is chosen when
a parser looks at it, so that TLC explores texts only as far as somebody reads
them; `supply` says beforehand whether the input ends within `maxInputBytes`,
is longer, or is a stream that fails.

**`DomParser`** - `parse` and `parseStream`.  The C++ stack of `parseArray` and
`parseObject` is `dom.frames`; one action per lexeme it can meet, `DomUnexpected`
for every syntax error, `DomOutOfMemory` for an allocation that fails anywhere.

**`SaxParser`** - `parseSax` and `parseSaxStream`.  The cursor takes a byte at a
time: `Refused` is the first byte of a lexeme that `getChar` will not deliver,
because the text ends, the stream failed or the limit is reached, and
`RefusalCode` what the code that asked for such a byte reports.  `Dispatched`
calls back, and the callback may refuse or throw.

**`JsonText`** - without a parser: which sequences of lexemes derive from the
grammar of RFC 8259, and which document they denote under a duplicate policy.

**`ParserPair`** - the DOM parser and then the SAX parser on one text.  A handler
(`sax.built`) makes a document of the events as they come.

**`SchemaTree`** - JSON values as the validator reads them; objects list their
members in hash order, which the code leaves open.  `Values` are the values
documents are made of, a set that holds the members of its members; no object in it
names a member twice, which `pjson` ensures.  `Decimal` is `std::to_string` on the
positions of its arrays.

**`SchemaIndex`** - what compilation builds and validation reads: the index of
resources, anchors, schema nodes and documents, dialect policies, option
presets, effective limits, and `ResolvedReference`.

**`SchemaShapes`** - the diagnostics of strict mode for one schema object, in the
code's order.

**`SchemaCompile`** - the construction of a validator: `Contract` finds the
dialect of the root, `Visit` takes the next schema node of the walk
(`compileSchemaResource`), `Take`, `Known`, `Refuse` and `Load` are the
iterations of the loop over pending documents, with one resolver call each;
`CheckReferences` ends it.  The recursion of the walk is the list `visits`.  A
document is charged for its compact text, of which the module knows the length,
or, when something in it cannot be written, how much comes before that:
`Overruns` tells whether the budget ends first.

**`SchemaPlan`** - what one schema object asks of one value: the keywords of
`validateCtx` in the code's order, each as a sequence of steps that charge work,
report a failure, compare values, compile a pattern or evaluate another schema.
The plan depends on the schema and the value only, never on a budget.

**`SchemaEval`** - carries the plans out, one step at a time.  The native stack is
`stack`, a sequence of frames; a frame remembers its sink and how many failures
have been pushed to it.  The sinks are the caller's vector, a list of nested
causes and the one that discards.  `Enter`, `Conclude` and `Bail` are the
entrance and the two returns of a call, `Reference` and `FollowRef` the two
places that follow a reference, `OutOfMemory` the handler of `runValidation`.

**`SchemaValidator`** - the composition: compile, validate the schema against its
meta-schema with the same evaluator on the same index, then validate an instance.

**`SchemaMeaning`** - the verdict, defined by recursion on schema and instance
without stack, budgets, sinks or an order of keywords.

**`SchemaText`** - URI references and their resolution, fragments, formats, and
the two filters a pattern passes before the regex engine sees it.

**`TreeTheorems`**, **`PatchProofs`**, **`MergePatchProofs`**,
**`SerializeProofs`**, **`ParserProofs`**, **`SchemaProofs`**, **`DisposeProofs`**,
**`DomProofs`** - lemmas on `Trees` and theorems, see below.

The `...MC` modules give the constants for TLC; `TextMC` also enumerates the
samples that the text and number modules are tried on.

## Runs

| Run | Asks |
|---|---|
| `dom_aliasing` | two handles, three pool nodes, one allocator: is ownership a forest, nothing leaked, nothing dangling, whatever the aliasing and wherever an allocation fails?  Does it implement documents-as-values? |
| `dom_allocators` | two pool nodes, two allocators: does storage stay in its domain when moves become copies, has a failed operation changed nothing, has each copy, move and growth that returned done what that call means to its own arguments, and does the heap still implement documents-as-values? |
| `dispose` | is every node released once, with empty containers, clean links and an end? |
| `patch` | does every patch of up to two operations give what RFC 6902 gives, or leave the target alone and blame the right operation? |
| `serialize` | through each entry point: is what is out always a prefix of the text, does the counting pass find the first obstacle, and does the emitting pass meet none? |
| `serialize_prefix` | *violated*: a failed allocation leaves a prefix in a stream, which "only a physical stream failure" may (`pjson_serialize.cpp:654`) |
| `parse` | do both parsers accept exactly the JSON texts within the limits, with the same document and, but for the exceptions the property lists, the same code?  Can a handler make sense of the events, whatever is suppressed and wherever the parse stops? |
| `parse_cause` | *violated*: the byte limit or a failed stream inside a token is reported as another error |
| `text` | do pointers, references, fragments, formats, patterns, strings, UTF-8, lines, hashes, number tokens, comparison, equality and divisibility give exactly what independent definitions say?  Are parser objects values? |
| `schema` | is each verdict the meaning of the schema; is a failure always reported; is the recursion bounded; are cycles found; does each schema node know its resource; is a document kept once, and within the limits; does every call end? |
| `schema_cycle` | *violated*: a reference next to a subschema that refers to the same place is reported as a cycle |
| `merge_patch` | does every two-level merge patch give what RFC 7396 gives, in every member order, and end? |

Bounds and why they are enough.

* `Dom`: two handles and three pool nodes are enough for a container inside a
  container with a sibling, hence for every aliasing the code distinguishes
  (same node, ancestor, descendant, sibling, other document).  Arrays have at
  most two elements (`MaxLen`), one key; `MaxAutoGrowth = 1` and a `size_t` of
  three bits let growth hit its limit and wrap.  The pool running out only
  disables progress; the failure it would cause is `AllocationFails`.
* `Dispose`: all forests of four nodes over two roots, with any leaves null.
* `text`: every pointer of up to five characters, which hold an escape next to a
  separator, two tokens, and three digits against `SizeMax = 100`; each is also
  followed in documents with names that need escapes, are empty or look like
  indices.  References of up to four of the characters that divide a URI, and
  paths of three segments out of `.`, `..` and names, against two bases with
  queries.  Integers of six bits and doubles of four significant bits in
  quarters: every pair of an edge integer or a representable double is compared,
  which includes every way rounding an integer to a double makes unequal numbers
  equal.  Strings of up to four pieces (escapes, surrogate halves, bytes of
  truncated characters, a quote, a control byte); one character of every lead
  byte at the end of a range with up to three tails.  Tokens at the ends of each
  range, with exponents around the cap (`KExponentCap = 40`; 10^9 in the code:
  saturation is exact only for tokens with fewer digits than the cap).  Three
  parsers over four heap objects.
* `Patch`: three documents, eight pointers that address the root, members,
  elements, the end of an array by index and by `-`, and nothing at all.  Two operations are what it takes for an earlier success to be undone
  by a later failure and for an array index to shift between operations;
  `maxOperations = 2`, `maxClonedNodes = 7` are hit by copies of the root.
* `MergePatch`: two levels, two members, five operations, eleven nodes.  The
  limits are reached by the larger patches.
* `Serialize`: ten values with every kind of character and scalar, containers
  three deep, under every option that bears on them; limits that fall before,
  inside and at the end of the texts; a `size_t` of 40 and a `streamsize` of 19
  so that indentation overflows each; one reserved frame, so that the stack
  grows.

* `parse`: 13 lexemes, one or two of each kind and fault; up to 11 of them in a
  text, which is what a repeated name with a container as its second value takes;
  depth 2 (the hard limit here) or 1, at most 4 values, byte limits 7 and 8 that
  fall between and inside lexemes.  A text over the byte limit is not cut at 11:
  the limit ends it.

* `schema`: some sixty schemas, each of which has two or three keywords that meet (a
  reference beside `allOf`, `contains` inside `if`, `unevaluated...` beside
  `oneOf`, a dynamic anchor in two resources); each with its own instances and
  options, and, except for those about compilation, with each of 13 instances
  under each of 25 options, among them a work budget of 1 to 12 units, a depth of 1
  to 3 and 1 to 3 errors, so that each budget runs out at each place of the
  shorter evaluations.  Up to three documents from a resolver that may throw,
  answer with no schema or with a document that has no JSON text, or not know
  the URI.  The applicator cases also run short of memory at any step.

Symmetry (`Interchangeable`) is used for pool nodes, handles and allocators in
the `Dom` runs, none of which checks liveness.

### Faithfulness notes

* A whole call of `_containsNode` or `_disposeChildren` is one step of `Dom`:
  nothing else can run on the document meanwhile.
* Byte and work budgets of the patches depend on text lengths; the models let
  them run out at any charge, nondeterministically.  The operation and node
  budgets are counted.
* The limits in the models are the effective ones: an option of zero selects
  the built-in limit before the call starts.
* Exceptions other than allocation failures (`InternalError`) come from
  conditions the code itself treats as impossible and are left out.
* The serializer's frame stack may allocate at every push beyond the reserved
  frames, whether or not an earlier push has already made it larger.
* A sink call is refused as a whole; that a stream may keep part of its bytes is
  not distinguished from keeping none of them.
* In `Patch` the operation `test` is equality of values; that `patchEqual` has
  that verdict or runs out of its budget is checked in `text`.
* `reserve`, or an assignment of a string to a value of another type, may throw
  after it has discarded the old value, in the code and in `Dom`.

* In the parser models what `scanJsonNumber`, `decodeStringBody` and
  `consumeUtf8Tail` check byte by byte is a fault that a lexeme has; where bytes
  matter (limits, a text that ends in a token) the lexeme has bytes.
  `JsonStrings` and `JsonNumbers` say which texts have which fault.  Messages are
  left out, as is the null input pointer (`InvalidArgument`); the code that the
  DOM parser derives from words of a message is stated per fault (an unescaped
  control character is `InvalidEncoding`, because its message says "unescaped").
* A failing stream fails within `maxInputBytes`.  An allocation failure while
  `parseStream` still collects its input escapes to the caller and is left out.
* A SAX parse is compared with a DOM parse that did not run out of memory.

* In the schema models a reference text has parts (document, fragment), and a URI
  is a directory and a name; taking texts apart is checked in `text`.  A pattern
  is whether it is safe, whether it compiles and what it matches or exhausts.
  The bundled meta-schemas are small documents tied by a dynamic anchor, as the
  real ones are.
* Which pending document the compiler takes first is left open (the code takes
  the smallest URI); the order of members is open wherever it is in the code.
* After an abort the code walks to the end of some loops, charging work nobody
  reads; the model returns at once.
* Two external things take any outcome they can have: the stream extraction that
  reads a double rounds to nearest but may or may not report the ends of the
  range; Ryu hands over the shortest digits.

### Fairness

`MergePatch`, `Dispose` and the schema run state liveness.  All three are
sequential loops in the calling thread: once entered, the next step is always
taken, which is weak fairness of the step.  A caller need not start a patch or a
teardown, so calls and starts are not fair.  In `SchemaMC` every behaviour is one
call, and weak fairness of the whole next-state relation is written without
`ENABLED`, as `Running_`: infinitely often there is an answer or a step that
changes something.  The two agree because a step is possible until there is an
answer, which the check for deadlock establishes; this form takes TLC seconds
where the other takes it many minutes.

## Proofs

`PatchProofs` proves for all documents, patches and limits:

* `CloneBudgetHolds`: the clone never has more nodes than the call was charged,
  nor is a call charged more than `maxClonedNodes`.  It is inductive only with
  `DocInv` (below): of a clone that is no document, a removal need not take out the
  nodes it names.  A lemma per helper counts: `CountAdd` and `CountReplace` (at most
  the nodes of the value more), `CountDetach` (what is left and what was taken out
  are no more than was there), which lets a `move` put in uncharged what it took
  out.  They rest on `CountReplaced`, `CountSpliced` and `CountErased` of
  `TreeTheorems`.
* `SuccessClearsErrorHolds`: success leaves the `PatchError` of an untouched
  call; inductive as it stands.
* `AllOrNothingHolds`: a call that reports success has made the target the one
  document RFC 6902 makes of it and the whole patch, and no other step touches the
  target.  `DocInv` says that the clone is that document for the operations done so
  far (`After(opIndex) = {scratch}`) and still a document (`IsDocument`: only
  objects and arrays have anything below them, and the elements of an array follow
  each other).  Under it lie a lemma per helper: `ResolveFinds` (by induction on the
  tokens resolved: the walk ends at the one location that spells them, or RFC 6902
  knows none), `AddDoes`, `ReplaceDoes`, `DetachDoes` (each leaves the one document
  RFC 6902 defines, or refuses where it defines none) and a lemma per operation.
  Two of them need more than a look at the code.  A `move` to where it came
  from is skipped by the code and is a removal and an addition in RFC 6902:
  `MoveNowhere` shows that these put every element back where it was.  And refusing a
  root `move` is right because the root is an ancestor of every other place.
* `BlamesFirstBadOperationHolds`: the reported `opIndex` is that of the first
  operation RFC 6902 refuses; when a limit or an allocation ended the call, RFC 6902
  refuses none before it.  The same invariant, and `LeavesMore`: what operation
  n + 1 may leave is what it makes of what the first n leave.

They rest on `PatchAssumption` and `DocumentAssumption` (targets and values are
documents, a pointer is a sequence of tokens), which TLC evaluates on the instance of
the `patch` run.

`MergePatchProofs` proves for all documents, merge patches, limits and member
orders:

* `PendingStaysLive`: every object a pending merge refers to is still in the
  clone and in the patch, so the work list of `applyMergePatchTo` never holds a
  stale pointer.  `PendingIsLive` alone is not inductive, since a deletion or a
  replacement could take a pending object with it.  `MergeInv` adds why it
  cannot: pending objects lie apart from each other (`WorkInv`), and apart from
  the members that the merge in progress has yet to visit (`CurInv`).  One lemma,
  `VisitedKeeps`, covers a visit that changes one member alone, and
  `DeleteKeeps`, `DescendKeeps` and `ReplaceKeeps` show that each visit does.
* `CloneIsCharged`: the clone never has more nodes than were charged.
* `MergeTypeCorrect`: types, with both counted budgets within their limits.  No run
  lists this invariant; the proofs of the other two use it.

* `MergeIsExact`, which is `MergesOrNothing`: for every target and patch and every
  order in which members are visited, a call that succeeds leaves exactly the
  document RFC 7396 defines (`Merged`, stated path by path), and one that fails
  leaves the target alone.  The argument is `MergedInv`, which says of every path
  what the clone has there half-way.  A path below a pending object, or below a
  member not yet visited, still has what the target has, provided the target has
  objects all the way down to it (`Pending`, `Waiting`).  Every other path is
  already as the result has it, or lacks.  On the other side stand lemmas about
  the result alone: below a pending object nothing above overrides it
  (`OverridesBelow`), a member the patch does not have is the target's
  (`NotPatched`), a member with a value that is no object is that value or gone
  (`Overridden`).  `DeleteMerges`, `ReplaceMerges`, `DescendMerges` and `PopMerges`
  bring the two together.  Recursion is not needed anywhere: both sides speak of
  one path at a time.

They rest on `MergeAssumption`: documents are finite trees with a root, their slots
are naturals, only objects and arrays have anything below them, and an object has
nothing but its members.  Every `pjson` value is such a tree.

`SerializeProofs` proves for all values, options, sizes and limits:

* `LogicalFailuresEmitNothing` and `StringsAreTransactional`, from `EmitInv`:
  nothing is out before the emitting pass, a string is not touched before the
  end, and the emitting pass into a stream can only fail for memory or for the
  stream.  The lemma `FeedEffect` says what one iteration may change, whatever
  its pieces are.
* `FramesAlwaysNest` (no run lists it), from `FrameInv`, which adds that the stack is a sequence of
  frames and empty outside a traversal (`PushNests`, `PopNests`).

That the emitted bytes are those of the text, and that the emitting pass repeats
the counting one, is model-checked only (`EmitsTheText`, `CountDecides`): the text is defined by recursion on the value.

`ParserProofs` proves for all options, lexemes and texts of any length:

* `LimitsHold`: neither parser goes deeper, makes more values or consumes more
  bytes than its options say.  `ParserInv` adds where a parser is in the text and
  that its frames are a sequence, and `TextInv` that each lexeme has at least a
  byte; `ReadFits` says that what `getChar` delivers lies within
  `maxInputBytes`, `NoneFailed` that a parser goes on only where all checks of a
  step passed, in whichever order it makes them.

* `EventsNestHold`: what the handler of the SAX parser has heard makes sense at
  every moment, and as a whole document when the parse succeeds.  `Nests` relates
  the frames of the parser to what the handler has open.  The frames that report
  (`emit`) are the outer ones and are open in the handler with the same kind; a
  frame inside a suppressed duplicate reports nothing, and its siblings after it
  do again; a name the handler has heard awaits its value exactly where the
  parser will report one; a name it has heard is one the parser knows as taken,
  so that none is heard twice unless the last one is to win.  One lemma per
  change of the frames (`OpenedNests`, `ClosedNests`, `PlacedNests`,
  `NamedNests`), and one per action.

Both rest on `ParserAssumption`: a hard depth of at least one, budgets that are
naturals, lexemes of at least one byte.

`SchemaProofs` proves for all schemas, instances, options, resolver answers and
meta-schemas, and whatever plans the keywords give:

* `VerdictsAreReported`: unless memory runs out, `validate` returns true exactly
  when it reports nothing.  A verdict is a number of failures pushed to a frame's
  sink, while the report is what went to the caller's; that the two agree needs
  to know which calls share a sink.  `SchemaInv` adds it: `Stacked` says that a
  call reports to the sink of the call below it exactly when that call's step
  says so (`CalledBy`), and the last one to the caller; `Told` says that the
  report is not empty exactly when some call with the caller's sink has a
  failure, or the run was aborted; `Unspent` says that the diagnostics budget can
  only be used up by a report, which is what keeps a failure from being dropped
  before the first one is told; `CompileInv` says that a schema is only refused
  with an error.  One lemma per kind of effect (`Pushes`, `Aborts`, `Stops`,
  `Calls`, `Returns`, `Begins`) and per action of the evaluator.
* `RecursionIsBounded`: the stack is never longer than the depth option allows and
  the depth is at all times what the calls on it have taken, also when a call
  returns early or is reached through references.  It follows from `RunInv`.

* `DocumentsAreBounded`: documents and dialects are kept once for each text, a
  document only as the resource it is found by, and their number and bytes
  stay within the options.  `StockInv` says it of the index in a form each part of
  a compilation keeps: `DialectLoaded` for `loadDialectDocument`, `ContractKeeps`
  for a contract, `VisitKeeps` for a visit of the walk, `LoadKeeps` for a document,
  which is appended before its contract is compiled, may pull in dialects
  meanwhile, and is taken back when it fails.

* `NodesKnowTheirResources`: whatever `$id`s are nested where, whatever the resolver
  answers and whatever dialects it all declares, no schema node is indexed under
  a URI that is another resource's.  The check in `compileSchemaResource` is not
  enough for this: it compares roots, and a node that was visited twice would find
  its URI taken by its own first visit and could replace the policy.  So
  `WalkInv` says where the walk is: no node still to visit is above another
  (`Apart`); no resource begins at or below one, unless that one is the root of its own
  resource and brings the same policy (`Foremost`); each has the root and policy its
  base has in `resources` (`Held`); every resource lies in a document that was loaded
  (`Located`), so that `Load` begins in one nobody has been in.  A visit then adds
  one resource at most, at its own node (`ClaimGrows`), and the visits of nodes below it,
  apart from each other and from the rest (`ChildrenAreBrood`, `WalkGoesOn`).  That last
  step needs that the positions of the subschemas of an object are distinct and that a
  path leads to each: `PositionsPlaced`, for every keyword list of the code, from
  lemmas on `At` (`AtConcat`: a path that goes on) and on `FlattenSeq`.

They assume that a bundled meta-schema has a length and is a value of `Values`
(`BuiltinsAssumption`), that `Values` is closed and its objects have distinct names
(`ValuesAssumption`) and that no two positions have one decimal text
(`DecimalAssumption`); TLC evaluates all three on the values of the `schema` run.
`ValidOptions` (limits are naturals, an answer has a length or no text, the caller's
schema and the answers are values) is part of the initial condition.

`DisposeProofs` proves for any forest of nodes, any number of them null, and any
number of threads tearing parts of it down at once:

* `AllReleasedHolds`: when a teardown is over, all below its root and its link are
  gone, each node released once and nothing of another thread's.  `TeardownInv`
  says why nothing is forgotten: what a thread holds, the nodes those lead to
  by links and containers, and so on, reach whatever is not yet released below
  its root (`ReachInv`, over all sets closed under leading to, since no path
  can be counted); nothing it holds belongs to another root (`OwnInv`); and a
  container only loses children (`FamilyInv`).
* `LinksAreCleanHolds`: a link that is set is in the list of a teardown under way.
  `ListInv` says that the lists reach all links, in the same manner.
* `OneHolderHolds`: until it is released a node is reached from exactly one place (a
  container, the list of a teardown, the node a walk has reached, the handle);
  it is released once, and then reached from none.  `HolderInv` states it without
  pairs; it is inductive with `LinkInv` (what has a link is in somebody's list),
  `NullInv` (a null is childless and never linked) and `WalkInv` (what a thread in
  the middle of a walk may hold).
* `NullStorageIsKept`: the link of the storage all nulls share is never written.
* `StackSafeHolds`: a released node has an empty container.

`DomProofs` proves for any sets of handles, pool nodes, allocators, keys and
payloads, and any bounds on lengths and growth:

* `NeverDangling`, `OneOwner`, `NeverCyclic`: what is owned is alive, is owned
  once and never contains itself;
* `DomainsStayApart`: a container and its children have one allocator;
* `NothingLeaks`: every node the pool has given out is owned, by a container or by
  the running operation, and no temporary outlives a call, whether it returns or
  throws.

The one assumption is `NodesAssumption` of `Dom`.  The first four are not
inductive one by one, nor together: a swap or an attachment keeps the heap a
forest only between nodes of which neither is inside the other, and whether that
is so in the middle of a copy depends on what the copy has made so far.
`DomInv` adds to `Forest(heap)` that no temporary outlives its operation, and for a
running job what it has in hand: the nodes it has made (`New`) are closed under
ownership, every item of its work list pairs a source that is alive with one of
them, and what hung below the source of a move at the call does not hold the
receiver (`HandsInv`, `CopyInv`).  A forest changes in three ways, and each
primitive is one of them: it drops nodes (`reset`, `clear`, `erase`, the teardown
of a temporary), it gains an orphan (growth, insertion, `CopyChild`), or two
storages trade places (`swapStorage`).  Above these there is one lemma
per operation, and whatever returns leaves a forest without temporaries.
`LeakInv` adds that the child not yet attached is all that has no owner, and that
the name it will get stays free: an attachment under a name in use would drop
what was there.

`TreeTheorems` holds what the two patches need: paths under `Inside`, what `At`, `With`,
`As`, `Erased` and `Spliced` read and keep, place by place, that each leaves a
document of documents, what undoes what (`SplicedBack`, `WrittenBack`, `MemberBack`),
and how many nodes each leaves.

Only model-checked: liveness (`Returns`, `Ends`); `DocSpec` and `AsCalled` of
`Dom`; what the parsers accept and build, what the serializer emits, what a
schema means and what texts and numbers denote, which are defined by recursion
on the data.

## Findings

With a run that shows them:

1. The pair (schema, instance) a reference enters stays among the active ones
   until the whole call returns (`pjson_schema.cpp:1717`), not until the
   reference is evaluated: `{"$ref": A, "allOf": [{"$ref": B}]}` with `B = {"$ref": A}` is
   reported as `ReferenceCycle` on a valid instance (`schema_cycle`).
2. The SAX parser loses the cause of a failure: `getChar` records `InputLimit`,
   and the function that asked for the byte overwrites it with its own complaint
   (`SaxParser::fail`, `pjson_parser.cpp:1225`); a stream that fails inside a
   number, an escape or a literal is likewise not asked about.
   `docs/05-parsing-and-errors.md:109` promises `StreamError`, and `:75` the
   first problem (`parse_cause`).
3. A failed allocation in the emitting pass of `write(stream, error)` leaves a
   prefix; the comment at `pjson_serialize.cpp:653` allows one only for a stream
   failure (`serialize_prefix`).

Met while modelling; the models follow the code, and no run is spent on them:

4. `reserve` on a non-array discards its value (`pjson.cpp:1310`); `pjson.h:586`
   calls it a no-op.
5. `parsePointerIndex` decides "out of range" before it has seen the whole token
   (`pjson_pointer.cpp:51`): digits beyond `size_t` followed by a letter give
   `ArrayIndexOutOfRange`, although `pjson.h:135` promises `InvalidArrayIndex`.
   `FindsExactly` names the exception.
6. A document that is both referred to and named as a dialect can be loaded and
   charged twice, although the comment at `pjson_schema.cpp:1236` says it is not:
   when the dialect is named with an empty fragment
   (`"$schema": "http://c/dialect#"`), and when the reference comes first, since
   `loadDialectDocument` does not look among the documents.  The second case
   came out of the attempt to prove that no document is loaded twice; the
   schemas of the `schema` run have both.  `DocumentsBounded` therefore compares
   documents and dialect texts each among themselves.
7. `failValidationBudget` (`pjson_schema.cpp:344`) checks the errors used and not
   the diagnostics used, so that a report with nested causes can hold one
   diagnostic more than `maxErrors`.
8. `docs/06-schema-validation.md:100` says references are resolved while the
   validator is constructed; a reference at a place that no walk indexes is
   resolved by pointer during validation and can fail there.
9. A pattern that is rejected under `not` fails into the discarding sink, so that
   `not` holds and the instance is valid; likewise `{"not": {"$ref": "#"}}` is
   decided by the cycle it reports to nobody.  `VerdictIsMeaning` therefore
   speaks of runs in which no such failure occurred (`faults`).
10. `resolveUri` differs from RFC 3986 in three places that
    `ResolvesLikeRfc3986` excludes: empty path segments are dropped, so is the
    slash after a final dot segment, and a reference with a scheme is not
    normalized.

## Not modelled

* Ryu, SRELL, the text of the meta-schemas, and what the standard library's stream
  extraction does inside: vendored or external.
* The `std::unordered_map` behind objects and the drawing of its hash key: each
  model takes the order of members as arbitrary, which is all the code promises.
* Messages, and paths in diagnostics: formatting that decides nothing.
* Streams with exceptions enabled, and exceptions other than failed allocations and
  those of callbacks and resolvers.
* Build, packaging, tests, fuzzers, benchmark and examples.

## What comes next

1. `DocSpec` from `DomInv`: it needs trees as functions on paths, hence recursion.
2. Of `AsCalled`, the part that speaks of failures (`FailureRestores`), which needs no
   trees.
