# lexbor: TLA+ models, checks and proofs

lexbor is a C library that parses HTML, CSS, URLs and encodings and keeps the
result in a DOM with a style engine on top. It runs in the thread of its caller,
so nothing here is about threads. What is hard is elsewhere: structures of
pointers that several operations relink by hand, loops that walk what they
relink, callbacks that run in the middle, caches that are updated step by step
instead of being computed again, and arenas whose blocks are handed out, grown
and given back in any order. Most of these run for hundreds of calls before two
fields disagree, and a serialiser that only follows `first_child` and `next`
does not show it. This project models those parts, checks them with TLC on small
instances and proves the most important ones with TLAPS for all instances.

## 1. Inventory

| part | state | operations | talks to | hard | correct means |
|---|---|---|---|---|---|
| Memory (`core/mem`, `mraw`, `dobject`, `bst`) | chunks, a free tree keyed by size, a counter | alloc, realloc, free, clean | everything allocates here | reuse, growing in place, a chunk replaced under a block | blocks never overlap; contents survive; the counter is the number of blocks |
| Containers (`array`, `array_obj`, `hash`, `avl`, `bst_map`, `shs`, `sbst`) | lengths and storage, chains, search trees | insert, remove, search, walk | DOM attributes, names, styles, parsers | rebalancing, a walk whose callback changes the tree | no entry lost, order kept |
| DOM tree (`dom/interfaces/node.c`) | five links for every node | insert, remove, replace, destroy, each plain or with the checks of the DOM standard | mutation callbacks of the style engine | partial relinking, loops over what is relinked, callbacks in between | one forest at every moment, no link to freed memory, a valid document |
| Other DOM interfaces (`element.c`, `attr.c`, `document.c`, ...) | attribute list with id and class shortcuts | set, remove, clone, import | hash, mutation callbacks | a callback that fails half way | list and shortcuts agree |
| HTML tokenizer | state function, buffer, places in it, the token begun | begin, chunk, end, clean | encoding, tree construction | tokens, references and line ends split between chunks | any split gives the tokens of the whole |
| HTML tree construction | open elements, active formatting, insertion mode, template modes, pending table text | one handler for each mode and token | DOM tree, tokenizer state | adoption agency, foster parenting, fragments | stack and list refer to nodes that exist; markers nest |
| HTML parser, serialisation, interfaces | parser state, buffers | begin, chunk, end; walk | both of the above | misuse of the order of calls | errors are sticky |
| CSS syntax | tokens with lookahead, a stack of rules | tokenize, parse rules, blocks, declarations | property parsers, log | a block that ends early, states to come back to | every block is closed once |
| CSS rules, properties, values | rules with reference counts | create, destroy, look up | style engine | a rule shared by elements | counts match uses |
| Selector parsing and matching | lists, specificity; entries, nested lists, return points | parse; find, match | CSS syntax, DOM, style engine | backtracking over combinators without recursion | the answer of the recursive definition |
| Style engine (`style/`) | for each element and property the active and the weaker declarations, a dirty mark; the stylesheets of the document | attach, remove, style attribute, insertion and removal steps | DOM events, AVL tree, selectors | incremental, any order of moves and stylesheet changes | equal to the cascade computed from scratch |
| URL | record, buffers, state of the parser | parse, set parts, serialise | encoding, IDNA | setters that stop half way | parsing the serialisation gives the record |
| Encoding | state of each decoder and encoder | decode, encode in pieces | HTML, URL | sequences split between buffers, a full buffer | any split gives the text of the whole |
| Unicode, IDNA, Punycode | buffers | normalise, map, encode labels | URL | reordering over pieces, 32-bit deltas | idempotent, inverse to each other |
| Names (`ns`, `tag`), engine, http and warc readers, ports | hash tables; wrappers; reader state | look up; read | - | - | - |
| Generated tables | data | - | - | - | out of scope |

How they interact: the tokenizer calls tree construction, which calls the DOM;
the DOM calls back "inserted", "removed", "destroyed" and attribute steps, which
drive the style engine; the style engine runs the selector matcher over the DOM
and hangs its lists on an AVL tree in each element; all of them allocate from
the arenas of the document.

PROJECT.json lists the same parts with their files and status, and under
"hazards" what is hard to test, each at its line.

## 2. What is modelled

### DOM tree: DomTree, DomForest, DomTreeRefine, MCDomTree, DomTreeProofs

*State.* `tree` has the five link fields of `struct lxb_dom_node`; `live` is the
set of allocated nodes; `code` is the last exception code; `note` is which
callbacks the last step made; `job` is the loop in progress. *Actions.* A call
that relinks one node is one action, callbacks included. `insert` of a fragment,
`replace_all_spec`, `replace_all` and `destroy_deep` loop over nodes and run a
callback inside every iteration; they set `job`, and each iteration is an action
of its own, so invariants hold between iterations too. The guards of the plain
calls (`insert_child`, ...) are what the C code leaves to its caller: a loose node
that does not contain its new parent, no child below a node that is freed alone.
`pre_insert_validity` is one operator for each of its rules. A walk along a link
is the smallest set closed under the link (`Reach`): a definition without
recursion, about which one can prove.

*DomForest* is the abstract specification: an ordered forest in which every call
is one atomic step. *DomTreeRefine* maps the links to it. While a loop runs, the
abstract forest is the one the loop is going to leave behind; so a call takes
effect at its first step and the later iterations are stutters.

*Runs.* `dom_calls`: two elements, a text and a fragment with callbacks on. Four
nodes are enough for a parent, two siblings and something below or above them,
for a fragment with two children and for a deep destruction that goes down, on
and up; the proofs below cover larger forests. It checks the types, `TreeLinked`
(the five fields describe one forest), `NoDangling`, `NotifiesMoves` (what the
callbacks report is what moved), `JobsEnd` (the loops end, although they relink
what they walk on) and `ImplementsForest`. A `replace_child` with the node it would insert
in front of is left out (`ReplaceApart`): see section 5. `dom_documents`: a document, a
doctype, two elements, a comment and a fragment under all calls that validate what they
insert, `replace_child` among them, with `DocumentsWellFormed`. Of `replace_child` one
case is left out there (`ReplaceInOrder`): an element, or a fragment with one, that
replaces what stands right behind the doctype. It goes in front of the previous sibling of
what it replaces, so it ends up in front of the doctype (section 5). The comment is there
because it may stand anywhere: before and behind the doctype, and as what is replaced.

*Fairness.* `WF_vars(JobStep)`: a loop in C goes on by itself; nothing is assumed
about callers.

### AVL tree: Avl, KeyMap, AvlProofs

*State.* Links, heights and root (`tree`), the stored values, the allocated nodes
(`live`), and the `foreach` in progress (`walk`): the type it goes on from, what
it has visited, and what has been there since it began. A node is named by its
type, which is its key. *Actions.* `Insert` and `Remove` with the rebalancing
loop, as `lexbor_avl_insert` and `lexbor_avl_rotate_for_delete` have it; `WalkStart`,
`WalkNext`, `WalkEnd`, `WalkStop` are `lexbor_avl_foreach`, whose callback may
insert and remove anything between two of them. *KeyMap* is the abstract map. A
removal from it takes along what is `tied` to the key, and in Avl a subtree is tied to a key
if the exchange of nodes would drop it (`Lost`): the code does lose it (section 5), so
a map that lost nothing would not be what it implements. KeyMap bounds the loss: the keys that
are tied to another one stand next to each other, with no other key between
them (`OneGapTied`).

*Run* `avl_tree`: seven types, two values. `SearchTree`, `WalkVisitsAll` and `WalkEnds`;
`ImplementsMap`, the refinement of KeyMap; and `BalanceKept`: an operation
leaves a tree balanced that was so, unless it is a removal that `Unsettles` it, one whose
rebalancing begins above the place where the tree has become lower. Six types are enough
for such a removal and seven for one that drops a subtree, so both cases occur in the run, and
without the exception, or with nothing tied, TLC finds the two properties violated. The
order and the links, what a walk visits, and which nodes an operation adds and takes away are
proved for any number of types (section 3). `stable` drops a node
that a removal loses: it did not stay in the tree. What a node's value is decides nothing, so
states that differ only in values are one (`Shape`). The loops of the code are
functions defined by themselves inside a LET (`Rebalance`, `Stop`, `SearchGE`, ...), so that one can
prove about them. Types stay below the
wrap of `size_t`, because a node of type SIZE_MAX makes the walk start over; the
wrap is in the model. *Fairness.* A callback returns after finitely many calls.

### Style engine: Style, MCStyle, StyleProofs, StyleCascadeProofs

*State.* For every element and property the list of declarations, the active one
first (`lxb_style_node_t` and its chain of `weak`), each with its origin and its
specificity, flags on top; the parsed style attribute (`list`), the attribute itself
(`attr`), the dirty mark, the stylesheets of the document, how often the `<style>`
element was parsed. The AVL tree is used as the map it implements. A selector is
abstracted to the elements it matches and the ancestor it needs. *Actions.*
`InsertChild` with the insertion steps it fires, `RemoveElement` with the removal
steps, `Attach`, `Detach`, `AttrSet`, `AttrEmpty` (a value without characters), `AttrRemove`. A loop of the code is a function on
`0 .. n`, what it has after so many turns; the two that go over the whole document and
treat each element for itself (`Apply`, `Unapply`) are stated for all elements at once.

*Run* `style_cascade`: two nested elements and a `<style>`, two stylesheets of the program,
rules of equal and different weight, one that needs an ancestor, one that is important,
style attributes without declarations and with the same one twice, and both a fresh and a
parsed document. `CascadeCurrent`: after any history a connected element has exactly the
declarations that a computation from scratch gives it, each as often as it is declared, and
the order of the list is that of the cascade. `DetachedInlineOnly`: nothing of a stylesheet
shows outside the document. Two elements are enough because the lists of one element never
read those of another; the second one is there for the ancestor and for the dirty marks of a
subtree. Left out of `Next`, because the code does otherwise (section 5): subtrees put
together while detached, and `append_child`.

### Memory: Arena, Bst, SizeCache, MCArena, MCBst, ArenaProofs, BstProofs

*State.* Arena: the chunks with their size and the length in use (the last one is
`mem->chunk`), the block behind each pointer that a caller holds, the blocks in the
cache, `ref_count`. A block is a chunk, the offset of its data, and the size in its
header; lengths are in units of the alignment, to which the code rounds all of
them. *Actions.* `Alloc`, `Free`, `Realloc` and `Clean`, one for each call. Realloc has the
cases of the code: `Resize` at the end of the current chunk, `Regrow` of a chunk
that holds nothing else, `GiveUp`, `Split`, and `Move`, which first widens a tail
that has no room. An allocation is an operator that returns the set of its
outcomes, because malloc may fail and equal blocks are interchangeable.

Bst is the tree in which the cache is kept: the fields of every entry, and what the last
call returned. Insertion, removal by size and by best fit are one action each; `DropLeaf`,
`Lift` and `Swap` are the ways in which `lexbor_bst_remove_by_pointer` closes the gap, and
the list of equal sizes is the fourth. The loops that go down the tree (`search`, and `while
(right->left != NULL)`) are `End` of the smallest set closed under the link they follow, so
that one can prove about them; TLC evaluates the same definition. *SizeCache* is what the
arena relies on: a bag that hands out one of the smallest blocks that suffice. Bst is shown
to implement it and Arena takes its blocks by its operator `Closest`, so the two meet in the
abstract specification and neither run multiplies the states of the other.

*Runs.* `arena`: three pointers, sizes nothing, one, two and four, chunks of five units, two
chunks. A chunk then holds up to three blocks, four fill it to the last unit, and a tail has
room, has no room, or is alone. `BlocksApart`: no two blocks share a byte, headers included,
and none leaves its chunk. `NothingLost`: every byte in use belongs to a block.
`CountCovers`: `ref_count` is never below the number of blocks held (it may be above, see
section 5; `MaxRefs` bounds it). Callers make a block in the middle of a chunk smaller only
by halving it (`Cuts`), because only then the code is right (section 5). Nobody in the
library makes one smaller. `size_tree`: six items of five sizes, one size twice, in a pool
of six: enough for an entry with two subtrees whose replacement is deep and has a subtree,
or a list of its own. States are identified up to the names of the pool's entries (`Shape`).
`SearchTree`, `NoneLost`, `ImplementsCache`; all three are proved for every pool (section
3), so the run is there to find a wrong model, not to show more.

### HTML tree construction: Formatting, MCFormatting, FormattingProofs

*State.* `tree` has the stack of open elements, the list of active formatting
elements with its markers and, for each element, its tag and the nearest element
around it that the parser may still reach (`above`). The document itself is not
kept: an element that neither list names is forgotten (`Settled`) and what was in
it counts as being in the next one around it, because nothing of the parser can
point at it again. `mode` is the insertion mode; `job` is the adoption agency
algorithm in progress, with the handler it returns to.

*Actions.* One for each token and mode that treats it in its own way: start and end
tags of formatting elements, of a and nobr (which close themselves), of blocks, of p,
of any other tag, of object (a marker) and of table (another mode, foster
parenting), and text. The adoption agency is one action for each turn of its outer loop,
so a property can speak of what a single turn does; inside a turn `Climb` goes
over the elements between the formatting element and its block (as what the loop has after so
many of them, a function on `0 .. n`, like reconstruction), `Adopt` moves nodes,
`Replaced` and `Restacked` edit the lists by the positions the code computed. What a
handler does after the algorithm returns (`Return`) is part of the last turn.

*Runs.* `formatting` goes through six vocabularies, in each through every document up to a
size of the two lists: nesting with markers, tables, the tags that close themselves, those
in a table, elements of no kind between formatting elements and a block, deep enough for more
than three of them, and `b` with `div`, deep enough for all
eight turns. The limits three, three and eight are those of the code. `VocabularyAssumption` says that the elements are enough for whatever
one handler makes out of lists of these sizes, so `Fresh` always finds one. `OpenNested`: the
stack is always a way down the document, although the algorithm relinks with primitives that
check nothing. `AtMostThreeEqual`, `AllReopened`: the list keeps its bound, and text finds
open what it should. `OnlyTheElementLeaves`: a turn takes the right entry off the list,
although its inner loop may take others off between the computation of the place and its
use. The property excepts the turns in which the loop takes one off in front of
that place: there the code removes the entry behind the right one (section 5). The vocabulary
of `b`, `i`, `div` and `span` reaches turns of both kinds, and without the exception TLC
finds the property violated.
States that differ in the numbers of the elements only, or in which of `b` and `i` is which,
are one (`Shape`). Once an entry stands where it should not, the other two
may follow: random histories with lists of ten to eighteen and six kinds of tags reach states
in which there are four equal entries, or a closed one between two that are open, which the
rewind of the reconstruction then stops short of. So these two properties of the list are
about documents of the sizes in this run. `TypeOK` and `OpenNested` are proved for
every size (section 3).

Nothing is claimed about liveness: the turns of the algorithm are counted
(`TypeOK`), and all other loops are over lists that do not change. Documents are in
no-quirks mode, tags have no attributes, so equal means of one name.

### Selector matching: Selection, Matcher, MCMatcher

*Selection* says what a selector means, by recursion over it: an element matches a
compound if it matches each simple selector of it, a combinator leads to the
elements it can lead to, `:has` looks ahead from the element, `:nth-child(of)` counts
the siblings its list matches. *Matcher* is the machine of `selectors.c`, which
does this without recursion.

*State.* `machine` has the state function (`selectors->state`), the nested matchers
(`lxb_selectors_nested_t`) with the state they return by, and the entries
(`lxb_selectors_entry_t`), doubly linked, each with the item of the selector it is for and
the element it is at. Entries and nested matchers are made once and used again for the next
element, as in the code. `left` is what `lxb_selectors_tree` has yet to come to, `found` the
calls of the callback. *Actions.* One for each call of the state function: `StateFind`,
`StateFoundCheck`, `StateNotFound`, their counterparts that go forward inside `:has`,
`StateAfterFind`, `StateAfterNot`, `StateAfterNthChild`, `StateNthChildFound`, and `Run`,
which takes the next element. Comparing a name, a class, an id or an attribute and the plain
pseudo-classes are one simple selector.

*Runs.* `matcher`: every document of three elements (four for chains) and names a and b,
under chains of up to three compounds with each combinator, compounds of several items,
`:is`, `:not` and `:nth-child` with lists of one and two in every position, `:has` with
chains, lists and functions inside, and the calls with their options (`MATCH_FIRST`, a
callback that stops, a part of the document). Three elements are enough for a first
candidate that fails, a second one that does not, and an element in between; longer chains
need the fourth. `FindsWhatMatches`: what was found is what the selector means, in order and
nothing twice. `Returns`: the call ends. `NoneRetried` leaves out selectors in which a
function has to be tried on another element, which the code does not do (section 5).
*Fairness.* `WF_vars(Next)`: the loops of `lxb_selectors_tree` and `lxb_selectors_run` go on
by themselves.

### Decoders: Encodings, DecodeBase, DecodePairs, DecodeUnicode, DecodeLong, Decode, MCDecode, DecodeProofs

*Encodings* is the reference: for each encoding the meaning of a whole text, by
the Encoding standard, as a recursive function over it. The index maps are taken as one to
one (a code is its own character) except for the codes a model says stand for
nothing and Big5's codes of two characters.

*State.* What the caller has handed over (`text`, of which the current chunk starts
at `begin`), how far the decoder has read (`at`), what it has written (`out`) and
how much more the buffer holds (`room`); `ctx` is `lxb_encoding_decode_t`, with the
union of the decoders' states as one record; `pc` is the label the code is at, and `hold` the
local variable a step takes along: a byte, or in the one-byte decoders how far their own
pointer is ahead of `*data`. *Actions.* The caller's: `Feed` a chunk, `Again` after
SMALL_BUFFER, `Finish`. The decoders' are the turns of their loops, between the labels of the C
code: `DecodeBase` has the macros they share, `DecodePairs` the decoders for one and two
bytes, `DecodeUnicode` UTF-8 and UTF-16, `DecodeLong` GB18030 and ISO-2022-JP, which
read bytes again that may have come with an earlier chunk.

*Run* `decode`: eleven decoders; for each the bytes in `MCVocabularies`, one or two of
each kind that it tells apart, all texts of them up to three to eight bytes,
cut into chunks in every way, buffers for one and two characters, replacements of
none, one and two. The lengths are two complete sequences, or one and an error whose
bytes are read again. `OutputIsPrefix`, `OutputComplete`: the output is what the whole
text means. `InChunk`: the decoder stays in its chunk, and when it returns OK or CONTINUE
it has read all of it; `*data` may then still be in front of bytes at the end that a one-byte
decoder has replaced (section 5). The example caller does not look at it then. `CallsEnd`: no caller is told
forever that its buffer is too small. `MCHands` and `MCStops` leave out the histories
in which the code is known to fail, each in section 5 with an input. *Fairness.*
`WF_vars(Next)`: a call is a plain loop over its chunk, and a caller comes back while
it is told SMALL_BUFFER (`examples/lexbor/encoding/buffer/decode/decoder.c`).

Chunks are not empty: a call without bytes sets the status to OK, and `finish` then
forgets the character that was begun (section 5). UTF-8, too, reads with a pointer of its
own, but writes it back before each return but that of an error without a replacement,
after which nothing is fed any more: there `at` is the pointer.

### HTML tokenizer: HtmlChars, HtmlTokens, TokenizerBase, TokenizerText, TokenizerTags, TokenizerRefs, TokenizerMarkup, TokenizerDoctype, Tokenizer, MCTokenizer

*HtmlTokens* is the reference: the tokens that the HTML specification makes of a text that
is there as a whole, by looking ahead in it (`Meaning`). *HtmlChars* has the characters, the
words with a meaning and the empty token, which both sides share.

*State.* What the caller gives (`text`, in a `setting`: foreign content, duplicates kept,
the element around it, a fragment), how much of it is handed over (`fed`) and read (`at`),
and whether the end has been announced (`phase`). `tkz` is `lxb_html_tokenizer_t`: the state
function and the one to return to, the buffer from `start` to `pos`, the token begun, the
places of a character reference in the buffer, the name of the last start tag, and in `out`
the tokens the callback has been given. *Actions.* `Chunk`, `End` with `EndOfFile` for the
turns it gives to the state functions, `Clean`, and one for each state function, in
TokenizerText (text, raw contents, scripts, CDATA), TokenizerTags, TokenizerRefs,
TokenizerMarkup (comments, declarations, processing instructions) and TokenizerDoctype;
TokenizerBase has the record and the macros. A step is one turn of a state function's loop.
Functions that differ only in a quote, a keyword or the content they are in are one
operator. The callback does what tree construction does to the tokenizer: it sets the state
for the contents of a raw element.

*Run* `tokenizer`: for each part all texts of up to four telling characters behind a fixed
front, so that every state function is reached and left in each of its ways, cut into chunks
in every way. Names that have a meaning are shortened to two letters and entities to two and
three, which a cut may still split; the table of numbers 128 to 159 is the real one. The
texts in `Reused` are also given to a tokenizer that `clean` has taken out of the middle of
another text. `TokensAsWhole`: whatever the cuts, the tokens are those of the reference.
Adjacent texts count as one, because the code may deliver a text in pieces. `Known` and
`MCHands` leave out the cuts and the text ends in which the code is known to do otherwise
(section 5). Chunks are not empty. Deadlock is checked, so every history can go on to its
end.

### CSS syntax: CssSyntax, CssParser, MCCssParser

*CssSyntax* is the reference: what a text of tokens means, by recursion over the grammar of
CSS Syntax: rules, blocks, declarations, `!important`. A token is its kind. A rule whose
block never comes and what is no declaration in a style attribute are kept, as the tests
want it, and so is the space at the end of a text in the value before it.

*State.* `rules` is the stack of `lxb_css_syntax_rule_t`, the last in charge, each with its
phase and its state, what it has made (`context`, `context_old`) and what the rule above it
made (`returned`), its own depth in brackets, and the flags `skip_consume`, `important`,
`failed`; `types` is the stack of closing brackets that all rules share; `pos` the next
token; `given` what the phase has just passed to the state: the token, or END in place of
one that is not the rule's business. *Actions.* One for each phase of `syntax/parser.c` and
one for each state it feeds. Of the states there are those of `css/state.c`, the preludes of
four at-rules (`@media` and others that take anything, `@font-face` that takes none,
`@namespace` whose block makes it an undefined one), a selector that is a list of types with
space between them, a property that takes one keyword, and a custom property. The
tokenizer's three functions that look ahead (for the colon behind a name, for `!important`,
for the space that ends a value) are operators on the text.

*Runs.* `css_syntax`: style attributes and stylesheets; for each part of the grammar all
texts of three to five tokens of five to seven kinds behind a fixed beginning and before a
fixed end. That is enough for a bracket in a bracket, a block in a block, a rule that any
closing bracket, semicolon or the end of the text cuts off at each place, and three
declarations in a row. `RulesAsSpecified`: what the parser makes of a text is what the
grammar makes of it. `ParseEnds`: it comes to its end. Junk behind a declaration that is
important or whose value failed at its end is left out (`KeepsFlags`) and is the finding of
the run `css_junk` (section 5). No text has `!important` inside brackets. The meaning in
this model was also compared with what the library built from this commit makes of 66,000
such texts. *Fairness.* `WF_vars(Next)`: the parser is a plain loop,
`lxb_css_syntax_parser_run`.

## 3. What is proved

*ArenaProofs*, for any sizes of header, chunk and request, any number of pointers and
chunks: `ArenaTypes` and `ArenaBlocksApart`, both under the hypothesis `Halving` about
the cuts (without it they are false, section 5). The invariant `Inv` is
`Good` of the three variables, and `Good` is stated for any chunks, cache and
pointers, so that each lemma is about one thing that happens to them: a block goes
to the cache (`GoodFreed`), an allocation leaves everybody in place (`GoodKept`), the
tail changes its size and with it the chunk (`GoodTail`, used for resizing, growing
and widening), a block is halved (`GoodHalved`). That all others end before the
header of the tail follows from their being apart from it and inside the chunk.
`AllocatedOK` says the same for every outcome of the allocator, a refused one
included, whose tail is in the cache already.

The second part goes on from `Inv`. `ArenaLosesNothing`, under `Halving`: the invariant is
`Covered`, that every byte in use lies in some block, and as the blocks are apart it is in
one only; so it is enough to show of each step that the bytes of the one block it
changes are in use no more or in a block afterwards (`CoveredRecut`, for resizing,
growing, widening and halving), and that an allocation accounts for what it adds to
the chunks (`Accounts`). `ArenaCountCovers`, for finitely many pointers: a
step that takes a block from nobody to somebody counts one up, and only one that
takes a block away counts down.

*DecodeProofs*, for any vocabularies, texts, cuts, buffers and index maps:
`DecodersReadTheirChunk` (`InChunk`) and `DecodersWriteTheirBuffer` (`TypeOK`, whose
`room \in Nat` says that nobody writes to a full buffer). `InChunk` is not inductive. Most
decoders only advance, but ISO-2022-JP steps back over a byte of a broken escape, which
is in this chunk only if no byte kept from an earlier one has been read in between; and GB18030
tells the kept bytes apart by their values. `Inv` therefore says for each label what
is known there (`Where`): that a byte is to be read at a label that reads one, that
there is room at a label that writes, that a kept byte never meets an escape that has begun
(`CtxOK`), and that GB18030 keeps no FF. One lemma for each way a step ends
(`Error`, `Write`, `LoopEnds`, ...), then one for each label of each decoder. Of the
one-byte decoders `Local` says that what lies between `*data` and their own pointer are bytes
that stand for nothing, replaced one by one (`PassedOver`); this is what a call that returns
OK may leave (`ReadFrom`).

*DomTreeProofs*, for any set of nodes, any assignment of types, with and without
callbacks, from the assumptions of DomTree only (`NULL` is no node, every node has
a type, `EventsOn` is a Boolean):

- `TypeCorrect`: `Spec => []TypeOK`.
- `LinksConsistent`: `Spec => []TreeLinked`.
- `MemorySafe`: `Spec => []NoDangling`.
- `Invariance`: `Spec => []IInv`, from which the three follow.

`TreeLinked` alone is not inductive. What a loop does next depends on what it
remembers: `insert` relinks `job.node` in front of `job.mark`, which is sound only
if the node still hangs below the fragment, the mark below the parent, and the
parent is not inside the fragment; `destroy_deep` climbs to the parent of a node
it frees, which is sound only if the node is below the root it was given and
everything it has passed is gone. `IInv` says so, one conjunct for each kind of
loop. One lemma for each link primitive (`Unlink`, `LinkLast`, `LinkBefore`,
`LinkAfter`) shows that it keeps the forest, given that the node is loose and not
above its new parent; lemmas about `Reach` give the rest (a node below a node, after
a link is cut). The step then has one case for each action.

At its end `MovesReported`, `Spec => NotifiesMoves`. It needs of the invariant that
the links are consistent (a node that is inserted is not above its new parent, so what
moves with it is what hangs below it) and that a loop's node still hangs where the loop
left it. Each step is one of three shapes: it relinks nothing, it only takes nodes out
(`LeavingReported`), or it moves one node and reports what is below it
(`MovingReported`); the actions differ in which.

*DomTreeProofs*, second part: `DocumentsKeepShape`, `SpecValidated => []DocumentsWellFormed`, where
`SpecValidated` has the calls that validate what they insert, `replace_child` with the
exception of `ReplaceInOrder`; `FiniteAssumption` (the
pool of nodes is finite) is used for `Cardinality`. The shape alone is not inductive, because a
fragment is validated once and its children are moved one by one, with callbacks
between. `DocInv` adds what is left of that validation at every iteration: the rest of
the fragment has no text and at most one element, and if it has one, the document has
none and no doctype at or behind the node in front of which it goes (`RestFits`, `Gap`);
and that a doctype hangs only below a document (`Placed`). The order of siblings is a walk
along `next`; it is total (`OrderTotal`), asymmetric (`OrderAsymmetric`), and each link
primitive changes it in one place only (`UnlinkOrder`, `LinkLastOrder`, `LinkBeforeOrder`).
`replace_child` is validated for the place of the child and inserts in front of the one before
it: what the validation says of the one place holds of the other as long as no doctype is passed
on the way, which is the exception (`ReplacedBehind`, `ReplacedGap`, `ReplaceDocInv`).

*BstProofs*, for any items, any sizes that are natural numbers, and any finite pool of
entries:

- `BstStaysSorted`: `Spec => []SearchTree`.
- `BstLosesNothing`: `Spec => []NoneLost`.
- `BstTypes`: `Spec => []TypeOK`.
- `BstIsACache`: `Spec => ImplementsCache`, the refinement of SizeCache.
- `BstInvariance`: `Spec => []IInv`, from which the four follow.

`SearchTree` is not inductive: an entry in the pool with a stale child or list would bring
it into the tree when it is used again (`Blank`), a list that two entries share would
be copied with one of them (`Listed`), and that nothing is lost needs that the reachable
entries are those handed out (`Kept`). `Good` is these, with `Filled` (an
entry has the size of its item, and no item is in two entries), stated for any tree, so
that each lemma is about one operation on it. All of `DropLeaf`, `Lift` and `Swap` are one
thing: an entry `g` below `e` leaves the tree, and its contents replace those of `e`.
`CutLinks`, `CutOrder` and `CutContents` say so without saying how, `CutGood` proves the
invariant from them once, and each case of the code only has to show that its
assignments are such a cut. That the pool is finite is used twice: a loop down a search
tree ends because the subtree below it shrinks (`LowestExists`, by the well-foundedness of
finite subsets), and `tree_length` is a `Cardinality`. For the refinement, `SearchPath` is what one knows
where a search has got to: whatever it has left behind is too small, or larger than an entry
at which it turned left. So the last of these is the best fit (`CloseIs`).

*StyleProofs*, for any elements, stylesheets, rules and style attributes:

- `StyleHides`: `Spec => []DetachedInlineOnly`.
- `StyleTypes`: `Spec => []TypeOK`.
- `StyleInvariance`: `Spec => []IInv`, from which both follow.

What an element shows depends on its active declaration, which the removal of another one
can change at any time, so `DetachedInlineOnly` is not inductive. `Hidden` is: an element
outside the document is dirty, or all its declarations, the weaker ones too, are from the
style attribute. Whatever attaches a stylesheet attaches it to connected elements, and an
insertion takes the mark away only after it has taken out what the mark covers. A call that
goes through a list is a function on `0 .. n`; that what holds before the first turn and is
kept by each holds after the last is `Climbing` (the least turn at which it failed would
have a turn before it). The elements above an element are the least set that holds it and
the parents of what it holds (`Closed`), so that a step that leaves a parent alone leaves
what is above alone. `Beside` says what the steps inside an event keep: the tree, and the
declarations and marks of what is not connected.

*StyleCascadeProofs*: `StyleCascades`, `TagUnstyled` implies `Spec => []CascadeCurrent`, for
any elements, stylesheets, rules and style attributes. `TagUnstyled` says that no rule of
the stylesheets of the `<style>` element matches that element; without it the property is
false, because an inserted `<style>` is then attached twice (section 5). *MCStyle* assumes
it too, so that TLC confirms that the instance is one of those the theorem is about.

A list *holds* a set of declarations in an order `R` (`Full`, from `Holds` and `InOrder`) if
its entries are theirs, one for each, and none stands before one it yields to in `R`. Each
loop of the code is described once, by what the lists hold before and after it, for every
order that puts the heavier first: appending adds the declarations (`ListAppendFull`,
`AttachSheetFull`, `AttachSheetsFull`), dropping takes those of the dropped entries
(`FullWithout`). The invariant `Cascades` then has three parts besides `IInv`. A connected
element holds what the cascade gives, in the order of the attached stylesheets (`Current`).
Any other element holds what its style attribute declares, and perhaps declarations of
stylesheets that may be gone by now, in the order of weights only (`Owned`): that the weak
rest is stale does not matter, since an insertion, before it attaches anything, either
clears it (`OwnedBare`) or finds it empty by `Hidden`. And `Placed`: no stylesheet is
attached twice, and one of the `<style>` element is attached just when it is the last that
was parsed and the element is a child of the document. The order changes with the
stylesheets, but not for the entries a list holds: a new stylesheet comes last and changes
nothing between entries of the others (`OrderMore`), and one that goes takes its entries
with it and leaves the rest in the order they had (`OrderLess`). At the end `HoldsCounted`
turns holding into the lengths and counts of `CascadeCurrent`.

*AvlProofs*, for any set of types, any heights that nodes have stored, and trees however far
out of balance:

- `AvlSearchTree`: `Spec => []SearchTree`.
- `AvlTypes`: `Spec => []TypeOK`.
- `AvlWalkVisitsAll`: `Spec => WalkVisitsAll`.
- `AvlNodesChange`: an insertion adds one node; a removal takes away its node and `Dropped`,
  the subtree that the exchange of nodes drops, and nothing else.
- `AvlImplementsMap`: `Spec => ImplementsMap`, without a hypothesis: what a removal takes along
  is what KeyMap has tied to the key (`LostIs`), and that is a run of neighbours
  (`DroppedGap`, `GapTied`), because a subtree lies between the bounds of its place.
- `AvlInvariance`: `Spec => []IInv`, from which the others follow.

`SearchTree` is not inductive as it is stated, because the set of nodes below another one
changes with every link. `Bounded` gives each node two numbers instead, the bounds that the
links above it leave it (`lo` and `hi`), and asks of each link only that the bounds of the
child follow from those of its parent. What is below a node is then what lies between its
bounds (`BelowWithin`, `WithinBelow`), the least and the last node of a subtree are found by
their bounds (`FirstIs`, `LastIs`, `SearchGEIs`), and an operation is described by the links and the
bounds it changes: a rotation two (`Turned`), an insertion one (`PutBelow`), a removal three
(`DetachLast`, `DetachInner`). `Shaped` is the same with the set of nodes given, and `ShapedIs`
that nothing else is in the tree, because the room between the bounds grows on the way up.

The loops are functions defined by themselves, of which the prover knows nothing but the
equation; that there is one at all has to be shown too. `LoopExists` and `LoopEnds` do so once for all
of them: a loop returns what holds at its end if a number decreases with each turn. For the
searches the number is the room between the bounds. For rebalancing that is not enough: a turn
that rotates goes on at the node that came up, from the same place in the tree, and with wrong
heights it may rotate there again. `RebalanceIs` therefore uses two numbers (`LoopEndsTwice`),
the room, which grows with each turn that goes up, and `Near`, which counts the nodes at that
place whose heights are wrong (`Stale`) and ranks what the place still needs (`SingleRank`,
`DoubleRank`). So the loop ends on every tree, whatever heights are stored. While it runs
the root may be out of date (`Rooted`); `At` says where the loop is and that the
tree is a search tree with that put right.

*FormattingProofs*, for any vocabularies and documents of any size:

- `FormattingTypes`: `Spec => []TypeOK`.
- `FormattingNested`: `Spec => []OpenNested`.

Both are from the assumptions of Formatting: the elements are a finite set that holds the
first two, neither `NULL` nor the marker is one, `NULL` is neither a tag nor a job, and there
are enough elements for a handler (`VocabularyAssumption`). Neither is inductive.
`OpenNested` speaks of neighbours on the stack, and the adoption agency takes elements
out from between them and puts them elsewhere; what is around an element is a recursion that
has a value only if the links have no cycle, which is the very thing one fears of the
primitives that check nothing. `Inv` (`Sound` of the three variables) therefore says of a tree
that it is `Good`: the links have no cycle (`Ranked`: there is a number that grows along each
link) and lead from elements that are known to elements that are (`Joined`); html is at the
bottom of the stack, nothing is on it twice, there is one table on it at most and nothing
that is open is around that table (`Stacked`); of any two elements on the stack the lower one
is around the upper one, or it is the table and the element around it is (`Nested`);
and an entry of the list is a marker or a formatting element (`Listed`). In in_body there is
no table on the stack. Besides, no handler runs out of elements: `Grown` counts
how many it has used, and `SettledIs` that after it only what the lists hold is left.

`Renewed` and `Relisted` describe what any edit of a list makes of it: which entries are the old
ones in their order, and which is new. That `Stacked` and `Listed` survive is proved once for
such an edit (`StackedRenewed`, `ListedRenewed`). Of `Around`, which is defined by itself, one
needs that it exists (`AroundEquation`), that it is the least set closed under the links
(`AroundLeast`), and what relinking one element does to it (`RankMoved`, `RankBetween`,
`LinkMoved`, `LinkBetween`). Inside a turn the tree is not `Good`: the block
has left its place and the elements between it and the formatting element are replaced one by
one. `Gapped` says what it is instead, a stack that is nested below a place and from it
on, with the two halves not yet tied to each other; `Climbed` follows that place
down the stack through `Climb`, removing (`ClimbedRemoved`) and replacing (`ClimbedReplaced`),
and `Adopted` ties the halves when the new element goes in. `RearrangeIs` and `TurnIs`
put a turn together; the rest is one lemma for each handler (`StartAKeeps`, ...).

Only model-checked: the tokenizer and the CSS parser (`TokensAsWhole` and `RulesAsSpecified`
compare them with recursive functions), liveness (`JobsEnd`, `WalkEnds`, `Returns`,
`CallsEnd`, `ParseEnds`), the refinement `ImplementsForest` (its mapping reads lists off the
links by recursion), what the decoders write (`OutputIsPrefix` and `OutputComplete` compare
it with a recursive function), `BalanceKept` of Avl (a depth is a recursion),
`OnlyTheElementLeaves` of Formatting, `AtMostThreeEqual` and `AllReopened` of the same
(these two are false of the code in larger documents, so there is no general theorem), and everything
about Matcher (Selection is recursive and Matcher follows chains by recursive functions, which
the provers cannot use as they stand).

## 4. Plan

In this order; an entry is a module, its composition, its run, what to prove.

1. *Formatting*: the template modes, the pending text of tables, and fragments, whose
   stack has only the root in it.
2. *Encoders and Punycode*: as the decoders, against the functions they compute; then the
   variants that return one character a call.
3. *CSS*: the phases for components, functions and pipes that selectors come back from, then the parsing
   of selectors with their specificity.
4. Proofs: the type of Matcher's machine, with its chains as the closed sets that Bst has
   for its loops.

There are a dozen runs, one for each question. New components take the place of
findings that a note in section 5 tells as well, or widen the instance of a run.

## 5. Where the code disagrees with its own documentation

Each was reproduced with the library built from this commit.

- `replace_child` chooses the node in front of which it inserts before it takes the
  new node out of the tree. When they are the same node, it ends up linked to
  itself (`Next` therefore leaves these calls out). And
  when the replaced child has a previous sibling, that one is chosen, so the new
  node stands one place too early; `DomForest!Replace` allows it. In a document with a
  doctype and a comment, an element that replaces the comment comes to stand in front of the
  doctype, which the validation is there to refuse (`ReplaceInOrder` leaves this out).
- `pre_insert_validity` tests the type of the parent where its comment says the
  type of the node, so an attribute node can be appended.
- `lexbor_avl_remove` drops the left subtree of a replacement that sits deeper than
  the left child: with 5, 2, 6, 1, 4, 7, 3 inserted in this order, removing 5
  loses 3 as well (`Lost`). It also rebalances from the replacement instead
  of from the place it came from, so that six types can leave it out of balance (`Unsettles`).
- Insertion below a detached element attaches the stylesheets of the document
  and a later removal of the stylesheet does not find them. `append_child` runs the
  insertion steps twice, so every declaration is attached twice, and
  a `<style>` inserted that way is parsed twice and only the second stylesheet leaves
  with it.
- An inline declaration behind an important one of a stylesheet is not shown when
  the element leaves the document (`Shown` in Style).
- `lexbor_mraw_realloc` to a smaller size in the middle of a chunk puts the header of
  the rest as far behind the data as the rest is long, not behind what is kept: it overlaps one of its neighbours. A tail that is resized to nothing
  is not taken off `ref_count`. When the memory of an empty chunk is allocated anew, a
  failure goes unnoticed; Arena takes that one malloc to succeed.
- A style attribute without declarations cannot be set again: the failing call
  frees the attribute, which stays linked in the element (`AttrSet` in Style).

- The adoption agency computes the place of the formatting element in the list before its
  inner loop, which may take entries off the list, and uses it after the loop; it
  does not move the bookmark either. With more than three elements in
  between, a later turn removes the wrong entry or none: in
  `<b><i><div><i><span><span><span><div></b>y` the `y` is in a `b` that has been closed, and in
  `<b><i><div><u><s><tt><em><div></b>x</div></div>y` the `y` is in `b`, `tt`, `em` and not in
  `s`. The assertion there, that the bookmark is inside the list, is false in ordinary
  cases as well, but its macro is empty.
- A function of a selector that refuses an element is not tried on the next element
  that its combinator leads to, as a plain selector would be. With
  `:not(.x) b`, `:is(.a) b` and `div:has(:not(.x))` elements are missed when the nearest candidate
  fails; `:nth-child(2 of b.c)` and `:nth-child(1 of .c, .d)` miscount for the same reason.
- Decoders of one-byte encodings take the byte before they look at the buffer: when it is full,
  a character is lost (koi8-r, a buffer of one, `C1 C2 C3` gives U+0430 and U+0446). Behind a byte
  that stands for nothing they do not write `*data` back: windows-1253 reads `41 D2 D2`,
  replaces both errors and returns OK with `*data` behind the `41`, so a caller that goes on
  from there reads them twice.
- Big5 codes of two characters (`88 62`) are never written to a buffer for one; the call
  returns SMALL_BUFFER forever.
- GB18030: after a wrong fourth byte the flag for the byte to be read again stays set, and
  the next sequence cut behind its third byte is read with it: `81 30 81 41 81 30 81`
  and then `30` gives FFFD 30 4E04 30 FFFD. A four-byte code that stands for nothing loses its
  replacement if that has two characters and the buffer is full (`41 FE 30 81 30`, a
  buffer of two).
- ISO-2022-JP: a complete escape at the end of the text is reported as an error (`1B 28 4A`);
  ESC after a lead byte at the end loses one; `1B 24` at the end loses the `$`; with a replacement of two
  and a full buffer the flag of the error is read as a byte (`41 1B 41 42` gives U+0001),
  and an error may be doubled (`1B 24 42 21 21 7E 7E 21 21`).
- UTF-16 and ISO-2022-JP: a call without bytes sets the status to OK, so `finish` reports
  nothing for `D8 00` or `1B 24` fed before it. The example decoder makes such a call
  when the length of its input is a multiple of 4096.
- Shift_JIS refuses the lead bytes E1 to FB (`E1 40`); the vocabulary has none of them.
- `lxb_encoding_decode_finish_single` looks at the status, which none of the `*_single`
  functions sets.
- A text that ends in `<!` gives its text once more as a comment: `x<!` is the text `x` and the comment
  `x`, not an empty one. One that ends in `<![CDATA` or a beginning of it gives an empty comment.
- What was read of a `[CDATA[` that is cut is not kept: `<![CD` and then `x>` gives the comment `x`;
  `<![CD` and then `ATA[x]>` gives in HTML content the comment `[CDATAATA[x]`. Only
  when cut is it also recognised in small letters.
- Behind a PUBLIC or SYSTEM that is cut the next character is skipped: `<!doctype html pub` and then
  `lic>text<b>` takes the text into the doctype.
- `<!doctype public public "x">` loses its public identifier, which counts as an attribute with the
  name of the first one; so does `system`.
- A style attribute in which what is no declaration follows a property without a value, as in
  `display:; x`, is parsed forever (`css_junk`). The early return in `declarations_next` leaves
  `skip_consume` set. The same return leaves `important` and `failed` set: behind `x: a !important; b` the junk `b` counts as
  important.
- `!important` is taken off a value inside brackets too (`x:(a !important; b)`), and is not recognised with
  a space behind the `!`. The space at the end of a text stays in the value.
- In a block an identifier and a colon always begin a declaration, so a nested `a:hover{}` is one.
- A qualified rule whose block never comes is kept, and so is one cut off by a semicolon.
- When a subtree is removed, only its root is told: the stylesheet of a `<style>` below the root
  stays in force. Style keeps its `<style>` directly below the document.
- The stylesheet of an inserted `<style>` is attached to every connected element and then, with all
  others, to the `<style>` itself: if one of its rules matches the `<style>`, what it declares is listed twice there.

## 6. Not modelled

The parts of section 1 without a module here, for the reason PROJECT.json gives
with each: planned, pure input and output, text layout, or data. Most of the lines of
the implementation are tables: of 585,000 about 550,000 are index maps
(`encoding/multi_res.c`, `single_res.c`), character data (`unicode/res.h`) and perfect hashes
(`html/*res.h`, tags, properties), where there is no step to model; the share of the
code that is mapped has to be read with that in mind.

Inside the modelled parts: callbacks of the DOM that fail (`insert_node` would return the
error and the loops of `insert` and `replace_child` stop half way; the model's callbacks succeed); the other insertion modes, templates, foreign content, fragments
and the form pointer of tree construction; searching, cloning and importing nodes; text as
strings; shadow roots (nothing in the library gives one a host); custom properties and the
removal of styles by name; the contents of memory blocks; allocation failure outside of the
arena (a failed insertion into the free tree only loses the block). Of the matcher:
`:nth-last-child` (the mirror of `:nth-child`), the column combinator, text nodes,
`MATCH_ROOT`, failing allocations. Of the tokenizer: failing allocations and callbacks, the
list of parse errors, positions in the source, the check of the input's encoding, tokenizers
that share their tables, and reading finished tokens (`token.c`). Of the decoders: the
variants that return one character a call, the replacement decoder (one error and the end),
detection of the encoding. Of the CSS parser: its tokenizer, comments, the log, the phases
for components, functions and pipes, `An+B`, parsers with callbacks of the caller (`blank.c`
has empty ones), all properties but one of each kind.
