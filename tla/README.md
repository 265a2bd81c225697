# A specification of cpp-peglib

cpp-peglib turns a PEG grammar into a parser. The library is one header,
`src/peglib.h`. This directory holds a TLA+ specification of its parsing engine,
of its packrat value cache, of the loader and the object that a caller parses
with, of the syntax tree, and of the algorithms that read characters; the TLC runs
that check them on small instances; and proofs: for every grammar and input, that
a parse keeps its state in order; for those without left recursion, that it returns
what the grammar derives and reports what it refuses; that the cache is a map; and that
syntax trees are linked, nested and left alone by the optimizer.

Contents: [inventory](#inventory) · [modules](#modules) · [how the engine is
modelled](#how-the-engine-is-modelled) · [the rest](#how-the-rest-is-modelled) · [runs](#runs) · [proofs](#proofs) ·
[where code and docs part](#where-code-and-docs-part) · [not
modelled](#not-modelled) · [plan](#plan)

Line numbers are those of `src/peglib.h` unless a file is named.

## Inventory

A `Definition` (a grammar rule) owns a `Holder`, which owns a tree of operators
(`Ope`). `parser` loads a grammar text with `ParserGenerator`, itself a grammar
of the same operators, and calls `Definition::parse_core` of the start rule.
That creates one `Context`, on which every operator's `parse_core` works by
recursion. There is no other thread, message or file: what makes the engine hard
is a great deal of mutable state that must be undone exactly when an attempt is
abandoned, and memos whose entries outlive the state they were computed in.

| Component | State | Operations | Hard behaviour | Correct when | Status |
|---|---|---|---|---|---|
| Parsing operators (1442-2212, 3446-3503, 3600-3753, 4150-4313) | Context: value stack, captures, cut flags, token-boundary depth, in_whitespace, recovered, position | `parse_core` of each operator, `rollback`, `skip_whitespace` | backtracking undoes partial work; nested choices share flags; whitespace recurses | result is the PEG's; every stack and flag is restored | partly |
| Rule invocation, packrat and left recursion (1200-1275, 3796-4148) | success/registered bitmaps, value cache, `active_pos`, `lr_memo`, `lr_refs_hit`, `lr_active_seeds` | `Reference::parse_dispatch`, `Holder::parse_core`, `Context::packrat`, seed growing | memo read in another context than written; re-entry; rounds must end; one seed inside another | a memo says what the rule means; no rule re-enters itself; seeds grow | partly |
| Packrat value cache (905-1000) | open-addressing table with tombstones | `find`, `insert_or_assign`, `erase`, `grow` | unbounded probe loops; slot reuse; incremental rehash | it is a map, and its loops end | modelled, proved |
| Parse entry (3334-3440) | the Context, Result, one-time initialisation of ids and filters | `Definition::parse_core` | first parse on two threads | verdict and length; Context is clean | partly |
| Grammar analyses (2438-2645, 2948-3104, 4339-4930) | flags on rules and operators: left recursion, first sets, has_cut, is_token, cached | visitors | a wrong flag only shows as a wrong parse much later | filtered alternatives would have failed; every cycle is found | partly |
| Error information and reporting (797-875, 3510-3641) | furthest error position, expected tokens, label, message | `set_error_pos`, `output_log`, `clear` | depends on who cleared what before | the report names the furthest failure, and nothing that is there | partly |
| Precedence climbing (2158-2188, 4170-4258, 6136-6175) | the operator rule's action, swapped during a parse | `parse_expression`, `apply_precedence_instruction` | nested calls share the rule; a memo hit runs no action | grouping follows levels and associativity | partly |
| Macros (1019-1026, 2861-2946, 4101-4146, 4434-4480) | argument frames | `push_args`, `FindReference` | a macro instance is a memo key of its own | an argument is looked up in the frame it came from | not modelled |
| Grammar loader (2739-2828, 4481-4581, 5372-6471) | `Data`: definitions, duplicates, instructions, captures; start rule | actions of the meta grammar, `perform_core` | order of checks; analyses with a shared cache | what loads can be parsed with and does not loop | partly |
| Dictionary and trie (449-528, 3675-3718) | trie | constructor, `match`, `parse_core` | prefixes and duplicates; choice ids | it is the choice of its words | modelled |
| Keyword guard (1459-1555, 4651-4748) | fused predicate | set up, scan | replaces a sequence | same verdict as the sequence | modelled |
| UTF-8, escapes, character classes, line positions (91-215, 252-420, 530-545, 1399-1428, 1665-1713, 1823-1967) | index of lines and a hint | pure functions | boundaries of encodings and ranges; the hint | same as the reference | modelled |
| Grammar blob (4967-5370) | bytes | `serialize`, `deserialize` | truncation; analyses repeated after a load | round trip | partly |
| Syntax tree and optimizer (6480-6655, 7004-7050) | AST nodes and their weak parents | `add_ast_action`, `optimize` | nodes shared by memo hits and by trees | links agree; tokens are kept; the input stands | modelled, proved |
| Parser front end (6790-7058) | grammar, start rule, packrat flag, tables per start rule | load, save, restore, enable, parse from any rule | sequences of calls nobody wrote a test for | what it holds is usable | partly |
| Tracing, lint, PL/0, benchmark, harness, web page, ABI probe, Rust JIT | | | callbacks, command lines, samples | | not modelled |
| Rust port (`rust-peglib/`) | its own packrat and left recursion | as above | as above | agrees with the C++ | not modelled |

How they interact: operators call operators; `Reference` calls `Holder`, which
asks `Context::packrat` for a memo and otherwise runs the body; any operator may
call `skip_whitespace`, which calls the whitespace operator, which may contain
literals that skip whitespace; the loader's analyses leave flags that the
operators read during every later parse; semantic actions and predicates run in
the middle of a parse and decide whether it backtracks.

`PROJECT.json` lists each hazard at its line, with the properties that watch it.

## Modules

| Module | What it models |
|---|---|
| `PegGrammar` | The shapes of operators and rules, and what a loaded grammar records about them. |
| `ParseContext` | `struct Context`: the variables, frames, rollback, skip_whitespace. |
| `ErrorInfo` | What a parse reports: `ErrorInfo`, `set_error_pos`, the error of a filtered alternative, `output_log`. |
| `Combinators` | `parse_core` of every operator but references: two or three actions each, one for entry and one per return from an operand. |
| `RuleCalls` | `Reference::parse_dispatch`, `Holder::parse_core`, `Context::packrat`: memo, guards, seed growing, and the rule body with its scope, action and predicate. |
| `ParseEngine` | `Definition::parse_core`: Init, leading whitespace, the end-of-input check, Next, fairness. |
| `GrammarAnalysis` | The loader's and first parse's analyses as operators on grammars: nullability, left recursion, first sets, has_cut, is_token, packrat filter. |
| `PegSemantics` | The abstract specification: what an expression denotes at a position, with no memo, no stack, no rollback. Left recursion by iterating a bound. |
| `ParseSafety` | The properties of a parse's own state: types, bounds, balance, re-entry, memos written once, seeds that grow, reports. |
| `ParseProps` | The properties that compare a parse with the denotation. |
| `ParseInvariant` | The inductive invariant of the engine. |
| `ParseStackProofs`, `ParseRuleProofs` | The proofs about the engine: the stack and the input; the rules in progress, seeds and memos, the context. |
| `PegDerivation` | The other abstract specification: inference rules for what an expression matches, without recursion, so that one can prove about it. |
| `PegAnalysis` | What a grammar must be like for the theorems on what a parse returns and reports: sets and ranks closed under its operators. |
| `PegProofs` | The inference rules give each expression one result at each position. |
| `ParseMeaning`, `ParseMeaningProofs` | What each frame and memo has established in terms of the derivation; that a parse returns what is derived. |
| `ParseErrors`, `ParseErrorProofs` | What holds of the error record at every step; that it names nothing that is there, and that a failure is reported. |
| `MemoStore` | The abstract specification of the cache: a map. |
| `PackratCache` | `class PackratCache`, one action per operation and one per rehashed slot. |
| `PackratCacheProps` | Its invariants, its inductive invariant, and the refinement mapping to `MemoStore`. |
| `PackratCacheProofs` | The proofs about the cache. |
| `Utf8` | Encoding and decoding of code points, escapes, `line_info` and `Context::line_info`. |
| `CharacterClass` | `CharacterClass`, `Character`, `AnyCharacter`, the repetition over a bitset and the one it replaces, predefined and complemented classes. |
| `Characters`, `CharacterProofs` | What is relied on of them, with the loop of `Repetition::parse_core` run step by step; the proofs. |
| `Dictionary` | `Trie` and `Dictionary::parse_core`. |
| `KeywordGuard` | The sequence `!Keyword <identifier>`: its operators, and the fused scan with the conditions under which it is set up. |
| `Precedence` | `PrecedenceClimbing::parse_expression`, with the action of the operator rule that nested calls replace, and the grouping that the levels define. |
| `TreeParse` | A parse with `enable_ast`, operator by operator: its nodes on a heap, `add_ast_action`, memo hits that hand out nodes again. |
| `SyntaxTree` | What a caller does with the tree: `optimize_ast`, and `AstOptimizer::optimize` call by call, with its properties. |
| `SyntaxTreeProofs` | Its inductive invariant, and the proofs. |
| `GrammarLoad` | `ParserGenerator`: the meta grammar's actions, the loop analysis, `perform_core`. |
| `GrammarBlob` | `GrammarBlob::serialize` and `deserialize`. |
| `ParserObject` | `class parser`: what its calls change, in any order. |
| `FrontEndProps` | What a caller of it relies on, and whether a parse ends. |
| `MC*` | Constants for TLC: grammars, texts, inputs, keys; `MCOperators` also states what the fast paths must agree with. |

`ParseSafety` = `ParseEngine` (`RuleCalls` (`Combinators` (`ErrorInfo`
(`ParseContext` (`PegGrammar`))))) and the properties that need no denotation;
`ParseProps` = `ParseSafety` + `PegSemantics`; the MC modules add `GrammarAnalysis`.
`PegSemantics` and `GrammarAnalysis` are recursive, so the proofs extend
`ParseSafety`, by `ParseInvariant`, and never `ParseProps`. `ParseErrors`
(`ParseMeaning` (`ParseInvariant`, `PegAnalysis` (`PegDerivation` (`PegGrammar`)))).
`MCErrors` works out, for TLC, the sets and ranks that `PegAnalysis` asks for.
`PackratCacheProps` = `PackratCache` + `INSTANCE MemoStore`.
`FrontEndProps` = `ParserObject` (`GrammarBlob` (`GrammarLoad` (`GrammarAnalysis`
(`ParseContext`)))): the loader uses the analyses that the engine's runs use.
`SyntaxTreeProofs` (`SyntaxTree` (`TreeParse` (`PegGrammar`))); `MCSyntaxTree` adds
`GrammarAnalysis`, for what is memoized. `KeywordGuard`
(`Dictionary` (`CharacterClass` (`Utf8`))), `Characters` (`CharacterClass`) and
`Precedence` stand alone; `MCOperators` takes them all. `CharacterClass` and `Utf8` are
written without recursion, so that `CharacterProofs` can extend them.

A few operators are commented "a mutant of ...". They are plausible mistakes in
the code (a capture not restored, a seed not deactivated, a probe from the wrong
slot); putting one in place of the definition it stands before makes TLC find
the property it is paired with, in `PROJECT.json`, violated. No specification
uses them.

## How the engine is modelled

**The call stack is a variable.** The C++ recurses. The model keeps the calls in
progress in `frames`, each with its operator, its position and its locals, and
`ctl` says whether an operator is about to be called or a length is being
returned. One action runs from one such point to the next, with everything the
code does in between: a choice that abandons an alternative rolls back, clears
the cut flag and calls the next alternative in one step.

| Code | Model |
|---|---|
| `value_stack`, `SemanticValues` | `scopes`: vals, tokens, choice of each scope |
| `capture_entries`, `cut_stack`, `in_token_boundary_count`, `in_whitespace`, `recovered` | same names |
| `cache_registered`, `cache_success`, `cache_len`, the value cache | `memo`: NoMemo, Failed, or a length and a value |
| `active_pos`, `lr_memo`, `lr_refs_hit`, `lr_active_seeds` | same names |
| `error_info`, the calls of `log` and `error_reporter` | `error_info`, `reports` |
| `log` taken away during a recovery | `LoggingIn(frames)`: no recovery in progress |
| `rule_stack` | the "body" frames |
| locals of `Holder::parse_core` | fields `save` and `seed` of a "rule" frame |
| `static_cast<size_t>(-1)` | `Fail` |

`memo` stands for the map the value cache is; `PackratCache` shows, by
refinement, that it is one.

**Data.** The input is a sequence of one-letter strings, literals and character
classes are sets or sequences of them. A rule's action is recorded by the fact
that it ran: its value is the rule, the position, the length and the values it
was given, so that a lost, repeated or misplaced value shows. A predicate is the
set of texts it rejects. A message is known by the rule it belongs to. An expected
token is a literal or a rule; the code compares literals by address, so that two
equal ones may be listed twice, the model lists them once.

**The constants.** `Jobs` is the set of parses, each a grammar, an input and the
modes packrat and log. `Nodes[gr]` is the set of operators grammar `gr` is made
of; `JobsAssumption` asks that it is closed (`WellFormed`: an operand, a rule's
body, the start rule and every rule referred to are there), which the loader
checks of a grammar text (`ReferenceChecker`), and that inputs
are sequences. In the runs `Nodes` is `Owned(gr)`, collected from the grammar,
and TLC evaluates the assumption in each of them.

**Analyses.** A grammar is given to the model as a text would be. `Loaded` adds
what the loader and the first parse add; `Built` adds only what the first parse
adds, for a grammar put together from combinators in C++, for which left
recursion is not detected and first sets are not computed. There are no recoveries in
such a grammar (their operand must be a `Reference`, 4263), and its rules have names. With packrat
parsing the first parse sets up the filter, which asks of elements whether they can be
empty; `ComputeCanBeEmpty` follows the rules of a built grammar into their bodies (2394), without a
guard, and of a left-recursive one it does not come back. `WalksEnd` says which grammars that leaves;
the jobs of the others are without packrat parsing (`PackratBuilt`).

## How the rest is modelled

**The fast paths** (`Utf8`, `CharacterClass`, `Dictionary`, `KeywordGuard`,
`Precedence`) are functions: a text is a sequence of bytes, 0 to 255, and a
function gives a length or `Fail`, as `parse_core` does. `Characters` has two
variables: a sample, which no step changes, and the loop of a repetition, which turns once
a step; `MCOperators` adds samples for the others. Each property compares a function with what it replaces, or
with a definition that has nothing to do with how the code computes it. `Precedence`
threads its state (the `tok` of each call, on a stack, and whether the operator
has been memoized) through the climbing loop, since nested calls write to it.

**The syntax tree** is a heap: a node is its index, its parent an index or
`Nobody`. Every `make_shared` appends, also of nodes that an abandoned alternative made.
`TreeParse` runs the grammar in small steps over `frames` and `ctl`, as the engine does, but
frames keep only what a tree is made of (length, values, tokens); it is the
engine for grammars without left recursion, whitespace and cuts. It is not the
engine's module because values there record what ran, and here they are shared nodes
that a later step changes: an adoption (6648) writes to nodes made before, and a memo
hit hands out a node that may hang in an abandoned one.

`optimize` calls itself. `calls` holds the calls in progress: one that awaits its only
kid, or one that fills its copy; `doing` is the next call or the node returned.
`Await` and `Collapse` are the two halves of lines 6592-6602, `Copy` and `Fill` those of
6605-6612. `Collapse` copies the child with its nodes, adopts them, and releases the child,
whose last reference goes when the call returns: its nodes are emptied and its
parent is `Gone`. `optimize_ast` applies the optimizer to any tree held, so also to its own
results, in both modes; `asked.given` is how many nodes there were.

**A grammar text** is the sequence of its definitions, as the meta grammar has
read them: `Def`, instructions, and the rules the user provides. Syntax is left out,
state is not: `Read` runs the actions in their order over `Data`, `perform_core`
makes every check in its order and gives the rules or the reasons for refusing.

**A blob** is a sequence of items; each of `Reader`'s calls takes one or throws.

**`class parser`** is one variable per member, and two for what parses leave in
the rules: `ids` (`Definition::id`) and `tables` (`definition_ids_` and
`packrat_index_` of each start rule). `Careless` says what the caller does:
`FALSE` is a caller that parses from the start rule, asks for rules that exist
and reads damaged blobs only into an empty parser; `TRUE` one that does anything.

## Runs

| Run | Shows |
|---|---|
| `parse` | The grammars of `MCParse` without a log and those of `MCErrors` with one, loaded and built, every input up to 3 bytes, packrat on and off. **TypeOK**; **InsideInput**: nothing is matched past the end; **Balanced**: stacks and flags are exactly those of the frames in progress; **ResultIsPEG**: verdict, length, recovery flag and values are the denotation's; **MemoIsPEG**: what is memoized is what the rule means there; **FurthestFailure**: the recorded position is that of the furthest failure of the denotation, memo hits, predicates and recoveries notwithstanding (with first sets: never beyond it); **ExpectedIsAbsent**: no literal named as expected matches there; **FailureReported**: a parse that fails or recovers says so; **ParsedOnce**: no memoized rule is parsed twice at a position; **Returns**. |
| `left_recursion` | Left-recursive grammars (direct, indirect, mutual, nullable prefix, doubly recursive, two levels), loaded, with and without packrat parsing, and built from combinators, without it; and two texts whose recursion the analysis does not see, with and without it. Balanced; **NoReentry**: no rule runs inside itself at one position; **DetectedIsPEG**: where the recursion was detected, the result is the denotation's (what the others should match is defined nowhere); **SeedsGrow**: rounds get strictly longer; Returns. |
| `packrat_cache` | TypeOK; **ProbesEnd**: each probe loop has a slot to stop at; **Reachable**: no empty slot in front of an entry; **Unique**: no key twice; **ImplementsStore**: it is a map. |
| `operators` | **CodePointsAreRead**: decode, `.`, a character and the column count agree on every boundary; **LinesAndColumns**: both ways to compute a position, with any hint left behind, give what a reader counts; **SpanIsRepetition**: the scan over a bitset ends where the loop that it replaces does; **ComplementIsNegation**: `[\D]` is `[^\d]`; **DictionaryIsChoice**: a dictionary matches its longest word, unless a word goes on behind it, and so what its words as a choice would where they are made of word characters; **ChoiceIsWordInOrder**: its choice number is the word's; **GuardIsSequence**; **EscapesStandAlone**: a literal is what its escapes stand for one by one; **PrecedenceGroups**. |
| `syntax_tree` | **TreesLinked**: a node's children have it as their parent; **ExtentsNest**: children lie in their parent, in order; **OptimizeKeeps**: tokens and exempt nodes survive, and no chain is left that should be collapsed; **OriginalStands**: nothing that existed is changed. |
| `front_end` | **HeldIsUsable**: every reference of a grammar held leads to a rule with a body; **RestoredIsSaved**: a whole blob gives back bodies, filters, flags and start rule; **DamagedIsRefused**: a blob cut short between items does not load; **CapturesAreOwn**: where packrat parsing is allowed, what a rule matches does not depend on earlier captures, nor on which of the rules below it are answered from the memo, which leaves none (rules that capture the name on some ways only, or below, left out); **SlotsAreDistinct**: rules have ids and memo slots of their own; **SimpleEnds**: a grammar that was accepted and is within what the analysis can see (no recursion, cut, back reference or nested unbounded repetition) parses every input to an end; **LoopsAreReal**: none is refused for a loop without a repetition that could. |
| `packrat_tokens`, `growing_stale`, `filter_unsafe`, `silent_failure`, `start_rules`, `endless_grammar` | Violations, see below. |

**Bounds.**
`MaxInput` = 3: the inputs are all strings of up to three bytes of each
grammar's alphabet. Each grammar is written so that its interesting cases need
no more: two alternatives that share a prefix and fail at its end, a cut and
what it commits, a recovery and what follows it, two rounds of growing and the
one that ends them. The mutants, each of which one of the runs kills, show that
these cases occur. Expressions are not enumerated; the grammars are a choice,
each with its hazard in the comment above it.
`MaxText` = 3 (4 for keywords) with `Scalars` on both sides of each boundary of
the encoding and of the range that is left out of it; dictionaries of up to three
words of up to two letters, with no `%word`, one that all words match and one that some do not, up to three operators at up to three levels.
`MaxOptimize` = 2: a tree, its optimized tree, and that one's or another of the
first one's. `Texts`: about fifty texts with one feature each, nine of them about captures, and a repetition in
three places of each of 210 operands that may match nothing; `Inputs` for them of
up to two bytes, enough to go round a loop and leave it.
`Keys` = 3 with two keys that collide in every table, two values,
`InitialCapacity` = 2, `MaxCapacity` = 8: a table with no entries is allocated,
filled to its load limit with entries and with tombstones, grown twice and
wrapped around; eight slots hold three entries and three tombstones. The code
starts at 1024, doubled until it holds the entries expected, and has no upper bound; the proofs hold for any initial
capacity of at least two and do not use `MaxCapacity`'s value.

**Fairness.** `FairSpec` is weak fairness of the engine's step: a parse runs on
its caller's thread and nothing in it waits. It is used for Returns alone.
`SeedsGrow` is an action property and needs none.

**Deadlock** is checked in every run but `syntax_tree`, whose caller stops when it
has optimized `MaxOptimize` times or the input did not match. A finished parse
stutters (`Idle`); the cache can always be asked to find, a parser to load.

## Proofs

### The engine's state

`ParseStackProofs` and `ParseRuleProofs`, for every set of
`Jobs`: any number of rules, any expressions, inputs of any length, packrat on or
off, with a log or without. They do not assume that left recursion was detected,
that first sets are right or that a repetition consumes anything; they assume
`JobsAssumption` alone.

| Theorem | States |
|---|---|
| `FramesAlwaysOK` | `Spec => []FramesOK`: the shape of the stack and of the memos |
| `InsideInputAlways` | `Spec => []InsideInput` |
| `RulesAlwaysOK` | `Spec => [](FramesOK /\ RulesOK)`: the guards of the rules in progress |
| `NoReentryAlways` | `Spec => []NoReentry` |
| `Invariant` | `Spec => []IInv` |
| `TypesAlwaysOK` | `Spec => []TypeOK` |
| `BalancedAlways` | `Spec => []Balanced` |
| `SeedsAlwaysGrow` | `Spec => SeedsGrow` |
| `ParsedOnceAlways` | `Spec => ParsedOnce` |

None of the properties is inductive. What a step does depends on the frame below
the one it ends, and on memos written long before. `IInv` has three parts, each
proved by one lemma per operator, and each resting on the one before:

- `FramesOK`. `StackOK`: every frame belongs to an operator of the grammar
  (`HasOperator`), stands inside the input, and was called where the one below it
  stands; positions never decrease up the stack; `MemosOK`: what is memoized for
  a position fits after it. A memo hit, a seed or a returned length therefore
  fits where the caller stands, however deep the stack: `InsideInput`.
- `RulesOK`, over `InProgress`, the rules being parsed. `Refused`: what would
  refuse a rule that is being parsed is in place until its call ends: for a
  left-recursive rule its seed in `lr_memo`, which a round of growing must not
  forget although it forgets others; without packrat parsing the failure
  registered in `lr_memo`; for a rule with a cache slot the failure registered in
  the memo, and for one without a slot `active_pos`. That one is the difficult
  case: one position per rule, overwritten by a nested call. `Latest` says that it
  is the position of the latest of the rule's calls, and that each call's `save` is
  that of the ones below it; positions do not decrease, so a call at a position in
  progress is at the latest of them, and is refused. Hence `NoReentry`. The
  converse, that no guard is left without a call that owns it, gives `Balanced`
  its last two parts.
- `ContextOK`. `Balances`: cut flags, token boundaries, the whitespace flag and
  the scopes are as many as the frames in progress owe (`Owes`). The argument is
  on the cardinality of the frames that owe (`OwedPushed`, `OwedPopped`,
  `OwedReplaced`): whatever way an operator returns, it takes back as much as its
  frame owed. So `in_token_boundary_count`, unsigned in the code, never passes
  zero, and whitespace never runs inside itself.

The two action properties need what is known of the rules in progress. `SeedsOK`:
a growing rule's entry in `lr_memo` is the seed that its own frame holds, although
rounds of other rules, at the same position, forget and rewrite entries in between.
Then a round that goes on has matched more than that entry (`GrowLonger`), and
every other step leaves the entries of growing rules alone: `SeedsGrow`.
`ParsedOnce`: a miss registers its failure only where nothing is memoized, and a return
or a round writes only the entry of its own call, which is in progress until then; so what
a call that is over has memoized stays, and every later one finds it.

### What a parse returns

`PegSemantics` is recursive, and nothing can be proved of it. `PegDerivation` says
the same by inference: `Closed(L, R, S)` has one clause per operator, `R` being
results and `S` how far sequences and repetitions have come; `Derived` is what is
in every closed pair. A failure is a result like a length, so that predicates and
ordered choice need no negation. It covers the operators without cuts, recovery,
back references and left recursion.

| Theorem | States |
|---|---|
| `OneResult` | No expression derives two results at a position, left-recursive or not |
| `EveryResult` | Without left recursion and endless repetition it derives one |
| `ReturnsDerivedAlways` | `Spec => [](Covered /\ Done => ReturnsDerived)`: a parse returns the verdict and length derived for the start rule, and no other is derivable |
| `AnalysedDerivedAlways` | The same under `Analysed` |
| `NeverReentersAlways` | `Spec => [](Covered => ~Reenters)`: the re-entry guards refuse nothing |
| `MemoMeansAlways` | `Spec => [](\A at, rank : Covers(at, rank) => MemosMean(at))` |

*The hypotheses.* `Covered` asks for environments `at` in which each operator may be
called (inside a token boundary, inside whitespace) and a `rank` such that: the
operators are those of `PegDerivation` (`Classical`); an alternative that a first
set filters out derives a failure (`FilterSound`); a memoized rule derives the same
in every environment it is called in (`MemoSound`); and an operator ranks above what
it calls where it stands (`Descends`). `Analysed` asks the same of the grammar
alone: `N` has what may match nothing, `F` what a match starts with, both closed under the
operators; calls in one place go down in rank; no endless repetition of something in
`N`; first sets hold `F`; a rule with a slot is called in one environment
(`OneEnvironment`, unless packrat parsing is off). `AnalysedIsCovered` derives one
from the other, by induction on derivations. No hypothesis is there to get the proof
through: runs `filter_unsafe` and `packrat_tokens` show what happens without the
second and the third, and without the last the guards decide, and what a parse should match is
defined nowhere. TLC evaluates `AnalysableAssumption` (`MCErrors`): the analyses
exist for seven grammars of the runs, loaded and built, with predicates, tokens,
whitespace, keywords, `%no_whitespace` and nested choices among them.

*The argument.* `Meaning` is inductive with `IInv`. `StackMeans`: each frame has
established of its operator what its locals say (a sequence's operands so far are
derived, a choice's earlier alternatives derive failures); `ControlMeans`: what
returns is derived for the operator awaited; `MemosMean`: an entry of the memo is the
failure registered for a call in progress, or derived. A call never meets the former:
positions do not decrease up the stack, and by `Descends` the calls at one position go down
in rank, so that no rule is called where it is being parsed (`NeverReenters`). Each
return of each operator is then one rule of inference, and at the end of the
parse the result is `Derivable`; `OneResult` makes it the only one. Derivations are
induced on by exhibiting a closed pair (`DerivedLeast`), and `EveryResult` by a
least counterexample, in the rest of the input and then in rank (`WFMin`), since
the induction theorems of the library cannot be used here.

### What a parse reports

| Theorem | States |
|---|---|
| `ExpectedAbsentAlways` | `Spec => []((\E W : NamesLiterals(Here, W)) => ExpectedIsAbsent)` |
| `FailureReportedAlways` | `Spec /\ []~Reenters => [](Tells(Here) => FailureReported)` |
| `CoveredReportedAlways` | `Spec => [](Covered /\ Tells(Here) => FailureReported)` |

`ExpectedAbsentAlways` is of every grammar, left-recursive, with cuts, captures and
recoveries, but for one thing the code does: a failing character records the token
of the rule it stands in, also if the token matched and it is the whitespace behind it
that fails. `NamesLiterals` asks that a rule known by a token runs nothing else that
records a failure: `W` has literals, spans, and what is made of them. Of the proof,
`Recording`: the record is well formed, snapshots of captures nest, so that a back
reference finds a text, and a choice is at one of its alternatives; `ErrorsHold`:
all literals expected are absent where the record points, and inside such a
rule only operators of `W` run. Each way to record keeps it (`Says`): a literal is
recorded where it was looked for in vain, and the list is emptied when the position moves on.

`FailureReported` rests on `Telling`: whenever a failure is on its way to its caller,
or is in the memo of a rule no longer in progress, something has been recorded, and what is
recorded is not forgotten before the end. `Tells` names the ways the code has to
fail without a word: a predicate without a message, a choice whose alternatives
are all filtered out namelessly (run `silent_failure`), a choice of nothing. A
refused re-entry is the fourth, hence `~Reenters`, which holds of `Covered` grammars.
Recoveries (`ErrorInfo::clear` in the middle) and left recursion (a refused or
forgotten seed) stay with TLC. `NamingAssumption` (`MCErrors`): all grammars that are
parsed with a log satisfy `NamesLiterals`, and all but one of the analysed ones `Tells`.

### The cache

`PackratCacheProofs`, for every set of keys, every hash function `Mix`, every
set of values, every initial capacity of at least two and every limit
(`CacheAssumption` of `PackratCache`):

| Theorem | States |
|---|---|
| `TypeCorrect` | `Spec => []TypeOK` |
| `ProbesEndAlways` | `Spec => []ProbesEnd` |
| `ReachableAlways` | `Spec => []Reachable` |
| `UniqueAlways` | `Spec => []Unique` |
| `Refinement` | `Spec => ImplementsStore`: the table implements the map |

The argument. `Reachable` alone is not inductive: an insertion into a full
table, or a rehash, could break it. `IInv` adds

- `LoadBounded`: `used_` is the number of slots that are not empty, and stays
  under three quarters of the capacity, because `insert_or_assign` grows first.
  Hence an empty slot exists (a cardinality argument), and by well-founded
  minimality on the probe distance every probe path has a first slot at which
  it stops (`FirstExists`, `ProbeStops`): this is ProbesEnd, and it is what makes
  the slot chosen by an insertion exist at all.
- `Moved` and `OldUnique`: while `grow` runs, what is in the new table came from
  the slots already passed of an old table without duplicates. So a rehash never
  meets its own key, and Unique survives it.
- `Sizes`: the new table is twice the old one, and holds at most as many entries
  as slots were passed, so that it has an empty slot at every step of the rehash.

`InitIInv` and `Invariant` establish `IInv` with one step per action. For
`Refinement`, `Contents` reads a key from the new table and, while growing, from
the part of the old table still to be moved; by Reachable and Unique the probe's
slot is the only one that can hold the key, so that each operation is `MemoStore`'s
and each rehashed slot a stutter.

### The syntax tree

`SyntaxTreeProofs`, for every set of `Jobs` (any rules, inputs of any length, packrat or not) and every
`MaxOptimize`; nothing is assumed of the grammars, and an operator that `TreeParse` does not
step through stops the parse:

| Theorem | States |
|---|---|
| `TreeInvariant` | `Spec => []IInv` |
| `TreesAreLinked` | `Spec => []TreesLinked` |
| `ExtentsAreNested` | `Spec => []ExtentsNest` |
| `NoChainIsLeft` | `Spec => []ChainsGone` (a part of `OptimizeKeeps`) |
| `OriginalsStand` | `Spec => OriginalStands` |

None of the invariants is inductive: `TreesLinked` says nothing of a tree that is being
made, and the links of a node are written long after it is. `IInv` has, besides the properties,

- `HeapOK`: a node's kids are nodes, and the text of every node ever made holds
  their texts in order (`Nested`), those of abandoned alternatives included, since a memo hit may
  bring them back.
- `ParseOK`, until the caller has its tree. `StackOK`: what a frame or a return holds lies within
  what it has consumed, in order; what the memo has gave the text it was memoized with.
  So an adoption nests. `Loose`, without packrat parsing: every pending node has no
  parent and is pending in one place only, so that an adoption takes no kid from
  another node, and whatever has kids is their parent. With packrat parsing it is false, and so is
  `TreesLinked` of the tree of a parse.
- `OptimizeOK`, while `optimize` works. `CallsOK`: each call is at the kid of the original
  that its caller is at, and has copied the kids before it, whose texts are `Within` theirs;
  copies are made in the order of the calls. `DoingOK`: what is returned is such a
  copy, with the parent it was asked to have. `FreshOK`: what this optimization made holds
  only what it made; a copy still being filled, or returned, is held by nobody, and every
  one that is done cannot be collapsed. So a `Collapse` takes the kids of a
  node that nobody else holds, and the node that it releases is not missed.

A step of the optimizer writes to three nodes at most: the copy it makes, the child
that it replaces, the kids it adopts. All are later than `asked.given`: that is `OriginalStands`,
and with it every tree held before keeps its links. TLC checked `IInv` with the
configuration of `syntax_tree` before it was proved.

### Characters

`CharacterProofs`, for every set of code points, of texts behind them and of repetitions;
assumed of a class is that the ends of its ranges are numbers, of a text that it is one of bytes:

| Theorem | States |
|---|---|
| `CharactersAreRead` | `Spec => []CodePointsAreRead` |
| `ComplementsNegate` | `Spec => []ComplementIsNegation` |
| `LoopIsKept` | `Spec => []LoopInvariant` |
| `SpansAreRepetitions` | `Spec => []SpanIsRepetition` |

- `CharactersAreRead`: a code point is its digits of six bits (`OfTwoDigits` to
  `OfFourDigits`), each byte of the encoding is a mark and a digit (`Marked`), and the first
  byte's mark is that of the length. So decoding puts the same digits together, and two code
  points with the same bytes are the same.
- `ComplementsNegate`: the ranges of every predefined class are in order and apart
  (`TwoRanges` to `FourRanges`), so that a code point in none of them is in a gap: the one
  before the first range that begins behind it, or the one after the last.
- `SpansAreRepetitions`: `SpanIsRepetition` is about a loop that has ended, and says nothing
  of one on its way. `LoopInvariant` adds that as many bytes as rounds have been
  consumed, each of them in the bitset, no more than the upper bound. That a
  round is one byte needs the text to be UTF-8: of a byte above 127 both the class and the bitset refuse
  the code point that it begins, and in the middle of one the loop never stands. `OneCase` is
  what the two ways to fold case need to agree; the proof attempt showed
  that it has to include the ends of a range in which nothing lies.

### Only model-checked

- `ResultIsPEG`, `MemoIsPEG`, `DetectedIsPEG` and `FurthestFailure` compare a parse with
  `PegSemantics`, which is recursive. What the theorems say instead, of
  `PegDerivation`, leaves out values, cuts, recoveries, back references and left
  recursion, which these cover; on the instances of the run the two specifications agree,
  since the parse agrees with each.
- `Returns` is liveness. Proved of it: no rule is inside itself where it stands
  (`NoReentryAlways`), seeds grow (`SeedsAlwaysGrow`), and in a classical grammar each
  operator has a result (`EveryResult`).
- That `Loaded` computes an `Analysis` for every grammar it should: `GrammarAnalysis` is
  recursive. TLC evaluates it for the grammars of the runs.
- `OptimizeKeeps` compares the leaves of two trees, in preorder: a recursive definition.
- The other properties of `operators` (`LinesAndColumns`, `EscapesStandAlone`, `DictionaryIsChoice`,
  `ChoiceIsWordInOrder`, `GuardIsSequence`, `PrecedenceGroups`) are about what recursive definitions
  compute.
- The properties of `front_end` are of grammars that `GrammarLoad` reads and `GrammarBlob` reads back,
  both by recursion over texts and items.

## Where code and docs part

Each of the first six has a run that shows it.

1. `packrat_tokens`. With packrat parsing a rule is memoized by rule and position
   (1246). Inside a token boundary the whitespace after it is not skipped, outside
   it is. `S <- <A> 'x' / A 'y'`, `A <- 'a'`, `%whitespace <- [ ]*` refuses
   `"a y"` with packrat parsing and accepts it without.
2. `growing_stale`. A left-recursive rule that finished growing keeps its
   `lr_memo` entry, which a later round of another rule's growth reads although
   the seed it depended on has changed: `A <- &A C / 'a'`, `C <- A 'b'` does not
   match `"abb"`.
3. `filter_unsafe`. A rule met again within its own first set adds nothing and
   is not marked nullable (4592): in `S <- B 'x' / 'q'`, `B <- B 'c' / ''` the
   first alternative is skipped on `"cx"`.
4. `silent_failure`. An alternative that is filtered out records what it expected
   only if its first set names a literal or a token rule (1608); the first set of a
   nested choice names nothing (1570). `E <- E 'b' T / T`,
   `T <- 'a' / 'x' E 'y'` refuses `"b"` without a report. For the same reason the
   position reported need not be the furthest, as `README.md:758` says it is:
   `S <- 'a'? (&X 'b' / 'd')`, `X <- [c] 'd'` on `"ace"` reports the first
   position after `a`. FurthestFailure claims equality only without first sets.

5. `start_rules`. `Definition::id` belongs to a rule, `definition_ids_` and the
   packrat index to the rule that is parsed from. A parse from another rule
   renumbers the rules it reaches; the first one's tables stay. In
   `S <- R 'a' / R 'b'`, `R <- T`, `T <- 'a'`, `S` and `R` then share id 0, and with
   packrat parsing `"ab"` is refused where it was accepted before.
6. `endless_grammar`. The analysis asks of a repetition's operand whether it can be
   empty, and does not look below it; `S <- (('a'*)* 'b')*` is accepted, and a parse
   of `""` never ends. `S <- 'b' ('a' / ↑)* 'b'` and `S <- 'a' S* / ''` likewise.

Met while reading, and not shown by a run of their own:

- `load_blob` stores the start rule's name before the rest is read (5299): after a
  blob that does not load, a parser that held a grammar still says it has one,
  and its next parse fails.
- `parser["Typo"]` makes an empty rule (6953), and a blob saved after that cannot be
  read back.
- A blob saved without packrat parsing makes a later `enable_packrat_parsing()` do
  nothing (6860).
- Lowering a list to precedence climbing drops what stands after it (6139):
  `E <- A (OP A)* '!' { precedence ... }` accepts `1+2` and refuses `1+2!`.
- With packrat parsing, an operator rule that was memoized before the list reaches
  it gives no token (4199), and the list ends there.
- `README.md:540` calls the first entry of a precedence table the highest level; the
  code gives it the lowest, 1 (6080), which is what binds least.
- `[A-z]i` as a span accepts `[`, as a class it does not: the bitset folds each byte,
  the class the ends of its range (1893, 1907); `[a-Z]i`, in order only when folded, is
  empty as a span and the letters as a class. A negated class accepts a byte that
  begins no code point with length 0, and a repetition of it never ends (1859).
- A numeric escape reads digits as long as there are any, so that `'\x41B'` is one
  character (276); `README.md:22` and the meta grammar (5548) give it a fixed number.
- The keyword guard does not look at the bounds of the identifier's repetition, and
  does not check the word behind a keyword when there is no `%word`.
- A dictionary in which a word stands behind one that it begins gives the other's
  number as its choice (467), against `README.md:430` and `README.md:442`.
- With packrat parsing, a node of the tree that an abandoned alternative had adopted
  points to a parent that is gone: `S <- A 'x' / &(B) A 'y'`, `A <- N`, `B <- N`,
  `N <- <'a'>` on `"ay"`.
- The column of a value or a node counts bytes (1427), that of an error code points
  (543).
- Packrat parsing is allowed when each back reference follows a capture of its own
  rule (6060), although another alternative of that rule may refer without capturing:
  `S <- T 'b' / T C 'y'`, `T <- $c<'a'>`, `C <- $c<'q'> 'q' / $c` on `"aay"`; and although a
  rule in between may capture the name too, unless it comes from the memo:
  `S <- Q 'x' / Q 'y' / R`, `R <- $c<!'z'> Q $c`, `Q <- $c<[ab]>` on `"aa"`. Both are
  refused with packrat parsing only. `CapturesAreOwn` leaves such rules out. Rules that a user
  provides are not looked at for back references at all.
- A dictionary checks for a word that goes on whatever its match is made of (3689), a
  literal only if it is a word itself (3481), as `README.md:389` says ("literals that look like
  words are checked against a word boundary"): with `%word <- [a-z]+`, `'+' | '-'` refuses the `+` of
  `"+a"` and `'+' / '-'` accepts it.
- The first parse with packrat parsing of a left-recursive grammar that is put together from
  combinators overflows the stack: the filter's own walk is guarded against such cycles, as the
  comment at 4788 says, but the question whether an element can be empty (4779) is not.

- A character that fails in the whitespace after a literal records the token of the
  rule (3622) as expected where it stands: with `S <- T`, `T <- 'a'`,
  `%whitespace <- ([ ] 'x')*`, the text `"aa"` is refused with "unexpected 'a',
  expecting 'a'".
- A memoized failure does not raise a cut again: a second attempt of a rule that
  failed after its cut is not committed, with packrat parsing.
- A choice for a label (`tracks_cut` false) clears and reads the cut flag of the
  choice around it (1627).
- The first-set filter skips an alternative together with its leading cut.
- The comment at 2446 says that Recovery raises the cut on success; the code
  (4305) raises it on failure too. The model follows the code.
- `ErrorInfo::clear` (824) keeps `label`: the report of a second recovery, if it has
  no message of its own, carries the first one's label.
- A choice inside another's later alternative clears `keep_previous_token` when it
  ends (1647), so that what the outer choice expected before is forgotten.
- A memo hit records no failure, so that the list of what was expected is shorter
  with packrat parsing; the position is the same (FurthestFailure).
- Precedence climbing recognises its operators by an action that a memo hit (1246)
  or an earlier recovery (3906) leaves out: with packrat parsing `E <- A (O A)*`
  with `A <- 'a' &O 'z' / 'a' &O / 'a'` refuses `"a+a"`.
- Left recursion behind a cut, or behind a choice with an empty alternative, is
  not detected; the guards end it (run `left_recursion`).

## Not modelled

Left out by choice: the concrete syntax of grammar texts, formatting of messages,
tracing and profiling callbacks (they only observe), the byte format of the grammar
blob and the attributes in it that nothing here reads (macro parameters,
`ast_name`, `no_ast_opt`), the samples and tools around the library, the Rust port
(a second implementation, whose rule invocation would be a module of the size of
`RuleCalls`). In the engine: macro arguments (the frames of every operator would
carry an environment, and the proofs with them), user parsers (`usr`, a callback),
the wording of errors (with placeholders, and the rules whose name starts with
`_`), `enter` and `leave` handlers, an action that throws, `eoi_check` off, matches
longer than 32 bits, back-reference case folding. `Dictionary`, the keyword guard,
code points and precedence climbing are modelled beside the engine, not in it: what
they do to the Context is no more than what a literal and a rule do, but for the
error token that a `Dictionary` records.

A parse is modelled alone. Two threads that parse with one `parser` share what
`call_once` guards, and with precedence climbing the operator rule's action, which
nothing guards; no document says that they may.

What the models do not decide: a cut inside a string of a blob (`Reader::str` trusts
the length), the order in which an unordered map hands out rules (no property
depends on it), texts that are not UTF-8 in the properties of `operators`.

## Plan

What a next step would be, in this order:

1. Inference rules for captures and back references (an environment of texts), and
   then for cuts, in `PegDerivation`, so that the theorems of `ParseMeaningProofs`
   cover them.
2. `FurthestFailure` against `PegDerivation`: which failures a derivation contains.
3. `Macros`: argument frames and macro instances as memo keys, in `RuleCalls`.
4. `RustRuleCalls`: the port's rule invocation against `RuleCalls`.
