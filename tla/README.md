# Simpleconfig in TLA+

Simpleconfig is a C library that builds one tree of configuration nodes from
command-line options, environment variables, defaults and YAML files, and lets
the program read and write the tree by dotted paths (`foo.bar.[3]`). These
modules model its core, check it with TLC on small instances, and prove most of
its safety properties with TLAPS for every size. Paths below are relative to
the repository: the library is `src/*.c`, its interface `include/sconf.h`.

## The system

| Part | Code | State | Operations |
|---|---|---|---|
| nodes | `sconf.c` 580-879 | a node: type and one of dictionary, array, string, integer, boolean, float | create, destroy, payload init |
| dictionary and array | `sconf.c` 265-565, `array.c` | names to nodes (an adaptive radix tree, vendored); `entries`, `size` | insert, search, grow, iterate |
| paths | `sconf.c` 893-1397 | locals of one call: `parent`, `parent_index`, `depth`, the tokens | `sconf_set*`, `sconf_get*` |
| YAML reader | `yaml.c` | `state`, `curr_key`, a stack of open containers with positions | `sconf_yaml_read` |
| options | `opts.c` | three tables made from the map; the globals of getopt | `sconf_opts_parse`, usage string |
| environment | `env.c` | none | `sconf_env_read` |
| defaults | `defaults.c` | none | `sconf_defaults` |
| validation | `validate.c` | none; callbacks of the program | `sconf_validate` |
| initialize | `sconf.c` 1411-1445 | none | the four above, in that order |
| conversions | `convert.c` | none | text to integer, float, boolean |

Everything is a call on the caller's thread; the shared state is the tree. All
of the sources write through `sconf_set` (or, the YAML reader, through
`sconf_node_create_and_insert`, which `sconf_set` is made of too) and read
through `sconf_get`. The program's callbacks see nodes during validation and
iteration, and the program may build and take apart trees of its own. There is
no concurrency and no persistence. What is hard is

* failure: every allocation may fail half way through a call that has already
  linked nodes, and every file may be refused half way;
* long sequences of calls: a tree that many calls have built, with values set
  again, other types on the same path, holes in arrays;
* ownership: a node belongs to the program until it is inserted, and a call that
  fails must say truly whose it is;
* stale state: the index that `sconf_get` carries from token to token, the key
  and the positions the YAML reader keeps, an iteration the program writes into,
  pointers given to the program;
* boundaries: the depth limit, which is tested in a loop before the leaf is
  made, the array limit, an index that goes from `long` to `uint32_t`, and the
  tables and the usage string of fixed size;
* order: which of the sources wins, what has been validated, and what a second
  `sconf_initialize` on the same root does.

What makes each part correct: the nodes are one bounded tree at every moment
and nothing in it moves or is freed by a write; a set writes what its path
denotes and a get reads it back; a file that is accepted is what the tree then
holds; a configuration that is returned is the strongest source's and has been
validated as it is. `PROJECT.json` lists the hazards line by line.

## Modules

| Module | Models |
|---|---|
| `SconfTypes` | tokens, indexes, types; `Element`, the index a bracketed token gives |
| `SconfNodes` | the heap of nodes as operators from heap to heap: `Create`, `DictInsert`, `ArrayGrow`, `ArrayInsert`, `Replace`, `CreateAndInsert`; `Tree` and `Slots`, what a sound heap is |
| `SconfPath` | `sconf_set` as a step machine on the heap, `sconf_get` as an operator |
| `SconfConfig` | a configuration as a function from places to items, with `Set` and `Find`: no nodes, slots or sizes |
| `SconfStore` | the abstract specification: a call is one step |
| `SconfPathStore` | the refinement of `SconfStore` by `SconfPath` |
| `SconfYaml` | `sconf_yaml_read` on the heap, event by event, beside a model of libyaml |
| `SconfInit` | `sconf_initialize`: options, environment, defaults, validation, on a `SconfConfig` |
| `SconfApi` | the node functions as a program calls them, with ownership, iterations and `sconf_node_destroy`, on the heap |
| `SconfOpts` | the three tables made for `getopt_long` and the usage string |
| `SconfConvert` | what a text converts to: `convert.c`, and who tries which conversion |
| `SconfInduction` | induction over naturals and the existence of recursive functions, for the proofs |
| `SconfNodes_proofs`, `SconfPath_proofs`, `SconfYaml_proofs`, `SconfApi_proofs`, `SconfOpts_proofs`, `SconfInit_proofs`, `SconfConvert_proofs` | the proofs |
| `MCSconf*` | the instances TLC checks |

`SconfPath`, `SconfYaml` and `SconfApi` EXTEND `SconfNodes`: each holds the heap
in a variable and calls its operators, as the C functions do. `SconfInit` is
built on `SconfConfig`, which `SconfPathStore` shows to be what `sconf_set` and
`sconf_get` do. `SconfOpts` and `SconfConvert` stand alone: they are what `SconfInit`
takes as given in `IndexCreated`, `LongCreated`, `TakesArgument` and `ValueOf`.

### How they correspond to the code

*Heap.* An address is a member of `Ids`; a cell that is not allocated has type
"free". `kids` is both the dictionary and `entries`. Memory that `realloc`
returns is `UNINIT` until it is set, so a slot that `sconf_array_grow` forgot
would be seen by `SlotsSound`. `level` records the depth at which a node was
attached; it is not in the C code and nothing depends on it, it is there to
state that the nodes are a tree without a recursive definition. A `fault`
argument names the allocation that fails: the node, its payload (string or
array), the larger array.

*Set.* `SetCall` splits the path; `SetFirst` is the first turn of the loop,
which creates nothing; `SetParent` is a further turn, with the call of
`sconf_node_create_and_insert` and the test of the depth in it; `SetLeaf` is
the call after the loop; `SetReturned` hands the result to the caller. A token
is a name, or is in brackets; `IndexOf` gives the number `strtol` returns, or
-1 where the index is refused, and `Element` cuts it to `UIntMod`. The read
past the end of an array that `index + 1 = 0` leads to has no meaning in C: the
call goes to `pc = "fault"` and stops.

*Get* walks with the `parent_index` of the code, which is kept between tokens.

*YAML.* libyaml emits every well-nested stream of events, and may report an
error at any point. Beside the nesting the model keeps in `want` what the
document says. One action of the reader consumes one event, in one of the seven
states; the depth test of `sconf_yaml_parent_stack_push` comes after the node
was created, as in the code. `fclose` may fail after everything was read.

*Initialize.* One action per option and per map entry. `getopt_long` is the
sequence of options it returns, among them those it answers with `?` and `:`
(`Bad`), and whether an argument is left over (`extra`). A file is the sequence of
sets that its content amounts to; what a text converts to is `ValueOf`. A
validation callback is the set `Accepts`, in which `NULL` stands for a path
that is not there. `first` and `wrote` are history.

*Api.* A call is one step, but for the two that last. An iteration holds a
`cursor`; between two visits the program may call anything, as it may from the
callback of a foreach function or between two calls of `sconf_node_array_next`.
`sconf_node_destroy` is a stack of `frames`, one per open call, and takes one
step per child and one to free the node; nothing else runs meanwhile. `owned`
is the set of nodes the program has to insert or destroy. The program's side is
in the guards and only there: it inserts and destroys what it owns, inserts no
node below itself, destroys nothing it iterates over, and adds nothing to a
dictionary it iterates over (`art_iter` would walk a tree that changes). It has
looked up a name that is taken, for `sconf_node_dict_insert` gives the node it
displaces to no one. It passes no index 2^32 - 1 to `sconf_node_array_insert`,
where `index + 1` wraps to 0, the array is not grown and the slot written past its
end (`array.c:131`, nothing checks it; `IndexChecked` covers the same wrap for
paths). `seen`, `missed` and `doomed` are history. There is no
bound on the depth: only `sconf_set` and the YAML reader have one.

*Options.* Each table is filled by a loop with one step per entry of the map. A
short option is its code; of all texts only the lengths matter. `optstring` is
the array up to its zero, and `longs` up to its zero entry. The usage string is
a `size`, which sums what `snprintf` returns, and what is `written`: `snprintf`
returns the length it would have written, so the first may pass the second.
When `size` is past the room the remaining length is negative and becomes a huge
`size_t`; what is written then is written past the buffer, which has no meaning
in C, and the model stops in phase "fault".

*Conversions.* A text is a sequence of characters of a small alphabet; the
machine only enumerates texts, with what each converts to. `Strtoll` and `Strtod`
are written from the C standard: blanks and a sign first, the prefix of base 16 in
either case and only if a digit follows, and no exponents or underflow. The code's
own `Base` knows "0x" in lower case only, and only at the first character. One word stands for each of the
booleans, and they are chosen to share letters with each other and with "nan".

## Runs

| Run | Question | Bounds | States |
|---|---|---|---|
| `path` | What does any sequence of sets, with any allocation failing, do to the tree? | 4 nodes, 2 names and one index, paths of up to 2 tokens and four longer ones, depth 4, arrays of 2 | 575,720 |
| `index` | Which indexes and depths are accepted? | an array as root, 4 nodes, indexes in range, one past it, 2^32 - 1, 2^32, refused, with `UIntMod` 5 and arrays of 3; depth 3 | 46,637 |
| `store` | Is a set one step of an abstract store? | 4 nodes, 1 name and one index in every path of up to 2 tokens, four longer paths, six with an index too large or refused | 206,796 |
| `yaml` | Is an accepted file in the tree, and does a read end? | 5 nodes, 6 scalars and containers in two files, depth 4 | 155,687 |
| `init` | Who wins, what was validated, what does a second call do? | maps of 2 entries out of 14, 2 options, every environment, 2 calls | 448,763 |
| `api` | Who owns which node, what does an iteration visit, what does a destroy free? | 3 nodes, one name, indexes 0, 1 and one past the end, arrays of 2, three ways an allocation fails | 59,356 |
| `opts` | Do the tables fit and agree, is the usage string whole? | maps of 3 entries out of 13, and five that fill a table; 4 codes, 12 bytes of option string, 50 of usage | 14,038 |
| `convert` | Is a text the same value in C, in a file and as an option? | every text of up to 5 of 12 characters | 271,453 |
| `index_wrap`, `get_stale`, `yaml_nested`, `init_required` | four disagreements, below | as above | - |

The bounds hold the cases that differ. Four nodes reach the deepest tree that
`MaxDepth` 4 allows (the runs that ask for the depth, `index` and `yaml`, have a
node more than that, or a tree could not be too deep), a full heap (`malloc` returns NULL), two children of one node,
and a container under each kind of container. Arrays of 2 or 3 elements have a
first slot, a hole and an index past the end. `UIntMod` is one or two above the
array limit, so that an index past the limit, the largest index and one that
wraps are different numbers, as 65536, 2^32 - 1 and 2^32 are. Six scalars and containers in YAML
hold a sequence in a sequence with something after it, and three levels of
mappings with an element beside them. Two map entries are enough for two
entries on one path, one path below the other, a file beside a scalar it
writes, and an error after a success; two options let the same one occur twice.
Three nodes of a program are a container in a container with a leaf, two
elements with a hole before them, and a node that is still the program's while
the others are in a tree; with no more than that a slot can be taken, an array
can grow during an iteration and a destroy can be three calls deep. The tables
of `opts` are as tight as in the code: one entry per code and one for the end,
and an option string that the marks of all codes do not fit in. Texts of five
characters hold a blank, a sign, a prefix of a base in either case and a digit, a
point between two digits, and a word with something before or after it.

What the passing runs show, by property:

* `Forest`, `SlotsSound`, `WalkInTree`, `DepthBound` (`SconfPath`) and `Forest`
  (`SconfYaml`): the nodes are one tree, no deeper than the limit, between any
  two steps, after every failed call and after every refused file. It is what
  `sconf_node_destroy` needs to free each node once and to recurse boundedly.
* `PointersStable`: what `sconf_get` has given out stays good while the tree is
  written.
* `OnlyTargetWritten`, `GrowsAlongPath`: a call writes what its path denotes; a
  failed one leaves containers of its own path, or loses the string it was to
  replace (it is freed before the copy is made), and nothing else.
* `RoundTrip`, `GetComplete`: a set is read back; a get finds the node of a path
  whatever was set before and in which order. One kind of path is not read
  back, and `RoundTrip` says so: with a first token in brackets under a
  dictionary, and more tokens after it, `sconf_set` takes the bracket for a name
  and `sconf_get` answers "not found" (`sconf.c:1023`).
* `IndexChecked`, `ArraysTight`: index limits; arrays do not outgrow their last
  element.
* `ImplementsStore`: whether a call succeeds, and what it leaves, is a function
  of the path, the type and the configuration, unless memory runs out.
  `GetAnswersStore`: so is what `sconf_get` answers, for every path.
* `StackIsBranch`: the reader's stack is a branch of the tree and has the same
  containers as libyaml, so the untyped `sconf_yaml_parent_remove` pops the one
  that ended. `ReadFaithful`: what was accepted is in the tree, and nothing else,
  later documents and files laid over earlier ones, as long as no sequence in a
  sequence is followed by a scalar or a sequence. `ReadReturns`: the loop ends.
* `Precedence`: the whole order of the writes. What a place holds after a first
  call is what the last write to it gave: a variable of the environment wins over
  an option whatever the order of the map, a later option over an earlier one, a
  later entry's variable over an earlier one's, and what a file sets counts where
  the file is read. Where nothing was written it is the first default that counts.
  No value comes from anywhere else, no write is lost, and after any call nothing
  with a default is missing. One thing is part of the property that a reader may
  not expect: a default *file* is read after options and environment and replaces
  what they have set (`defaults.c:213`). Places are compared, not paths: `c.[0]`
  and `c.[00]` are one. The order is not stated where a default file writes the path
  of a later file entry that has a default itself (`FilesApart`). `DefaultsOnlyAdd`: a scalar default changes
  nothing that was set. Both leave out paths with a first token in brackets and
  more after it (`Unfindable`, `Hidden` for places), see below. `Validated`: what a successful call returns satisfies
  the required entries and the callbacks as it is returned. `AgainTheSame`: the
  same call on the same root succeeds and changes nothing, unless a default is a
  file, which is read again or found to be there.
* `OneOwner`, `RefusalsHarmless`: every node is in one slot or is the program's,
  never both and never neither, and a call that returns -1 has neither made nor
  moved one. One call is different and is named in the property:
  `sconf_node_dict_insert` for a name that is taken returns -1 *after* it has put
  the node in (`sconf.c:288`); the node is no longer the program's to free, and
  the one it displaced is.
* `IterationExact`: an iteration over an array visits each element once, and
  misses nothing but what was put behind its position, however the array grew
  meanwhile; one over a dictionary visits each name once.
* `FramesAreBranch`, `DestroyExact`, `DestroyReturns`: the open calls of
  `sconf_node_destroy` are a branch of the tree, it frees the subtree and nothing
  else, each node after what it holds, and returns.
* `TablesEnd`: neither table is filled to its last element. For the long options
  the check in the code would let it be; it holds because every long option has
  a short one, which is unique. `MapChecked`: a map is refused for one of four
  reasons and the arguments are looked at only if none of them holds.
  `TablesAgree`: what `getopt_long` is told of an option is what its type needs,
  and the option is handled by its own entry. It leaves out ':' as an option,
  and '?' is taken for an error (`opts.c:774`).
* `Aligned`: all help texts start in one column, as long as the longest option
  leaves room for it in 8 bits. `UsageWhole`: a usage string that fits is whole.
* `BaseAsInC`: the integer the code makes of a text is the one `strtoll` makes of
  it when C finds the base itself (base 0), and there is none where C has none, but
  for two kinds of text, because the code looks for the base at the first character
  and for a lower-case "0x" only (`convert.c:28`). "0X10", "-0x10" and " 0x10" are
  integers in C and none here; they are never another integer. "-010" and "+010",
  with a blank or a sign before the leading 0, are octal in C and decimal here,
  while "010" is 8 in both. `SourcesAgree`: a text in a
  YAML file is the value that an entry of that type would get from it; the
  exceptions are spelled out: the empty text, and numerals with a leading 0,
  which are octal integers in a file and decimal for an entry of type float.
  "0X10" is the float 16 in a file, as for an entry of type float, and no integer
  for either.

`ReadReturns` and `DestroyReturns` are liveness properties. Their fairness is
weak fairness of `Parse` and `Stop`, and of `DestroyChild` and `DestroyFree`:
both are loops of one C function that run on the caller's thread, block on
nothing but the file, and let nothing else run. Nothing is assumed of the
program, which may stop calling, nor of libyaml but that a stream is finite,
which `MaxContent` states.

Deadlock is checked in `path`, `store`, `yaml` and `api`; `SconfYaml` has `Ended`
for the state after the last read. It is not checked in `index` (a call that
reads past an array stops in `pc = "fault"`), in `init` (a program that exits,
that got an error or that has made its last call stops), in `opts` (one map is
handled) and in `convert` (texts are bounded).

## Where code and text disagree

* `index_wrap`: `sconf_array_get_index_from_string` stores the `long` of `strtol`
  in a `uint32_t` (`sconf.c:250`), so `[4294967296]` sets element 0, although
  indexes out of bounds are to be refused
  (`tests/test_sconf_node_array.c:159`).
* `get_stale`: under an array a token without a bracket is looked up with the
  index read last, or 0 (`sconf.c:1060`): `a.foo` finds `a.[0]`.
* `yaml_nested`: after the end of a sequence the reader is always in the state of
  a mapping (`yaml.c:480`). In `a: [[], x, {}]` the scalar `x` becomes a key and
  the read returns 0 without it; `a: [[1], [2]]` is refused.
* Not a run of its own: under a dictionary, `sconf_set` can write a path like
  `[x].foo` and `sconf_get` does not find it (`sconf.c:1023`). `RoundTrip` states
  it; its consequence in `SconfInit` is that the default of such a path replaces
  what an option has set (without `Unfindable`, `DefaultsOnlyAdd` is violated) and
  that `required` on it never holds. `get_stale` has a consequence there too: a
  default whose path runs a name into an array is not applied when another
  element is found for it (`Counts`).
* Nor is this: `sconf_node_dict_insert` returns -1 for a name that is taken, after
  it has inserted the node (`RefusalsHarmless`); its comment says 0 on success,
  -1 otherwise.
* Nor is this: `sconf_string_to_bool` answers 1 for every text that starts with one
  of its words, so that "online" is TRUE and "nothing" FALSE (`convert.c:97`); its
  comment says "1 if string is boolean, 0 if not" (`convert.c:93`). `StringToBool` is
  the code's, and `SourcesAgree` says that all sources share it.
* `init_required`: `required` on a YAML file entry fails although the path was
  set, since the node is a string (`validate.c:43`).

## Proofs

The theorems hold for every value of the constants, from the assumptions the
modules name: names, brackets and indexes are disjoint (`TokensAssumption`,
`IndexAssumption`), `NULL` is no value, no node, no token and no index
(`ValuesAssumption`, `IdsAssumption`), paths are sequences of tokens and
`MaxDepth` is at least 2 (`PathAssumption`). None of them restricts what the
library is used for, except for the rules of `SconfApi` above. `Ids` may be
infinite but in `SconfApi`, where a tree is explored to its end: `ApiAssumption`
says that the address space is finite.

None of the invariants is inductive as it is stated. Each proof module has an
inductive one, which TLC checked on the instance of the run before it was
proved, with one lemma per action.

**Nodes.** `SconfNodes_proofs`: each primitive keeps a heap sound. `LinkedTree` is
the heart: a fresh node linked under one parent, at a key that was empty, gives
a tree again, one level further down. `AttachToDict`, `AttachToArray`,
`GrowArray`, `FillSlot`, `ReplaceKeeps` and `ReleaseKeeps` are its uses.
`CreateAndInsertCall` sums up what `sconf_node_create_and_insert` may return, on
any heap without dangling children and with any allocation failing, and
`CreateAndInsertOutcomes` what that means on a tree. The three machines on the
heap are all proved from these two.

**Paths.** `SconfPath_proofs` proves `Forest`, `SlotsSound`, `DepthBound` and
`PointersStable`. That the next node is not too deep needs to know where `parent`
is, that it is linked once needs the tree, and that a search finds it needs the
slots: `IInv` joins `TypeOK`, `Forest`, `SlotsSound`, `DepthBound` and
`WalkInTree`, which ties the loop's counter to the level of `parent`.

The second part of the module is about what a path means: `RoundTrip`, `GetComplete`,
`IndexChecked`, `ArraysTight`, `OnlyTargetWritten` and `GrowsAlongPath`, for paths
of any length. `sconf_get` and the meaning of a path (`GetWalk`, `Trail`) are
recursive functions over the tokens. `SconfInduction` shows that such a function
exists and has the value of its equation (`WalkExists`), and gives induction over
its steps stated with sets (`UpTo`): an operator as a parameter is more than the
provers can instantiate. `GetFollows` then compares the two walks token by
token: as long as no token without a bracket is looked up in an array, the index
that `sconf_get` carries along is the one of the token. `WInv` adds to `IInv` that
the call in progress stands where its tokens so far lead, through containers of
the kinds that the tokens ask for; that only dictionaries have names below them;
and that arrays end with an element. From it a call that has succeeded has built
all of its path, and a get finds what it set.

**The refinement.** The last part of `SconfPath_proofs` proves `ImplementsStore`: a call of
`sconf_set`, with its loop, the nodes it makes on the way and the allocations
that fail, is one step of `SconfStore`, and `GetAnswersStore`: what `sconf_get`
answers is `Find` in the configuration. Between the calls the nodes must show
the configuration, and within one they must show what the call may still leave.
`SInv` says both:

* `Placing`: each node in the tree has a place of its own, the place of its
  parent with the key of its slot at the end; the root has the empty one.
* `Shows`: a configuration has an item just at the places of the nodes, with
  their types and values. `ConfigShows` gives it for the mapping `ConfigOf`,
  whose `CHOOSE` only means something because places are distinct.
* `Along`: during a call the nodes show what was there when it began, with the
  containers of the steps so far. `parent` stands where those steps lead, and
  each of them was legal in the sense of `SconfConfig`.

What remains is that the node functions refuse a step just when `SconfConfig`
does. `SconfNodes_proofs` has what `sconf_node_create_and_insert` returns if no
allocation fails (`MadeFits`, `FitsIsMade`: it succeeds if and only if the key fits
the parent and what is there may be replaced), and `FitsIsLegal` carries that to
places. The end of a call is then one of four: it has set the leaf (`StepDone`), it was refused at a
step that is not legal, and then `Reach` is the number of its steps
(`StepRefused`), an allocation failed, and then it has come less far
than it could, or it reads past an array, which is no end. `ReachCounts` shows
that the `CHOOSE` in `Reach` is the first illegal step. For a get the walks of
both modules are compared token by token (`IndexAhead`, `DescendAgrees`): the code reads the index of a
token one turn before it looks the token up, and what it carries along
is the index `SconfConfig` would find.

**YAML.** `SconfYaml_proofs` proves `TypeOK`, `Forest` and `StackIsBranch` for
every stream of events, any number of files and any allocation failing. The
invariant joins the tree, the stack of the reader, the control state and the
part of libyaml the reader depends on (`StreamOK`: the kinds of the containers that
are open). `sconf_yaml_parent_remove` pops without looking; that it pops the
container that has ended needs the same kinds on both stacks, and that
something is pushed or popped only where libyaml opens or closes something,
which needs the phases of libyaml that each state of the reader allows
(`PhasesIn`). Whether the reader's state fits the container on top is not part
of it: after a sequence in a sequence it does not (see `yaml_nested`).

`ReadFaithful` is proved from that invariant and a second one, `ReadInv`, which
holds as long as nothing has been misread (`clear`). It says in every state what
the property says of the end: the tree holds what the documents said so far
(`Told`), and the reader is where libyaml is in them. `Told` compares by places:
each place of the document is one of the tree with its type and value, each place
of the tree one of the document, and as many nodes are allocated as there are
places. That takes what a sequence of keys leads to in a heap (`Down`; `AtIsDown`
shows it to be the `At` of the model). `Down` is one-to-one on a tree (`DownOnce`), a new node is at
one new place and moves no other (`DownAdded`), a new value moves nothing
(`DownKept`); so one call of `sconf_node_create_and_insert` is one more place
(`ToldAdded`) or a place with a new value (`ToldOver`). Where the reader is has two
parts. `Opened`: each entry of the stack is the node at the place of the container libyaml
has open, and `curr_index` is the number of children a sequence has had, which is what
`sconf_yaml_node_add` relies on when it counts under arrays only, and what
the limit on arrays keeps from wrapping around. `Awaits`: the state and the key are those the
innermost container calls for. After the end of a sequence the code goes
to the state "block" whatever is around; that is right in a mapping, and in a
sequence only until the next scalar or sequence, which is `Misread` and ends
`clear`. The end of a mapping looks at the type of the node below the top, and
`Opened` is needed to know that this is the kind of the container libyaml
goes back to.

**Nodes in a program.** `SconfApi_proofs` proves all the safety properties of
`SconfApi`: `TypeOK`, `OneOwner`, `FramesAreBranch`, `IterationExact`,
`RefusalsHarmless` and `DestroyExact`. There is no level here, since trees are
joined and taken apart: that no node is below itself is stated with `Subtree`,
which is shown to be the least set that is closed under children
(`SubtreeClosed`, a counting argument over the finite `Ids`, and `SubtreeLeast`),
and everything about trees is proved from that. `IInv` has four parts.
`Ownership`: a node that is not doomed is the program's or in one slot, no node
is below itself, and each is below one the program owns; the lemmas
`GraftOwnership`, `CreateOwnership`, `DestroyOwnership` and `FreeOwnership` say what
the four things that happen to a tree do to it. `Destroying`: what the open calls
of `sconf_node_destroy` have still to do is disjoint, untouched, and covers all
doomed nodes that are still allocated; that is why the last call leaves none, and
why no frame is freed by another. `IterationOK`: what an iteration has visited
and missed is what is behind its position. And the heap is sound as above.

**Options.** `SconfOpts_proofs` proves the whole of `SconfOpts` for every set of
config maps and every size of the tables. For `TablesEnd`: the table of long
options has room for one more than there are codes; that the last one stays
free is a counting argument over three loops. `IndexSound` says that the index
leads from a short option to its entry and back, `LongsSound` that each long
option was made from an entry the loop has passed, so that the entry at hand has
a short option no other has (`LongsDistinct`), and `DistinctFit` is the pigeonhole.
Only with that is the refusal "array is full" never the reason `MapChecked` would
have to name. `UsageWhole` and `Aligned` follow from `UInv`, that what is written is
what was asked for until the room is used up; `TablesAgree` from `TInv`, that in the option string each
code of an entry stands once and with the marks of its type, and in the table
of long options with the argument of its type.

**Initialize.** `SconfInit_proofs` proves `AlwaysValidated` for every map, command
line, environment, file and conversion. The invariant says that the entries
before `pos` are valid in the configuration as it is, which holds because no step
of the last loop, nor a callback, writes to it. `AlwaysTypeOK` says that only
containers contain something, whatever the sources write: `TreeOK` closes the
configuration under every prefix of a place, `ReachIs` and `BuiltTree` show that the
steps a set can take, and no more, keep it, and `ReadFileSound` carries it through
the writes of a file. The option loop also needs `IndexCreated`, the check made
before it, for its entries have a path only because of that. `DefaultsAlwaysAdd`
proves `DefaultsOnlyAdd`, that the default of a scalar replaces nothing: what can
be set where something is, is found there by `sconf_get` (`SettableIsFound`, which
walks both along the path), unless the path is one of those `Unfindable`
excludes.

`AlwaysAgainTheSame` and `AlwaysPrecedence` are about all the writes of a call. Both
cut a call into *turns*, one per option, per variable and per default (`Turn`,
`Total`), and `FirstCall` says that a first call that has not failed has gone along a
`Trace` of configurations, each made from the one before by its turn, from the empty
one to the present one. What a set leaves is stated once (`Left`, by `SetLeaves`): its
own path, one value at the end, and everything else as it was.

For `AgainTheSame` the second call follows the trace of the first. `Overlaid(f, g, c)`
relates the two: `c` is what the first call returned, `f` where it was after as many
turns, and `g`, where the second call is now, is `c` except for places where it has
the value of `f`. A set that was made can be made again, since every step of its path
is there (`SetAgain`, `SetOverlaid`); a default that was applied is found now
(`SetIsFound`), or, if its path can be set but not found, is set again
(`UnfindableMissing`). After the last turn `f` is `c`, so `g` is. With a file for a
default the theorem would be false, and `AgainTheSame` leaves that out.

For `Precedence`, `Replayed` says of the writes of one turn what the property says of
all of them: their places are there, and a value is that of the last of them for its
place or is as it was. `SoFar(c, k)` is the property after `k` turns, with two facts
it needs: a default that counts is there from its turn on, and every file that has
been read was readable. `RanKeeps` adds a turn that has made its writes, `ScalarKeeps`
the default of a scalar, which is the first that counts (`FirstOne`: had an earlier
one, an option or a variable led to the place, it would be there and be found, by
`MissingTarget`), and `FoundKeeps` a default that finds its path; that its file then is
not among the writes is where `FilesApart` is needed. That nothing with a default is
missing holds after any call (`DInv`): what is found is found in every larger tree
(`FoundStays`).

**Conversions.** `SconfConvert_proofs` proves `BaseAsInC` and `SourcesAgree`, for
texts of any length over any alphabet. The state is a text with
what the conversions make of it (`CInv`), so all of the argument is about the
conversions. `SpanIs` characterises where a run of digits ends, without which the
`CHOOSE` in `Span` says nothing, and `IntegralIs` that a text is an integer only if it
is digits from its start to its end. For `BaseAsInC`, where the numeral comes first in
the text (`BaseAtOnce`) the two ways to find the base differ on three kinds of text:
"0x" without a digit is no integer in base 8 or 16 (`PrefixNone`), "0" is 0 in base 8
and 10 (`ZeroAlone`), and "0X" with a digit is the exception, where base 8 ends the
number at its "0". Behind a blank or a sign (`BaseBehind`) the code always has base
10, which ends a number with a prefix at its "0" too. For `SourcesAgree`, a text that
is an integer in base 10 or
16 is the same numeral as a float (`SameNumeral`, `FloatOfIntegral`), and a text that
starts with a word for a boolean is neither (`NoNumber`). That is what
`WordsAssumption` asks of the words: the ones for booleans start with no digit, sign,
point or blank, and no word strtod accepts starts with one of them. It is so for
"true", "yes", "on", "false", "no", "off" and "nan", "inf", "infinity".
`ConvertAssumption` says of the characters that "0" has the value 0 as a digit and
that a blank, "-", "+", "x", "X" and "." are no digits.

`InitAssumption` says that the maps, options and files are sequences,
that paths are made of tokens, and that a text can be stored as a string.

Every safety property a passing run checks is stated by a theorem. Only
model-checked are `ReadReturns` and `DestroyReturns`: they are liveness under fairness,
which is out of the prover's reach.

## Not modelled

* Error messages and the tables of type names: formatting; every error path is
  there with its return value.
* The vendored radix tree: a dictionary is a function from names to nodes, and
  an iteration over it visits the names in any order. A program that writes to
  a dictionary while it iterates over it is excluded in `SconfApi`.
* libyaml, `getopt_long`, `strtoll`, `strtod`, `snprintf` and `getenv` beyond what
  the code relies on: the permutation of `argv`, abbreviated long options,
  exponents and underflow of floating-point numbers.
* The texts of the usage string: only their lengths.
* Allocation failures in `SconfInit`: each of its writes is a set, which
  `SconfPath` covers.
* Examples, fuzzers and tests: clients of the library.

Left out where nothing would change: `sconf_set` and `sconf_get` return -1 when
they are called with `NULL` or cannot copy the path (`sconf.c:1006`, `sconf.c:1279`),
before they have touched a node, so `SetCall` and `Get` do not have these returns.
`SconfInit` takes the maps as they pass two of the checks of the options, that a
short option is not negative (`opts.c:50`) and that the option string has room
(`opts.c:174`); both refusals are in `SconfOpts`. A header of the usage string is
at most as long as the buffer (`OptsAssumption`): the code has no bound
(`opts.c:461`), and a longer one is cut at the same place and followed by the same
fault. `SconfOpts` begins where the arguments are looked at: without any
`sconf_opts_parse` returns before it checks the map (`opts.c:734`), which is in
`OptsPrepare` of `SconfInit`. A map that has no short option at all is accepted
whatever the arguments are, as `tests/test_sconf_opts_parse.c:141` wants it.

With ':' or '?' as a short option the models do what the code does and no property
judges it: nothing in the repository says what is meant. glibc's `getopt_long`
also keeps a short ';' to itself, whatever the tables say of it.

## What is left

Everything that changes state in `src/` is modelled, and all that the runs check and the
prover can state is proved. What could be added is a model of the radix tree with
prefixes that are cut and joined, below the function from names to nodes that stands
for it here, and a theorem that it implements that function.
