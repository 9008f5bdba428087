# TLA+ models of the darwin-xtools linker

darwin-xtools is Apple's `ld64`, `cctools` and `dyld` (linker, assembler,
archiver, the tools over Mach-O files and the dynamic loader), made to build
outside of Xcode.  This directory
holds TLA+ specifications of the parts of it whose correctness depends on the
order in which things happen, TLC configurations that check them on small
instances, and TLAPS proofs for every size of the constants.

Source paths below are relative to the repository.

## 1. The system

| Part | State | Operations | Talks to |
|---|---|---|---|
| **Input files** `ld64/src/ld/InputFiles.cpp` | list of input slots, ready flags, parse cursor, counts of remaining/available files and idle/available workers, one mutex, two condition variables, the captured exception, the list of libraries | worker: claim, parse, publish; listener: fifo name to ready file; main: next file, wait, assimilate; `searchLibraries` | parsers (called outside of the lock), resolver (atom handler) |
| **Symbol table** `SymbolTable.cpp` | table of binding slots, name table, seven content tables, duplicates | `add`, `findSlotFor...`, `markCoalescedAway`, `removeDeadAtoms`, `checkDuplicateSymbols` | called by the resolver |
| **Resolver** `Resolver.cpp` | atoms, live-support atoms, roots, live marks, flags for commons and completion | `buildAtomList`, `doAtom`, `resolveUndefines`, `deadStripOptimize`, `checkUndefines`, `checkDylibSymbolCollisions`, `removeCoalescedAwayAtoms`, `linkTimeOptimize` | symbol table, input files |
| **Archive reader** `parsers/archive_file.cpp` | table of contents, which members are instantiated and loaded | `justInTimeforEachAtom`, `justInTimeDataOnlyforEachAtom` | called by `searchLibraries`, calls `doAtom` |
| **Dylib readers** `parsers/generic_dylib_file.hpp`, text stubs | exports, weak exports, re-exports | `hasWeakDefinition`, `justInTimeforEachAtom` | as above |
| **Object parser** `parsers/macho_relocatable_file.cpp` | none that outlives a file | bytes to atoms | called by the workers |
| **LTO** `parsers/lto_file.cpp` | the merged bitcode module | optimise, hand back atoms | called by the resolver; calls `doAtom` again |
| **Passes** `passes/*.cpp` | the atom graph | stubs, GOT, branch islands, order, dedup, ... | run after the resolver |
| **Output** `OutputFile.cpp`, `LinkEdit.hpp` | layout, rebase/bind/export/function-start streams | encode, write, rename | last step |
| **Options** `Options.cpp` | the command line | parse | read by everyone |
| **ar** `cctools/ar` | an archive on disk under `flock` | replace, append, delete, move, extract | `ranlib` |
| **classic ld, libtool** `cctools/ld/pass2.c`, `cctools/misc/libtool.c` | the output in memory, blocks of it that are final | `output_flush`, `final_output_flush` | the file system |
| **dyld** `dyld/src` | loaded images with reference counts, dynamic references, terminators to run; the segments of an image | `dlopen`, `dlclose`, binding, `garbageCollectImages`; readers of the opcodes | reads what `LinkEdit.hpp` writes; terminators call back |
| **other cctools** `cctools/misc`, `otool`, `as`, `libstuff` | none between runs | filters over Mach-O files | - |

What is hard to test in it, part by part (`PROJECT.json` lists each hazard at
its line):

* *Input files.*  Files are parsed by a pool of threads in any order, become
  ready in any order in pipelined linking, and must be linked in command-line
  order.  Two condition variables and four counters decide who sleeps; an
  error anywhere must end the link.
* *Symbol table.*  Which of several definitions is used must not depend on the
  order in which they turn up; two strong definitions must be reported although
  the code that picks one leaves its choice uninitialised; literals are
  referred to before they are offered, are re-bound when a more aligned one
  comes and are swept before link time optimisation.
* *Resolver.*  Every search can load a member, which brings new references,
  overrides and further libraries while the caller is in the middle of a list,
  a set iteration or a recursion.  The rounds have to reach everything, in
  library order, and end; marking must be a closure although the graph changes
  while it is marked.
* *Output.*  The old file is unlinked, a temporary one is mapped, written and
  renamed over the path, or the file is written in place, depending on volume
  and path; an interrupt, a kill or an error comes at any step, and another
  link may write the same path.
* *Link edit.*  Opcodes are compressed in place by passes that each build on
  the one before, with immediates, deltas that wrap and state that carries over
  from one entry to the next; a program of another project, dyld, reads them.
* *ar.*  A process rewrites an archive in place under a lock that its own
  `ranlib` does not take and that the file system may not have, and may die half
  way.
* *Flushing.*  Parts of the output are completed in any order; pages are
  written and their memory given back as soon as they are complete.
* *dyld.*  Terminators call `dlopen`, `dlclose` and bind symbols while the
  collection that runs them has already decided what to delete.

## 2. The modules

| Module | Models | Extends |
|---|---|---|
| `InOrderInputs` | abstract: what a consumer of the input files sees, one file after the other or an error | - |
| `InputFiles` | worker pool, listener, main loop over the command line | instantiates `InOrderInputs` |
| `InputFilesProofs` | theorems about `InputFiles` | `InputFiles`, `TLAPS` |
| `NameCollision` | `NameCollisionResolution`: which of two atoms of a name is kept, as operators | - |
| `SymbolTable` | the symbol table with `removeDeadAtoms` and `checkDuplicateSymbols` | `NameCollision` |
| `SymbolTableProofs` | theorems about `SymbolTable` | `SymbolTable`, `TLAPS` |
| `Resolver` | `Resolver::resolve` with `searchLibraries` and member loading | `NameCollision` |
| `ResolverProofs` | theorems about `Resolver`: the searches, then what is kept | `Resolver`, `TLAPS` |
| `OutputFile` | `writeOutputFile`, the SIGINT handler, several links of one path | - |
| `OutputFileProofs` | theorems about `OutputFile` | `OutputFile`, `TLAPS` |
| `DyldSegments` | segments, and the bytes of an opcode | - |
| `RebaseInfo` | `RebaseInfoAtom::encode`, pass by pass, and dyld's `rebase` | `DyldSegments` |
| `BindInfo` | binding, weak and lazy binding: `encode`, and the readers of dyld | `DyldSegments` |
| `LinkEdit` | the tables together | instantiates `RebaseInfo`, `BindInfo` |
| `LinkEditProofs` | theorems about `LinkEdit` | `LinkEdit`, `TLAPS` |
| `Ar` | `ar` processes over one archive, and `ranlib` | - |
| `ArMember` | one member, byte by byte: `get_arobj`, `put_arobj`, `copy_ar` | - |
| `ArMemberProofs` | theorem about `ArMember` | `ArMember`, `TLAPS` |
| `PagedOutput` | abstract: parts come in any order, whole pages go to disk, in the end all of them | - |
| `OutputFlush` | `output_flush` and `final_output_flush` of ld_classic and libtool | instantiates `PagedOutput` |
| `OutputFlushProofs` | theorems about `OutputFlush` | `OutputFlush`, `TLAPS` |
| `DyldImages` | `dlopen`, `dlclose`, dynamic references and `garbageCollectImages` | - |
| `DyldImagesProofs` | theorems about `DyldImages` | `DyldImages`, `TLAPS` |
| `MCInputFiles`, `MCSymbolTable`, `MCResolver`, `MCOutputFile`, `MCLinkEdit`, `MCAr`, `MCOutputFlush`, `MCDyldImages` | the instances for TLC | the module of that name |

`SymbolTable` and `Resolver` share `NameCollision`, so that both decide
between two definitions by the same operators.  `SymbolTable` takes arbitrary
callers: any atom may be offered at any time, which covers every order in which
the resolver could offer them.  `Resolver` is the real caller, with the table
reduced to what is bound to each name.

### InputFiles

| Variable | Code |
|---|---|
| `inputFiles` | `_inputFiles` (NULL until published) |
| `readyToParse`, `fileMap` | `Options::FileInfo::readyToParse`; the listener's map of the files it waits for |
| `parseCursor`, `availableInputFiles`, `remainingInputFiles` | `_parseCursor`, `_availableInputFiles`, `_remainingInputFiles` |
| `availableWorkers`, `idleWorkers`, `neededFileSlot` | the members of that name |
| `exception`, `parseLock` | `_exception`, the owner of `_parseLock` |
| `searchLibraries`, `dylibForPath`, `fileIndex` | `_searchLibraries`, `_installPathToDylibs`, the loop of `forEachInitialAtom` |
| `workerPc`, `workerSlot`, `mainPc` | where the threads are |

A step is what a thread does between two points where the mutex may change
hands.  `pthread_cond_wait` is two steps (sleep; wake and compete for the
mutex), and may return spuriously, at most `MaxSpurious` times.
`pthread_cond_signal` may wake any one waiter.  Parsing is a step outside of
the lock, which ends with any file of `Files` or an error.

### NameCollision and SymbolTable

`PickAtom` is the function of the two definitions and of `-commons` in
`NameCollisionResolution`.  It returns the *set* of possible choices: where the
code sets `_reportDuplicate` without picking an atom, `_chosen` is
uninitialised and both atoms are possible.  An error thrown for tentative
definitions against dylibs ends the link.

The seven content tables are one map: a content stands for the table and for
what that table's hash and equality functions look at.  `Swept` says which
of them `removeDeadAtoms` goes through.  `keyAtom` is the atom stored as key of
an entry, which the code never updates when the slot is re-bound.
`rivals`, `offered` and `strict` are history: what was offered, for entries
that still exist, and while duplicates counted.

### Resolver

`pc` is how far `resolve` is.  The calls that one step can make are variables:
`search` (a run of `searchLibraries` that has not returned), `queue` (the atoms
that a loaded file still hands to `doAtom`), `stack` (the recursion of
`markLive`).  A caller's step waits until its calls have returned, except that
inside of `markLive` a search is itself part of the recursion.  `pulled`, `late`
and `round` are history for the properties: the members loaded and for which
name, whether one was loaded while marking, and how many libraries there were
when a round began.

`_deadStripRoots` is a `std::set<const Atom*>`, ordered by address: `MarkRoot`
takes the roots in any order, and a root that is inserted while the
loop runs may be before or behind the loop's position.  `doAtom` appends to
`_dontDeadStripIfReferencesLive` while `deadStripOptimize` may iterate over it;
with the iterator dangling the link is taken to crash (`DoAtomFails`).

`duplicates` has the atoms listed for a name that was defined twice, with the dead
ones.  `Finish` reports them at the end of the link; with `-dead_strip` only a name
with a live atom on its list (`Reported`), so a link whose duplicates are all dead
ends well.  `DuplicateLinks` of `MCResolver` are links that define a name twice,
used or not.

An atom is a value, its identity included: `OwnersAssumption` says that no two
files of a link share one and that a file has it once, which is so for C++ objects
made by the parser of one file.  The one kind that could come twice is the export
of a dylib, of which the search makes a new atom each time
(`generic_dylib_file.hpp:339`): one like it that was coalesced away before is
another object, so the new one is not in `coalesced`.

`NeededWhenPulled` and `SearchedInOrder` have two exceptions that follow from the
code, and that the proofs found.  `pickAtom` decides between a tentative and an
absolute definition by ordinal, so an absolute definition can lose to a tentative
one, which a member with data then overrides although the name has a definition
that is not tentative (`HasAbsolute`, `Overridable`).  And
`deadStripOptimize` searches archives only for the initial undefines, so it goes
past a dylib that was auto-linked and exports the name (`GoesPast`).

`NothingUnreachable` is stated for `-commons` modes other than `use_dylibs`, which
its proof found too.  With that mode a live-support atom can be marked because it
refers to a live tentative definition; `markLive` then follows that very fixup,
searches the dylibs for the name (`Resolver.cpp:1143`), and the export replaces the
definition for which the atom was kept.

### OutputFile

A directory maps paths to inodes and an inode has a sequence of blocks, so that
`unlink`, `rename`, `ftruncate`, writes through a descriptor and the handler's
`F_GETPATH` are told apart.  Every system call of `writeOutputFile` is a step
of its own, named for it; each can fail, and `Interrupt` (SIGINT, then
`GetPath` and `RemovePath`) and `Kill` come between any two.  A *setup* says
whether the volume is HFS (the output is mapped), whether the path leaves room for
the temporary name or has a directory, what was there before, and whether the
links overlap.

### LinkEdit, RebaseInfo and BindInfo

`mid`, `src` and `dst` are the array of `encode` and the two cursors of a pass
over it; a step of `Translate` takes one entry of the table, one of `Optimize`
one opcode or run, `Convert` makes the bytes.  Then dyld reads `data`, an opcode
a step.  The linker calculates modulo `LdWord` (2^64) and dyld modulo `DyldWord`
(the target's pointers); an immediate has `Imm` values (16), and the byte of an
opcode is merged the way the code does it, so an immediate that is too large
changes the opcode.  A uleb128 and a name take one cell.  The type of a bind is
that of a text address only in a read-only segment and for a symbol that a dylib
defines (`Proxies`), as `addDyldInfo` has it.
`DyldSegments` has its own `First`, `Joined` and `Begins` for the community
modules' `Min`, `FlattenSeq` and `IsPrefix`: it is in `LinkEdit` three times, and every
obligation of a proof would carry those modules three times too.

### Ar and ArMember

A member is a header cell and body cells, so a file that is half rewritten can
be read as the code would read it.  `st[p]` holds a process' variables: the
temporaries `t1`, `t2`, `t3`, the offset and what is left of its arguments.
`abs` is the history the properties compare with: the archive as if the
commands had run one after the other, in the order in which they closed it.
`open_archive` opens an archive that is there by two calls, the first with
`O_EXCL`, between which ranlib can unlink it (`Open`, `Reopen`).  `Flock` fails in
three ways: another process has the lock, and ar tries again; an error for which ar
gives up; or one that it takes for a file system without locks (`archive.c:163`),
when it goes on without the lock.
`exposed` is set where the code leaves the archive unprotected by its own account,
and `Serialised` says nothing from there on.  There are four such places: the test for
existence in `replace`, which precedes the lock; a file system without locks;
ranlib, which takes none; a death while writing.
`ArMember` is the same transfer for one member, byte by byte, with short reads,
short writes, the padding and the long names that `Ar` leaves out.

### OutputFlush

`output_blocks`, a list ordered by offset, is a set of records.  The four cases
of `output_flush` are `Joins`, `Follows`, `Precedes` and `StandsAlone`.  ld_classic
flushes parts in any order; libtool goes through the library from its start, but
its `trnc` takes 32 bits of a 64 bit difference, `word` in the model.  A tool
that flushes in any order has an output of less than half of the word
(`ToolsAssumption`), as negative differences must be told from large ones: the
32 bit sizes of ld_classic see to it for outputs of less than 2 GB.  What
flushes is any part not flushed before: `setup_output_flush` and the callers
divide the output between them.  `-noflush` writes the buffer at once and is
not modelled.

### DyldImages

Everything is under dyld's global lock, so the only interleaving is that of a
collection with the calls its terminators make: `gc` and `dead` say where
`garbageCollectImages` is, and the client's calls are enabled outside of it, in
a terminator and in a destructor.  Loading and linking of one `dlopen` are one step
under that lock.  Its initializers run after `dlopen` has released it
(`dyldAPIs.cpp:1492`); they are taken as part of the same step, and the image counts
as open from before its linking on.  A `dlopen` that fails has added a part of the
images, unbound (`NotFound`), or all of them, bound as far as binding went, with the
references that it noted (`NotBound`); the same collection follows both.

The terminators of a collection run in any order, where the code takes that of
loading: no property depends on it.  Of the images marked never-unload
(`dyld.cpp:4204`) only the main executable is a root: those that it needs are reached
from it, and inserted libraries, those of the shared cache and those of `NSAddImage`
are not modelled.  `leads` is what properties need and dyld does not have: where the
pointers of an image really lead.

## 3. Runs

### Runs that pass

| Run | Shows |
|---|---|
| `input_files` (`InputFiles.cfg`) | the scan for a file finds one (`assert` of `parseWorkerThread`), one parser per file, exact counts, no thread asleep without someone who will wake it, command-line order of libraries and install names, no link with a file missing; the threads implement `InOrderInputs`, fairness included: the loop ends; a parse error always ends it |
| `symbol_table` (`SymbolTable.cfg`) | the strongest definition wins in every order; no used duplicate goes unreported; every atom is bound or coalesced away, groups go away whole, alignment is the strictest |
| `resolver` (`Resolver.cfg`) | members are pulled in only when needed, first library first, and rounds end only when the libraries have no more to give; what is kept is closed and minimal if no member was loaded late; `resolve` ends |
| `output_file` (`OutputFile.cfg`) | with a temporary file, a reader of the output path never finds part of an image, whoever else links there and whatever fails; an interrupt removes the temporary it knows of; the exit status tells what is at the path |
| `link_edit` (`LinkEdit.cfg`) | no pass of `encode` changes the meaning of the opcodes at any point; dyld rebases and binds exactly the table; the weak names are sorted as coalescing needs them |
| `ar` (`ArTogether.cfg`) | processes whose lock protects the archive are serialised, whatever the commands and the order of their system calls; a process that dies while it rewrites spares the members before the change |
| `ar_member` (`ArMemberCopy.cfg`) | a member that was copied is read back as it went in, and both files are at the next member |
| `output_flush` (`OutputFlush.cfg`) | pages are written once, when all of them is final, and as soon as it is; no memory is given back that is still to be filled; both tools implement `PagedOutput`, which also means that the block list never contradicts itself and that a tool which ends well has written everything |
| `dyld_images` (`DyldImagesClose.cfg`) | nothing that is open or referred to is unloaded, nothing unused stays, terminators run before deletion, and collections end, with terminators that call `dlclose` |

### Runs with a violation

Each shows a difference between the code and what a comment or a document in
the repository says (`findings` of `PROJECT.json` quotes the lines).

| Run | Shows |
|---|---|
| `late_member` (`ResolverLateMember.cfg`) | a member loaded by `markLive` can override an atom that is marked already, or bring a root the loop is past: the image has an atom that refers to a stripped one |
| `output_interrupt` (`OutputFileInterrupt.cfg`) | SIGINT after the rename removes the finished output |
| `bind_adjacent` (`LinkEditAdjacent.cfg`) | a bind in the last slot of a segment makes the encoder go on into the adjacent one without saying so; dyld throws |

### Further configurations

These have no entry under `runs`; `tlc -config <cfg> <module>` shows what the
table says; each ends with a violation.

| Configuration, module | Property | What it shows | Against |
|---|---|---|---|
| `InputFilesSamePath`, `MCInputFiles` | `FileListIsLinked` | with a fifo, a file list that names a path twice is never linked: `waitForInputFiles` has one entry per path (`InputFiles.cpp:1161`) | `ld64/doc/man/man1/ld.1:229` |
| `SymbolTableSweptKey`, `MCSymbolTable` | `ContentsAreCoalesced` | `removeDeadAtoms` drops an entry because its *key* atom is dead although a live atom is bound to it (`SymbolTable.cpp:640`) | `ld64/doc/design/linker.html:152` |
| `ResolverLiveSupport`, `MCResolver` | `LiveSupportIsLive` | live-support atoms are looked at once, so one that refers to a later one is dropped (`Resolver.cpp:1235`) | `Resolver.cpp:1233` |
| `ResolverOptionPass`, `MCResolver` | `LibrariesExhausted` | the pass over auto-linked libraries is not repeated (`Resolver.cpp:995`) | `ld64/doc/man/man1/ld.1:59` |
| `OutputFileTemporary`, `MCOutputFile` | `InterruptCleansUp` | SIGINT between `mkstemp` and the assignment of its descriptor leaves the temporary (`OutputFile.cpp:2967`) | `OutputFile.cpp:2958` |
| `OutputFileSocket`, `MCOutputFile` | `OnlyNormalFilesDeleted` | `st_mode & S_IFREG` holds of a socket too, which is unlinked (`OutputFile.cpp:2914`) | `OutputFile.cpp:2909` |
| `LinkEditSegments`, `MCLinkEdit` | `DyldReadsTable` | a segment index that does not fit the immediate changes the opcode (`LinkEdit.hpp:332`) | `cctools/include/mach-o/loader.h:1230` |
| `LinkEditMismatch`, `MCLinkEdit` | `MismatchAsTreated` | the flag of a bind is the one fixup's, not what `-weak_reference_mismatches` makes of all (`OutputFile.cpp:4418`) | `ld64/doc/man/man1/ld.1:705` |
| `ArRanlib`, `MCAr` | `AppendedIsThere` | ranlib replaces the archive without the lock; what another `ar -q` appended meanwhile is lost (`libtool.c:2614`) | `cctools/ar/ar.1:170` |
| `ArExtract`, `MCAr` | `NewerAreExtracted` | `-x -u` goes on after an older member without skipping its body (`extract.c:118`) | `cctools/ar/ar.1:226` |
| `ArMemberNames`, `ArMember` | `MemberSurvives` | a member copied from an archive keeps its header, while its long name is padded to four bytes: if the header did not count the padding the body is not where it says (`archive.c:377`) | `cctools/ar/ar.5:96` |
| `ArMemberPartial`, `ArMember` | `MemberSurvives` | after short writes `nr -= off, off += nw` loses count (`archive.c:423`) | `archive.c:391` |
| `DyldImagesOpen`, `MCDyldImages` | `HandleMeansLoaded` | a terminator opens an image that the running collection then deletes (`dyld.cpp:4202`) | `dyld.cpp:4170` |
| `DyldImagesBind`, `MCDyldImages` | `NothingDangles` | a terminator binds to an image that the running collection then deletes (`dyld.cpp:4250`) | `dyld.cpp:4170` |

Each module has a type invariant `TypeOK`.  Those of the first three components
are part of their runs; the others hold at the bounds of the runs as well (add
`INVARIANT TypeOK` to the configuration).

### Bounds

* *Input files.*  Three files and three workers, two of them started only when a
  file is ready and nobody idle: one file being parsed, one waited for and one that becomes ready is the least
  with which the cursor can be wrong.  The second
  file is on the command line (ready from the start, and given with
  `-bundle_loader`) between two file lists, whose files the fifo makes ready: the
  cursor goes back over a file that is being parsed.  One spurious wake-up
  suffices: a wake-up leaves no trace except in the thread that is woken.  Two
  dylibs of the same install path occur since `Lib` may be the result for
  several slots.
* *Symbol table.*  Three atoms are offered out of a pool of 18 definitions of a
  name, or of 8 literals and definitions.  `StrongestBound` is a question of
  associativity, which takes three atoms; the pool has every kind of definition,
  weak, hidden, auto-hide, bitcode, with equal and different sizes, alignments,
  ordinals and paths.  That `StrongestBound` and `NoSilentDuplicate` hold
  for any number of atoms is proved (section 4).
* *Resolver.*  Six names, a main program with up to three atoms, two archives
  of up to two members and a dylib.  The search family takes all combinations
  of main programs, archives, library orders and dead stripping; the strip
  family is made so that a name is first found while atoms are marked, and
  has the command-line options that the code looks at; two links define a name
  twice, used or dead; two more command lines
  lead to the exceptions of `NeededWhenPulled` and `SearchedInOrder`.  Termination, and the
  violations, need chains of at most four files.
* *Output file.*  Two links with images of two blocks and one, over an old
  file shorter and longer than both: the least with which a mixture and a tail
  that was not cut off can be told from a whole image.  They run together where
  the output is renamed, and in turn on every kind of volume and path.
* *Link edit.*  Immediates have four values instead of sixteen, pointers two
  units and pages four, so that six rebases, or three binds, reach a run that
  does not fit an immediate, a skip that repeats three times and a delta that
  wraps.  Three layouts for rebases, two for binds, both of these with room between
  segments (adjacent ones are in `bind_adjacent`); a symbol for each kind of
  ordinal (immediate, uleb, special), the last one defined by the image itself.
* *ar.*  Two processes, every pair of nine commands, an archive with a table of
  contents and a member twice, or none; two attempts at the lock instead of ten.
  A third process adds no conflict: the archive is one file with one lock.
  *Members*: bodies of up to six bytes with a buffer of three, names of four
  lengths, every split of the reads.
* *Flushing.*  Pages of four bytes and outputs of three pages and of four, the
  last not full, in every order of parts of every size; libtool with libraries
  of four and six pages where `trnc` sees 16 or 64 values: parts then exceed
  half of its range, and all of it.
* *dyld.*  Four images, one a dependent of another and one that binds by flat
  lookup, two handles of each at a time.

No symmetry sets are used: names of the resolver are ordered (its maps are),
slots and workers are numbers, and linkers and `ar` processes have different
images and commands.

### Fairness

* `InputFiles!FairSpec`: weak fairness of each thread.  A thread that is not
  blocked is scheduled; a mutex that is released is got by a waiter in time as
  each thread holds it for a bounded number of steps; the fifo's writer (the
  compiler) eventually names the files it was asked for or closes the fifo,
  which the code turns into an error.  Spurious wake-ups are not fair.
* `Resolver!FairSpec`: weak fairness of `Next`; one thread that runs on.
* `DyldImages!Fairness`: weak fairness of the collector's own steps: the thread
  runs on, and terminators and destructors return.  What clients call is not
  fair.  A terminator runs once per load, which is why a collection that is
  asked for again and again still ends.

Deadlock is checked in the runs `input_files`, `symbol_table`, `resolver`,
`link_edit`, `output_flush` and `dyld_images`, where ended programs stutter
explicitly.  In `output_file`, `ar` and `ar_member` the processes come to an end
and there are no more of them; in `InputFilesSamePath.cfg` the program does stop.

## 4. Proofs

### InputFilesProofs

For any `NFiles`, `NCPU`, `Files`, `FromFileList`, `BundleLoader`, `Path` that
satisfy the assumptions of `InputFiles`:

* `TypeCorrect`, `AssertionHolds` (`ScanFindsFile`), `ParsedOnce`
  (`OneParserPerFile`), `RemainingCounted` (`RemainingExact`), `NoLostWakeup`
  (`MainSleepsForAReason`), `WorkServed` (`ReadyWorkIsServed`), `DoneMeansParsed`
  (`AllParsedWhenDone`);
* `OrderKept` (`CommandLineOrder`): the list of libraries is, slot by slot, what the
  main thread has taken so far, and an install path belongs to the first dylib
  on the command line that has it;
* `Refinement`: `Spec => InOrder!Spec`, from `InitRefines` and `StepRefines`.

The inductive invariant `IInv` is needed since none of these is inductive by
itself: that the scan finds a file needs that `availableInputFiles` is the
number of ready files (`CountInv`) and that none is behind the cursor
(`FileStageInv`); that no wake-up is lost needs the lock (`LockInv`), the
number of idle workers, and that workers leave only when nothing remains
(`WorkerInv`); that the main thread's wait ends with an error needs that a
worker which failed holds the lock until it has signalled (`SleepInv`); and
that a link with a parse error never gets to its end needs that the failed file
is in nobody's hands (`FailInv`).  Counting steps use `FiniteSetTheorems`.
`OrderInv` is what `CommandLineOrder` needs: only the main thread touches the
lists, and it goes through the slots one by one, each with a published file.

### SymbolTableProofs

For any atoms, names, contents, groups, options and number of atoms offered:

* `TypeCorrect`;
* `NeitherLostNorRevived` (`BoundOrCoalesced`), `AlignmentKept`
  (`StrictestAlignment`);
* `OrderIndependent` (`StrongestBound`): rests on lemmas about `PickAtom`, that
  the one chosen ranks at least as high as the other and that this ranking is
  transitive;
* `DuplicatesReported` (`NoSilentDuplicate`);
* `GroupsWhole` (`GroupsStayWhole`), under the hypothesis `OwnSubordinates`: no
  two atoms have a subordinate in common.  The object parser makes it so: an FDE
  gets the group-subordinate fixup of its function and an LSDA that of its FDE
  (`macho_relocatable_file.cpp:5010`, `5014`, `5403`).  `Group` is a closure of any
  depth, defined as a least set and not by recursion; the lemma `GroupClosed` says
  what of it the proof needs.

`IInv` adds that entries have slots of their own, that names are bound to what
was offered for them, and that an atom coalesced away *before* it is offered
(a reference had put it into its slot) has lost to a stricter alignment and so
will not get its slot back (`PendingInv`).  `DInv` adds, for duplicates, that a
name bound to one of several strong definitions has that one on its list.

### ResolverProofs

For any names, atoms, object files, archives, dylibs, auto-linked libraries and
options that satisfy the assumptions of `Resolver`:

* `TypeCorrect` (`TypeOK`);
* `PulledWhenNeeded` (`NeededWhenPulled`) and `LibrariesInOrder`
  (`SearchedInOrder`);
* `RoundsExhaust`: the action property `RoundsExhaustLibraries`.

`IInv` is the inductive invariant.  A member is loaded some steps after the
decision to search for a name, and what makes it needed happened long before:
`FilesInv` says that each atom of the files read so far is on its way to
`doAtom` or has left its name bound, and to what; `SearchInv` carries the reason
for a search through its steps, and what the libraries left behind have; `SeenInv`
and `PhaseInv` say what the slots and the loops hold.  For the rounds,
`RoundInv` says that, as long as the round has made no slot (`undefineGenCount`
is what it was), an undefined name is still on the list, is being searched for,
is in the atoms on their way, or is in none of the libraries.

The second part of the module is about dead stripping, under the same assumptions:

* `KeptIsClosed` (`KeptClosedUnlessLate`): if no member was loaded while marking,
  the image has no atom that refers to something not in it;
* `NothingKeptUnneeded` (`NothingUnreachable`): `markLive` marks no more than the
  least set that keeps the roots alive.

Its invariant is `SInv`, kept on top of `IInv`.  `FreshInv` is what makes a bound
atom one that is not coalesced away: nothing goes to `doAtom` twice, since an atom
is in one file, a file is read once, and a search that goes on after a weak export
is in later libraries.  `MarkingInv` is the invariant of `markLive`, a depth-first
search that is interrupted by searches of libraries: each fixup of a live atom is
followed, or a call on the stack has it before it, or it refers to the name at
hand; once the stack is empty, what is live is closed.  `ProxiesInv` says that
with `-undefined dynamic_lookup` every name is bound when atoms are marked, so
that `checkUndefines` need not look; `CollisionInv` that
`checkDylibSymbolCollisions` brings only exports of dylibs; `KeptInv` carries the
closure through the last phases.  `ReachInv` says of every set that keeps the
roots alive that it has all that is live, with the name that is being searched
for left out, since dylibs may bind it more than once (`Moving`).

### OutputFileProofs

For any number of links of one output, images and old files of any size, every
volume and kind of path: `TypeCorrect`, `OutputReplacedWhole`
(`OutputWholeOrAbsent`), `InterruptCleans` (`InterruptRemovesTemporary`),
`ExitStatusTells` (`ExitTellsOutput`).

`TemporaryInv` says which file a temporary name and a descriptor lead to at each
system call of each link; `WholeInv` that the path leads to a device, which stays,
or to files that were complete when they were renamed; `AloneInv`, for links that
run one after the other, what is in the file at each step of the one at work and
that no other file has blocks of its image.

### LinkEditProofs

For any rebases and binds, in any number, any layout of segments, any ordinals,
addends and overrides, any size of a pointer, of ld's word, of dyld's (which
divides it) and of an immediate:

* `LinkEditPassesKeepMeaning` (`PassesKeepMeaning`), `LinkEditDyldReadsTable`
  (`DyldReadsTable`), `LinkEditWeakNamesSorted` (`WeakNamesSorted`),

under two hypotheses on the images.  `FewSegments`: the index of every segment fits
the immediate of its opcode; `Gaps`: with binds in it, the sections of a segment end
before those of the next begin.  Neither can be dropped: `LinkEditSegments.cfg` and
`LinkEditAdjacent.cfg` are the counterexamples without them.  `TablesAssumption`
says what symbols are: numbers from 1 on (0 stands for "none yet" in `encode`), and
library ordinals that are above the special ones an immediate can hold and are not
the value `encode` starts from.

`IInv` is `RInv` for the rebase table, `BInv` for the bind and the weak table and
`LInv` for the lazy table.  None of the three properties is inductive, since what a
pass has written and what it has still to read are only together the table.  The
invariant says of every point of a pass that there is a run of dyld, state by state,
over what is written and then over what is to be read, which ends with the entries
translated so far and never goes out of a segment; and of what is written that the
next pass can rely on it (what `Pairs` leaves for `Skips`, what immediates fit).  A
step takes a piece of that run and puts in one with the same ends: the lemmas on
`RebaseTimes` and `BindTimes` say that runs of repeated opcodes, with and without
skips and modulo either word, add up.  For the translation the invariant holds a
state of dyld that agrees with `encode`'s own (`address`, segment, symbol, ordinal,
type, addend); the agreement on segments is what `Gaps` is for.  `Convert` gives
the bytes of each opcode an offset; while dyld reads, `p` is one of these offsets and
`dyld` the state of the run there.

What a table of opcodes computes, and where its bytes are, are recursive functions
in the model, which TLA+ takes as a `CHOOSE` of a function that satisfies the
equation.  The induction over them is done without a theorem that takes an operator:
the set of numbers at which a fact fails would have a least member (`Least`, from
which `SetInduction` follows), and that there is such a function is shown by
lengthening one an argument at a time (`JoinedIs` and its like).

### OutputFlushProofs

For any size of a page, an output and its parts, and any order of the parts:
`WrittenOnce` (`WrittenOnceAndFinal`), `FullPages` (`FullPagesWritten`), and
`Refinement` (`ImplementsPaged`, the whole of `PagedOutput!Spec`, which has no
fairness).

The invariant is the data structure's: a block covers bytes that were flushed,
its written part begins at the first page boundary in it and ends at the last,
blocks neither overlap nor touch, and a byte is on disk if and only if the
written part of a block has it.  The arithmetic of `rnd` and `trnc` is in lemmas of their
own.  The proof for tools that flush in any order failed for an output of
exactly half of the word, which is why `ToolsAssumption` says "less than".

### DyldImagesProofs

For any images, dependents and binders, under the hypothesis that terminators
call nothing of dyld but `dlclose` (`InTerminators \subseteq {"dlclose"}`):
`TypeCorrect`, `HandlesHold` (`HandleMeansLoaded`), `PointersHold`
(`NothingDangles`), `CollectedAll` (`NoGarbage`), `TerminatorRunsFirst`
(`TerminatedFirst`).  The hypothesis cannot be dropped: `DyldImagesOpen.cfg` and
`DyldImagesBind.cfg` are the counterexamples with the other two calls.

The invariant says where a collection is: what is to be deleted is disjoint from
a set that has all that is open and is closed under what `markedUsedRecursive`
follows (`Closed`), and stays so as `dlclose` only takes from the roots; a request
for another collection is pending whenever something may have become garbage.  What
a failed `dlopen` leaves, bound or not, is not reached from what was there
(`Separate`).

### ArMemberProofs

For bodies, names and buffers of any size and every split of the reads,
`MemberCopied` (`MemberSurvives`), under two hypotheses: `write()` takes all it
is given, and the names in the archive that is read are padded to four bytes, as
ar pads those it writes.  `ArMemberPartial.cfg` and `ArMemberNames.cfg` are the
counterexamples without them.  The invariant `IInv` says that what is written is
the header, the padded name and as much of the body as `sz` and the buffer leave,
and that the file that is read is at the same place.

### Only model-checked

* Liveness (`ParseErrorEndsLink`, the fairness part of `ImplementsInOrder`,
  `Termination`, `CollectionEnds`): beyond the prover.
* `Serialised` and `DeathSparesUnchanged` of `Ar`: not proved.  A command goes
  through the archive member by member, and that this makes what `Apply` says of the
  whole of it takes an invariant that relates every temporary file and the arguments
  left to the members that are passed (plan, 2).

## 5. Not modelled

* Parsers of binary and text formats, the assembler, `otool` and the filters of
  cctools: sequential functions of bytes.  What the parsers return are the
  constants of the models.  These are most of the lines of the repository.
* Link time optimisation itself: an external library decides what comes back.
  What it does to the symbol table is in `SymbolTable` (sweep, then more
  atoms).
* In `InputFiles`: the fifo's bytes, and how `makeFile` parses (it is any of its
  possible results, or an error); in the loop over the
  command line, what happens with the atoms (`Resolver`).  Indirect dylibs,
  which are loaded after the loop by the main thread alone.
* In `Resolver`: literals coalesced by content (they are in `SymbolTable`),
  indirect dylibs, `-all_load`/`-force_load`/`-ObjC`, aliases, `-r`, helper
  symbols of the linker, link time optimisation.
* A name with both a tentative and an absolute definition is left out of
  `StrongestBound`: `pickAtom` goes by file order there, so the result does
  depend on a third definition in between, and nothing in the repository says
  what it should be.
* Of the output: fixups, the export trie, symbol tables, the other encodings of
  `__LINKEDIT`, load commands, the UUID.  What a disk holds after a crash of
  the machine (the code calls no `fsync`).
* Of ar: `-p` and `-t`, which only print; times and modes that `-o` restores.
* Of dyld: the shared cache, the order of initializers, insertion, callbacks,
  the resolution of symbols; several threads, which its global lock keeps apart.
* Of ld_classic: all but the flushing of its output; what it links is the older
  form of what ld64 does.

## 6. Plan

Done, in this order: `InputFiles` with its abstraction and proofs;
`NameCollision` and `SymbolTable` with proofs; `Resolver`;
`OutputFile`, `Ar`, `ArMember`, `LinkEdit` with its parts, `DyldImages` and
`OutputFlush` with its abstraction; proofs about `OutputFile`, `DyldImages`,
`OutputFlush`, `Resolver` (searches, then dead stripping), `ArMember` and
`LinkEdit`.

Next, most important first:

1. `Resolver`: forced loads, indirect dylibs, aliases; refinement of an abstract
   "least set of files that is closed under search" by the search rounds.
2. `Ar`: `Serialised` from an invariant over the lock and the temporaries, with the
   results of commands as constants.
3. The merge of the weak binding tables of all images in dyld's `weakBind`, on
   top of what `BindInfo` writes; the export trie with its iteration to stable
   offsets.
4. `BranchIslands`: placement of islands, and that every branch reaches.
