# minecraft-carve in TLA+

TLA+ modules, TLC configurations and TLAPS proofs for
[minecraft-carve](../src/README.md), which looks for the blocks of deleted
Minecraft region files in filesystem images.

Paths are relative to the repository. "Block" is a 4 KiB block unless said
otherwise; `sector.cpp`, `BlockReader.hpp` and so on are in `minecraft-carve/`.

## The system

| Part | State it keeps | Operations |
| --- | --- | --- |
| block classifiers, `sector.cpp` | none | `is_mostly_zero`, `has_timestamps`, `has_offsets`, `has_encoded_chunk` |
| ext2 access, `ext2filesystem.cpp` | the libext2fs handle | `IdentifyExt2FS`, constructor, `block_is_used`, `read_block`, three getters |
| block readers, `BlockReader.hpp` | an `Ext2Filesystem`, an `ifstream` and a block count, or a mapping and a block count | constructor, `read_block`, `first_blknum`, `blocks_count`, `is_allocated` |
| `apps/mcarve.cpp` | options, window, loop counters, the pending run of chunk headers, the report | `main` |
| `apps/dump_unused_blocks.cpp` | options, two `ofstream`s, a buffer, the loop counter | `main` |
| `CLI11/CLI11.hpp`, defining | apps and options: names, sizes, links, parents | `add_option`, `add_flag`, `add_subcommand`, `excludes`, `remove_option` and so on |
| `CLI11/CLI11.hpp`, parsing | what options have collected, what apps were used and are missing, the call stack | `App::parse`, the callbacks it calls |
| `nbtview` | git submodule, no files here, used by no source yet | |
| passes 2 to 4 of the README | no code | |

Everything is one thread in one process, and nothing is persisted between runs,
so there are no interleavings of the program with itself and no recovery. The
parts interact by calls: `mcarve` asks `IdentifyExt2FS`, makes an
`Ext2BlockReader` or a `FileBlockReader`, reads every block that is not
allocated into one buffer and asks three classifiers about it.
`dump_unused_blocks` uses `Ext2Filesystem` directly. Both define their options
with CLI11, a header of almost ten thousand lines that is vendored here, and
have it parse their command line. What is hard is:

- failure of a call in the middle: the state of a stream that nobody looks at
  (`FileBlockReader`), that is looked at rarely (`dump_unused_blocks`), or an
  exception that nobody catches (both programs);
- state carried from one iteration of a loop to the next: the buffer, the count
  of the current run of chunk headers, the error state of the streams;
- order: options used before they are parsed, an empty entry of a table that
  `has_offsets` turns down after a chunk and not before it, a map visited in the
  order of its keys;
- order again: CLI11 takes values from the line, files and the environment, and
  validates, converts and calls back at different moments of a parse;
- long sequences of legal calls: apps and options defined, linked, renamed,
  moved and removed in any order; a second parse after the first;
- numbers: a cumulative bound where the documentation asks for a pairwise one,
  one byte of a word where it says a word, limits on blocks and offsets.

`PROJECT.json` lists these as hazards, each at its line, with the properties
that would catch it going wrong, or with a note why there is none. What makes
each part correct:

- classifiers: `has_offsets` rejects no genuine header whatever the order of the
  table, and is as strict as the documented check wherever a table has no gaps; no
  block is of two types;
- readers: a `read_block` that returns has delivered the block;
- `mcarve`: the report can be parsed, and says of every block it should look at
  what the block is, or the program does not exit normally;
- `dump_unused_blocks`: success means complete files, and failure never leaves
  files that disagree;
- CLI11, defining: no two things answer to one name, a call that throws has
  changed nothing, links have two ends;
- CLI11, parsing: a success meets every requirement, bound variables have the
  values the options show, callbacks come when they should, every argument is
  used, and a parse depends on its input alone.

## The modules

| Module | Models |
| --- | --- |
| `Buffers` | a block's worth of 32-bit words (`BlockBuffer`) |
| `Sector` | the four classifiers as functions of a buffer |
| `OffsetScan` | `has_offsets` loop by loop |
| `SectorClasses` | the four questions about one buffer, `has_offsets` by its loops; the relations between the answers |
| `Image` | the image file, external to the code |
| `Ext2Filesystem` | `ext2filesystem.cpp` by the outcomes of its calls |
| `BlockReader` | the operations of the three readers, one action for each way an operation can end |
| `BlockSource` | abstract: what `BlockReader` promises its caller |
| `ReaderClient` | external to the code: a caller of one reader; implements `BlockSource` |
| `Carver` | abstract: what a scan for candidate blocks is to find |
| `Mcarve` | `main` of `mcarve`, on `BlockReader` and `Sector`; implements `Carver` |
| `DumpUnusedBlocks` | `main` of `dump_unused_blocks`, on `Ext2Filesystem` |
| `CliSizes` | how many strings an option of CLI11 takes, and the setters of that |
| `CliOption` | class `Option`: collecting, validating, reducing, calling back |
| `CliDefinition` | what an `App` is defined to be |
| `CliApp` | what an `App` is found in while it parses, and the questions the parser asks |
| `CliParse` | `App::parse` |
| `CliBuild` | the calls by which a program defines apps and options |
| `MC...` | instances for TLC |
| `..._proofs` | theorems about the module named |

`Buffers` <- `Sector` <- `OffsetScan` <- `SectorClasses`;
`Buffers` <- `Image` <- `Ext2Filesystem` <- `BlockReader` <- `ReaderClient`;
`Sector` + `BlockReader` <- `Mcarve`; `Ext2Filesystem` <- `DumpUnusedBlocks`;
`CliSizes` <- `CliOption` <- `CliDefinition` <- `CliApp` <- `CliParse`;
`CliDefinition` <- `CliBuild`;
`Sums_proofs` <- `OffsetScan_proofs` <- `SectorClasses_proofs`;
`Sums_proofs` <- `Mcarve_proofs`, `CliBuild_proofs`, `CliParse_proofs`
(`A <- B`: `B` extends `A`).

**Words.** A buffer is an array of `Size` words (1024 in the program), each
standing for its four bytes as a big-endian number, which is what the code makes
of it with `__builtin_bswap32`. `is_mostly_zero` does not swap; its predicate
looks at the least significant byte of the load, which is the first byte in the
buffer, `FirstByte`.

**`OffsetScan`.** `next`, `chunk_length`, `offset_count` and
`min_allowed_offset` are the function's variables; `unvisited` is the part of
the map the second loop has not reached. Each way an iteration can go is an
action: `RejectField`, `SkipEmptyField`, `RecordField` for the first loop,
`RejectLength`, `VisitLength` for the second, `RejectSparseTable` and
`EnterLengthLoop` between them. `Sector!HasOffsets` describes the outcome without
the loops, for the modules that only need the answer.

**`BlockReader`.** `read_block` of each reader has an operator of its own for the
block delivered (`Ext2ReadBlock`, `FileReadBlock`, `MmapReadBlock`) and for the
exception (`Ext2ReadThrows` and so on); `ReadReturns` and `ReadThrows` are the
virtual call. `reader.good` is the state of `FileBlockReader`'s `ifstream`.
A read of a plain file that fails (`ReadFails`) leaves a prefix of the block and
the rest of what the buffer held, and clears `good`; from then on a read returns
and does nothing (`ReadIgnored`), because `seekg` and `read` do nothing on a
failed stream and `read_block` looks at nothing. The ext2 reader turns errors
into exceptions (`ReadThrows`). A page of a mapping that cannot be read ends the
process (`ReadKills`). `Faulty` names the readers whose calls may fail in an
instance, and `"identify"` lets `IdentifyExt2FS` fail to read the magic number.

**`Mcarve`.** `pc` runs through `window` (`mcarve.cpp:61-69`), `parse` (71),
`identify` and `open_...` (73-78), `start` (84-91), and then `scan` and
`classify`, the two halves of an iteration: `SkipAllocated` is the `continue`,
`ReadBlock` the read, `Classify` the rest of the body with all it prints. The
report is the sequence of items written to `cout`. An exception ends in
`aborted`, which is where an uncaught exception of `main` goes.
`sector_buffer` is uninitialised in the program: the model starts with any
buffer of `Garbage`.

**`DumpUnusedBlocks`.** Each `ofstream` has the items that reached its file and
those it still holds; a write moves any number of them, so the moment a failure
shows is arbitrary. After a failure the stream is `bad` for good. What a failing
write leaves behind its last whole item is not modelled. The two writes, the
check at multiples of 1024 and the final flush are actions of their own.

**CLI11.** A string is a sequence of symbols: a symbol is a character the parser
looks for, such as `-`, `=` or `[`, or stands for a run of characters into which
it never looks. So `--start=x` is `<<"-", "-", "start", "=", "x">>`, and how the
parser takes it apart is modelled by what it does. Validators and conversions
are tables of an option: the strings they turn down and what they turn others
into. The order in which they are applied, and to which values, is the code's.

**`CliOption`.** What an option is defined to be (`Interfaces[cli].options`) does
not change while it parses; what it has collected (`options`) is a record of the
results, the reduced results and the state of the `Option`'s own state machine
(`parsing` to `callback_run`).

**`CliParse`.** The parser is recursive: `_parse` of an app calls that of a
subcommand, options call back, groups are processed while their parent is. The
variable `todo` is this call stack, a list of what is left to do, the innermost
first; a step takes the first task, does the whole of one handler of the source
and may put further tasks in front. An exception ends all of them, because no
handler in between catches it, but for that of a missing configuration file,
which waits for the callbacks and the help flags (`FileError`, 8136); the other
`catch` blocks end within a handler. `called` and
`taken` record which callbacks were called, and with what. A program may parse
again, with the same or another input (`Scripts`).

**`CliBuild`.** Each call that defines something is an operator from a definition
to what it returns, another definition or a throw. It is written in the order of
the code, so a call that throws half way returns what it had changed by then.
`cli.home` is `Option::parent_`, which stays with the app that made an option.
An option or app that was removed keeps its identity, as a pointer to it does:
`AppIds` and `OptionIds` are the identities there are, `Unused` picks a new one,
and `Root` is the app that is no subcommand. A program is the definition it has
made (`start`) and the calls with which it goes on.

## The runs

| Run | Configuration | Question |
| --- | --- | --- |
| `classifiers` | `MCSectorClasses.cfg` | What does `has_offsets` accept, what has the order of a table to do with it, and how far is it from the documented check? Can a block have two types? When is `is_mostly_zero` right? |
| `readers` | `MCReaderClient.cfg` | Do the readers keep the interface's promise when calls below the ext2 and mmap readers fail? |
| `mcarve` | `MCMcarve.cfg` | Does `mcarve` find what is there, on whole, cut off and failing images, and end? |
| `mcarve_faults` | `MCMcarveFaults.cfg` | What is still true of the report, and of what `mcarve` is handed, when every call may fail? |
| `dump_unused_blocks` | `MCDumpUnusedBlocks.cfg` | What do exit status and files say of each other when anything may fail? |
| `cli_parse` | `MCCliParse.cfg` | What does CLI11 make of every short line, with configuration files, the environment, groups and subcommands? |
| `cli_build` | `MCCliBuild.cfg` | What can go wrong in a definition, whatever calls it is made by? |

These pass. Each property has a mutant of the code it catches (the definitions
marked "Mutant" in the modules). What they show:

- `VerdictExact`, `OrderMattersForEmptyRepeatsOnly`, `DiffersOnlyBehindGaps`,
  `NoGenuineHeaderRejected` (`OffsetScan`): the loops return `HasOffsets`. A
  table that some order of its entries would make acceptable is rejected only if
  an empty entry of it has the offset of a chunk. Measured against the check that
  `README.md:64` describes, the cumulative one rejects nothing more, and what it
  accepts more are chunks that another one runs into where sectors below are
  free. Hence no genuine header with at least four chunks is rejected.
- `AtMostOneClass`, `MostlyZeroErrsOneWay` (`SectorClasses`): the three tests of
  `mcarve` exclude each other, by the numbers: offsets have 16 bits, `02 78 9c`
  is a date of 1971 and the window starts in 2008. A no of `is_mostly_zero` is
  always right; a yes is right of a timestamps block.
- `ImplementsBlockSource` (`ReaderClient`): the ext2 and mmap readers deliver or
  throw.
- `ImplementsCarver`, `RunsExact`, `TablesExact`, `ReportParses`,
  `SameBytesOnceMisdelivered` (`Mcarve`): without failures of plain reads `mcarve`
  implements the abstract scan, so it exits normally only after examining, listing
  and counting all it should; with them the report still parses and is exact up to
  the first failure. Once a read has handed `mcarve` something else than the block
  it asked for, it is handed the same bytes for all the rest of the image.
- `FilesArePrefixes`, `SuccessIsComplete`, `WriteErrorsSurface`
  (`DumpUnusedBlocks`): the rare and skippable error check is enough, since a
  stream stays bad and the final flush and check always come; and table and
  data never disagree as far as both go.
- `OutcomeOfInput`, `RequirementsMet`, `StoredIsShown`, `HelpBeforeComplaints`,
  `FinalCallbacksLast`, `FinalCallbacksAsOftenAsUsed`, `EveryArgumentMoves`
  (`CliParse`): a second parse of the
  same input has the outcome of the first, although only `clear` resets what the
  first one left; a success meets the requirements of every app and group in
  use, whichever way the values came; the last value a callback was handed is
  the one the option shows; help goes before complaints; the final callbacks
  that wait for the end come when nothing can be complained of any more, of apps
  in use only, and no more often than these were used; and the next argument is
  never looked at without moving, which is what ends the loop of `_parse`
  (`CLI11.hpp:8369`).
- `HelpFlagsOwned`, `ExclusionsSymmetric`, `EveryOptionCanBeGiven`, `NoNewClash`,
  `NoNewCommandClash`, `FailuresRollBack`, `LinksGoWithTheOption` (`CliBuild`):
  the help flags an app looks for are its own, exclusions have two ends, some
  number of strings is right for every option, no call makes two options or two
  commands answer to one name, a call that throws leaves the definition as it
  was, and no option beside it still needs or excludes one that was removed. The
  exceptions the code makes are named in the properties and listed below.

Five more runs are expected to find a violation: they state what a comment, a
help text or another document of the repository says and the code does not do.

| Run | Says | Does |
| --- | --- | --- |
| `file_reader_delivers` | `BlockReader.hpp:26`, "Reads the block ... into a provided buffer" | returns normally from failed reads (`BlockReader.hpp:90-91`) |
| `accepted_lengths_fit` | `README.md:64`, "require the lengths to be no greater than the difference between successive offsets" | each offset is compared with the sum of all lengths before it, so chunks may overlap behind a gap (`sector.cpp:77-80`) |
| `mostly_zero_counts_words` | `sector.hpp:19`, "less than 10 nonzero 32-bit words" | one byte of each word is looked at (`sector.cpp:18`), so a full offset table is mostly zero |
| `start_option` | `mcarve.cpp:49`, "Minimum accepted timestamp" | `--start` and `--stop` have no effect (`mcarve.cpp:61-71`) |
| `cli_option_group` | `CLI11.hpp:6775`, `_parse_single` will parse one argument, "delegate to parent if fails" and "return false if the parse has failed" | an empty argument enters a group of options by the group's empty name, and an unknown option after it is looked at for ever (`CLI11.hpp:8369`) |

Smaller disagreements seen while modelling, without a run of their own. In the
programs:

- every block should be recorded (`README.md:57`), but the scan stops at block
  400000 and `mcarve` exits normally (`mcarve.cpp:85`), and of the chunk headers in
  a run with gaps only the first is named (`mcarve.cpp:112-117`);
- files between 256 and 512 MiB (`README.md:62`, `sector.cpp:55`); offsets
  relative to the end of the header (`README.md:31`) against absolute ones
  (`sector.cpp:74`, which is what Minecraft writes); a chunk length of exactly
  1 MiB (`README.md:80`, `sector.cpp:98`); the default start of the window
  (`README.md:74` has 2009, `mcarve.cpp:47` has 2008).

In CLI11 (lines of `CLI11.hpp`):

- `App::clear` is to "reset the parsed data" (6366), but `Option::clear` leaves the
  reduced results (4497), which the next parse reads if the option is given with
  exactly one string and has no validators (4806-4807): a configuration file option
  with the policy `TakeLast` that reduced two values in one parse reads that file
  again in the next; `parse_order_` and the extras of a subcommand that is cleared
  in the middle of a parse stay, too;
- a subcommand `do_it` that ignores both case and underscores can never be called
  (7689-7691: its own name keeps the underscore; the comment at 6683 says
  otherwise);
- `_parse_subcommand` tries a positional first where a required one is still
  missing, and returns true whether it was taken or not (8551-8556): if validation
  turns the string down and a sibling subcommand has its name, which
  `_parse_positional` leaves to the parent, `_parse` looks at it for ever;
- the final callback of a group with a parse-complete callback comes before the
  requirements are looked at (7961; 5671 says it "runs when all processing has
  completed"), and again at the end; so do those of a section with one (8272) and of
  what is below it;
- a command that was used twice calls the final callbacks of those used below it
  each time, so a section that is opened twice inside one that is opened twice
  is called four times (8266, 7832);
- a flag of a command with a parse-complete callback that a file sets after the
  command was used gets no callback (8144, 7973);
- a root that excludes or needs something is not asked for anything on an empty
  line, not even for its required options (8000-8045);
- a group of a command with an immediate callback that is used again loses its
  count (8760), and arguments left over in it go unnoticed (8150);
- `retire_option` on a flag with a default value throws `BadNameString`, and on
  the help flag `OptionAlreadyAdded`; `set_help_flag` (7080), `set_config` and
  moving a subcommand lose the old thing when the new one is refused;
- `add_option` under defaults that ignore case or underscores throws with the
  option already added (7061);
- an option that was moved to a group keeps the app it was made in as its
  parent, whose names it is then compared with (5097); two options of which one
  ignores case and the other underscores may both answer to a third string;
- `remove_option` leaves `version_ptr_` and `config_ptr_` and the links of other
  apps pointing to what was removed (7230), `Option::remove_excludes` removes
  one of two ends, enabling a subcommand is not checked for clashes, and a
  second `TriggerOn` replaces the first.

### Bounds, and why they are enough

- `OffsetScan` and `SectorClasses`: buffers of twelve words, so that counts on
  either side of the threshold of ten occur, and the code's own constants. Every
  table of five entries out of ten, the others absent: five entries allow the four
  chunks a table needs and one that is absent, empty, a repetition, or one chunk too
  many; the ten include a chunk in the header, a gap in front of an overlap, and
  offsets at and just past the limit. And mixtures of tables, timestamps, zeros and
  words that fit nothing, behind two words at the edges of the three tests.
- `ReaderClient`: eight images of up to three blocks of two words: empty, less
  than a block, a partial last block, filesystems whole, cut off, followed by
  other data, with other block sizes and without readable bitmaps; every number
  in and just out of range; two initial buffers. A caller's state is its last
  call, so there is no bound on the number of calls.
- `Mcarve`: all images of four plain blocks or of two or three filesystem
  blocks over four contents (empty, timestamps, offset table, chunk), with
  several bitmaps, blocks of four words, so four entries fill a table;
  `ScanLimit` 3, so plain images exceed it; `TimeModulus` 200000000 in place of
  2^32, with a clock before and one past the wrap. Runs of headers of length
  one to three, with and without gaps, ended by tables and by the end, occur.
- `DumpUnusedBlocks`: filesystems of four blocks of the buffer's size or half
  of it, every subset of the relevant blocks used or zero, files cut off;
  `CheckInterval` 2, so blocks with and without a check alternate.

- `CliParse`: six interfaces, mcarve's own among them and each of the others with
  features that depend on one another (a configuration file, subcommands and the
  environment; groups with requirements; a command carried out at once and used
  again; pairs, lists, optional values and Windows style; positionals at the end
  and a prefix command). Lines have up to three words, four where a command is
  used twice or positionals fill up, from which every pair of features meets;
  each line is parsed twice. The words do not include the empty string, which is
  `cli_option_group`'s. `ImmediateCli` has a group with a parse-complete callback
  and a final one, too (see 7961 above).
- `CliBuild`: five programs, each with the calls that bear on one another (names
  and the help flags; names, cases and links; commands; links of apps; sizes),
  from starts made by the calls themselves, and then any three calls
  (`MaxCalls`): one that makes a thing, one that changes it, one that finds out.
- `INT_MAX` 1000 and `expected_max_vector_size` 160 stand for 2^31 - 1 and 2^29,
  so that products overflow here, too.

`Size`, `ScanLimit`, `TimeModulus` and `CheckInterval` stand for 1024, 400000, 2^32
and 1024, and in the runs of `Mcarve` `MaxOffset` is 7 instead of 0xffff.

### Fairness

`FairSpec` adds `WF_vars(Next)` in `OffsetScan`, `Mcarve` and
`DumpUnusedBlocks`: each is one thread, and as long as it can take a step it
takes one. None of the calls waits for another process, and a call that fails is
a step like any other. Which of several outcomes a call has is never subject to
fairness: no property relies on a call succeeding in the end.

`CliParse` has no fairness and no liveness property: that a parse ends is stated
as `EveryArgumentMoves`, a property of states, since each of the other tasks is
taken from the stack for good and every line is finite.

`CHECK_DEADLOCK FALSE` is in the configurations of `ReaderClient` (the process is dead after a constructor
has thrown or a mapped page could not be read), `CliParse` (all of a script has
been parsed) and `CliBuild` (`MaxCalls` calls were made). The other modules have an
explicit step for a program that has ended.

## The proofs

The modules named `..._proofs` are checked by TLAPS, for every value of the
constants that satisfies the named assumptions.

`OffsetScan_proofs`, from `SizeAssumption` (a positive number of words),
`MaxOffsetAssumption` and `SubjectsAssumption` (the argument is a buffer):

- `TypeCorrect`, `GapsAreAllThatDiffers` (`DiffersOnlyBehindGaps`),
  `OrderMattersLittle` (`OrderMattersForEmptyRepeatsOnly`) and
  `GenuineHeadersAccepted` (`NoGenuineHeaderRejected`).
- What the cumulative check amounts to is stated as `AcceptsExactlyCompactable`:
  the accepted tables are the well-formed ones whose chunks can be moved down, in
  the order of their offsets, to disjoint places behind the header. The verdicts
  are not inductive. `IInv` adds what the variables mean in the middle of a loop:
  `chunk_length` and `offset_count` describe the entries before `next`, which
  repeat no offset (`PrefixInv`), and the sweep of the second loop has found a
  placement of the chunks it visited that ends at `min_allowed_offset`, while no
  placement can end lower (`SweepInv`). The first half gives acceptance, the second
  rejection. The step that visits a chunk extends the placement; the one that
  rejects shows that any placement would have to put the chunk above its own
  offset.
- The theorems follow from the placement. A table that passes the documented
  check is its own placement (`DocumentedIsCompactable`), and so is a region
  header. Where one chunk runs into another, the placement has moved it down, and
  the first of the chunks moved down has a free sector just before it
  (`OverlapNeedsGap`).
- `VerdictIsHasOffsets` (`VerdictExact`): the loops return what `HasOffsets` says
  of the buffer without them. `VerdictInv` adds that `min_allowed_offset` is the
  header and the sum of the lengths of the chunks visited, each of which passed
  the check of `HasOffsets`, so that the comparison made in the loop is the one
  `HasOffsets` makes for that chunk. `OrderMattersLittle` is a consequence:
  `HasOffsets` turns down a repeated offset, which is one of two chunks or one of
  a chunk and an empty entry (`RepeatsAndDistinct`).

`SectorClasses_proofs`, from `WindowAssumption` (the window starts after the
date `02 78 9c` spells), `OffsetWidthAssumption` (offsets of at most 16 bits) and
the assumptions of `OffsetScan_proofs`:

- `OneClass` (`AtMostOneClass`) and `MostlyZeroUndercounts`
  (`MostlyZeroErrsOneWay`).
- What separates the classes is three lemmas about one word each, in a buffer that
  `HasOffsets` accepts; `VerdictIsHasOffsets` says that the loops accept no other.
  Another lemma says that a timestamp of the window has a first byte that is not
  zero.

`ReaderClient_proofs` and `Mcarve_proofs` begin with lemmas about the readers:
what each operation leaves in the buffer and in the stream's state, from
`SizeAssumption` and `ImagesAssumption`.

`ReaderClient_proofs`, from `SizeAssumption`, `ImagesAssumption` and
`ClientAssumption` (block numbers are naturals):

- `TypeCorrect`, `FrozenAfterAFailedRead` (`FrozenOnceMisdelivered`, for every
  caller what `SameBytesOnceMisdelivered` says of `mcarve`), and
  `ReadersImplementBlockSource` (`ImplementsBlockSource`), the last under the
  hypothesis `"file" \notin Faulty`: the calls at whose outcome
  `FileBlockReader` does not look succeed. `file_reader_delivers` shows the
  hypothesis is needed.
- `IInv` adds that a reader of a file counts only blocks the file holds (so that
  a failed read has a block to leave part of), that nothing was asked before a
  reader was open (so that opening maps to `Attach`), that no reader but a file's
  whose calls fail is ever not good, and that what a read returned while it is
  good is the block. Each step then maps to a step of `BlockSource`, and a constructor that
  throws or a fatal page to a stutter.

`Mcarve_proofs`, from the assumptions of `Mcarve` and of the modules it extends;
`WindowAssumption` (`DefaultStart` is after the date `02 78 9c` spells) and
`OffsetWidthAssumption` make the three classes exclude each other:

- `TypeCorrect`, `ReportAlwaysParses` (`ReportParses`), `TablesListed`
  (`TablesExact`), `RunsCounted` (`RunsExact`) and `MisreadingIsForGood`
  (`SameBytesOnceMisdelivered`), for all images, command lines and patterns of
  failing calls.
- The report is a history, so what its lines mean has to be said of the whole of
  it. `IInv` adds: the reader counts blocks the file holds
  (`CountsWhatItHolds`); before the scan nothing is counted or listed, and the
  window is the default one, whatever was typed (`NothingYet`); in the scan the
  run being counted lies behind the loop (`Behind`); the block to be classified
  is in the buffer unless a read failed (`Delivered`); and the report is well
  formed up to the current block, a run being pending exactly while
  `chunk_header_count` is positive (`ReportGrows`). Because of the exclusion a
  `Classify` step appends one of: nothing, a table, a count and a table, a
  header. Each is a lemma on sequences (what appending a line does to the sets
  of tables, runs and counts), and `RunsExact` follows because the blocks
  between the last line and the loop hold no table.
- `MisreadingIsForGood` needs one thing more, because a stream that is good must
  not hand out a wrong block: as long as it is, the buffer has the block read last
  (`LastBlockKept`). So a wrong block means that the stream has failed, and a read
  of such a stream does nothing.
- `McarveImplementsCarver` (`ImplementsCarver`), under the hypothesis
  `"file" \notin Faulty` as above: starting the scan maps to the abstract one's
  start, each `Classify` to the examination of that block, `SkipAllocated` and
  the read to stutters, and the end, with the run it still has to print, to the
  abstract end. What has to be said of the sum of the printed counts and
  `chunk_header_count` is that each step raises it by one if the block is a
  chunk header and not at all otherwise (`ClassifyCountsChunks`).

`DumpUnusedBlocks_proofs`, from `SizeAssumption`, `ImagesAssumption` and
`BlocksFitAssumption` (blocks are not larger than the buffer):

- `TypeCorrect`, `FilesBeginTheLists` (`FilesArePrefixes`) and
  `SuccessMeansComplete` (`SuccessIsComplete`), for all images, all patterns of
  failures, and streams that hold back as much as they like.
- `Rank(b)` is the number of blocks to dump below `b`; `RankBounds` and
  `NextRank` say how it grows with the loop and that the next item of the list
  is the block at hand. `IInv` adds that a stream that has not failed has been
  given exactly the first `Rank` items of its list (`Streams`), that every
  unused block behind was read, that the block at hand is in the buffer filled
  up with zeros, and that a block being written is one to dump (`Position`). A
  file is then a beginning of its list even after its stream failed, and at the
  end, where `Rank` is the length of the list, the flush of a stream that is
  still good has written the whole of it.

`CliBuild_proofs`, from `VectorSizeAssumption`, `IdsAssumption` (finitely many
identities), `ProgramsAssumption` (a program starts from a definition that is
well-formed, and there are identities enough for its calls) and
`SizesAssumption` (a size asked for is unlimited or below the square root of
that). TLC evaluates them for the five programs of `cli_build`, whose starts
were made by the calls themselves.

- `EverythingInOnePlace` (`TypeOK`), `HelpFlagsAreOwned` (`HelpFlagsOwned`),
  `ExclusionsAreSymmetric` (`ExclusionsSymmetric`), `OptionsCanBeGiven`
  (`EveryOptionCanBeGiven`), `LinksGoToo` (`LinksGoWithTheOption`) and
  `FailuresAreRolledBack` (`FailuresRollBack`), for programs of any number of
  apps, options and calls.
- `TypeOK` speaks of the apps below `Root` and is not inductive, because an app
  that is removed and a new one that is not yet attached are not below it.
  `IInv` has `WellFormed` instead, which speaks of everything that was ever made:
  records have their fields (`Shaped`), every app is listed by its parent alone
  and every option by one app (`Placed`), no app is below itself (`NoCycle`),
  exclusions are symmetric and help flags owned, and sizes are such that their
  products do not reach what counts as unlimited. `EnoughIds` counts down the
  identities with the calls. `Below`, a recursive function on apps, is defined
  only where there is no cycle; `BelowIsReach` shows that it is then what can be
  reached by `subs`, so that no lemma after it unfolds the recursion.
- Each call has a lemma that says what it makes of a well-formed definition,
  made of lemmas about the steps it is written in (`Added`, `remove_option`,
  `attach`, the new app with its inherited flags). `FailuresRollBack` takes a
  second look at the calls that throw: each returns what it was given, or
  something that differs in an app or an option that is not below `Root`, or
  puts a field back (`FlagTakenBack`, `AppRollsBack`).
- `NoNewClashes` (`NoNewClash`), under the hypothesis `Commute`: folding the case
  of a symbol and dropping its underscores give the same in either order, which
  is true of characters. Two options clash if one of them answers to a name of
  the other, and `matching_name` asks an option that ignores nothing only whether
  the other knows it. That finds every clash, because whatever an option that
  ignores less knows, the other knows by the same name folded further. A call
  that does not throw is `Quiet`: it leaves all options but one with the names
  they had and ignoring no more than they did (`OneAside`), and that one was
  compared with all the others of its app; or it makes no app part of the
  program that was made before and left it (`NoMoreApps`); or it leaves every
  option where it was (`SamePlaces`).

`CliParse_proofs`, from `VectorSizeAssumption`, `InterfacesAssumption` (each
definition is a tree, `IsTree`: finitely many apps, each but the root listed by
its parent, none below itself, which is what `CliBuild_proofs` shows of the
definitions that the calls of `CliBuild` make), `ScriptsAssumption` (lines, files
and the sections of items are sequences) and `ThrowsAssumption` (what a program's
own callback throws is not one of the parser's `Complaints`). TLC evaluates them
for the interfaces of `cli_parse` and `cli_option_group`.

- `EverythingIsTyped` (`TypeOK`) and `HelpComesFirst` (`HelpBeforeComplaints`)
  for command lines of any number of apps, groups and options, and inputs of any
  length.
- The questions the parser asks of the tree of apps (whose option an argument is,
  which subcommand a word names, who asked for help) are recursive functions of
  `CliApp` and `CliParse`. Each has a value because what it looks at next is below
  an app, or above it, in a finite tree; `PlaceDep`, which goes both ways, goes up
  only from apps with a name and comes back only through groups, which have none
  (`PlaceGrounded`). `RecursionDefined` of `Sums_proofs` gives the equation of such
  a function, and one lemma each (`FindSubcommand`, `ArgPlace`, `HelpFlagsFacts`
  and so on) what its values are; no lemma after it unfolds the recursion.
- `TypeOK` leaves out most of the state. `TypeInv` adds that apps and options
  have all their fields, that what is recorded of an app is below it, that every
  task on the call stack is about an app or option of the definition and carries
  what the handler that takes it expects, and that line, items and files are
  sequences; `Parsing`, that a stack that is not empty has an input left. Each
  action has a lemma that says that it keeps the apps, options and inputs in order
  (`Kept`) and one of five things it may do to the call stack (`Moved`).
- `HelpBeforeComplaints` is about the end of a parse, and the proof about the way
  there, which has phases. In the first (`HelpAhead`) one task on the stack will
  still ask for help for the main app, those in front of it neither judge nor
  complain, and those behind it are the requirements and what follows; a task in
  front is replaced by more of its kind only, without an immediate callback
  (`Tame`) that would judge at once. The second begins when the question was
  asked and the flag not given (`NotAsked`); if it was given, or anything else
  was thrown, only `Return` is left (`Thrower`). A missing configuration file
  goes back to the first phase, because `_process` looks for the help flags before
  it throws again. That options are not cleared between the question and the end
  closes the argument.
- `RequirementsAreMet` (`RequirementsMet`), likewise for all command lines and
  inputs, and about the end of a parse too. `Stages` says how far the root is: as
  long as it is not judged (`Unjudged`), the stack ends with its frame, with the
  tasks a frame is replaced by in the end, or with the missing file's error, and no
  task before those returns; then the requirements and the extras of the root are
  asked once each, found to be "none", and nothing that happens afterwards changes
  an app or an option (`JudgedOnce`); or something was thrown. So a success has
  `Requirements(Root) = Extras(Root) = "none"` in the state it ends in.
- What that says of apps below the root needs the counts. `CountsInv`: the root is
  counted while it parses, and the groups of an app that is counted are counted,
  unless the app has an immediate callback and a name, which clears its groups when
  it starts afresh (`LosesCounts`). Each action leaves the counts, increments those
  of `Counted(a)`, or clears what is below such an app (`CountsMoved`). The
  equations of `Requirements`, `Extras` and `Answers` (`RequirementsUnfold` and so
  on, by `RecursionDefined`) then carry "none" from the root down to every app that
  answers for itself (`AllFulfilled`, `NoneLeft`). That attempt is what corrected
  the property: it first had no exception for `Overlooked` apps and for a root of
  which nothing was used, and TLC's instances have neither.
- `FinalCallbacksAreLast` (`FinalCallbacksLast`) uses `Stages` again, which says
  that before the root is judged the only apps whose final callbacks are called
  are `Hasty`: groups with a parse-complete callback and sections, with what is
  below them (`CalledAtOnce`). `CallbacksType` says what `run_callback` may call:
  final callbacks of apps below the one it is asked for, each counted, none if
  they are suppressed; it follows from the equation of the recursion (`FinalAt`)
  and from `FlattenType`, what `FlattenSeq` makes of sequences. `FinalsInv` is then
  inductive: once a final callback that waits is among the calls (`LateIn`), the
  root was judged and only the return is left, and all other actions call at most
  a pre-parse callback (`CallsMoved`).
- `StoredIsShownWhenTame` (`Tame => StoredIsShown`): for all command lines without
  an immediate callback, and all inputs. Two things have to hold at the end of a
  parse, and each has its invariant. `TakenInv`: as long as nothing was thrown, an
  option in the state `callback_run` shows what its callback was last handed. A
  step leaves an option and what was handed on as they are, takes the option out
  of that state (new values, a clear), or has just called the callback without an
  exception (`TakenMoved`, from `Honest` for each way to reach `run_callback`); a
  parse may begin with `taken` empty because `clear` takes every option out of the
  state unless the root never parsed. `ServedStages`: each option given has its
  callback behind it or to come. At first the callbacks of the root are ahead
  (`CallbacksAhead`): the last task that can change an option, the frame of the
  root or `callbacks` of the root, has only closing tasks behind it. When
  `callbacks` of the root is next, it leads to every option, because every app is
  the root or under it (`OpenIsServing`); from there on (`Serving`) each option
  was called or has no values (`Settled`), or some task leads to it (`Serves`):
  its own, or `callbacks` or `subcommand` of an app it is in or under. A task is
  replaced by tasks that lead to the same options (`ServedAgain`), and at the
  return none is left. With an immediate callback the theorem would be false:
  `process_callbacks` passes over subcommands with one, so a flag that a file sets
  in such a subcommand after it was processed keeps its value to itself (8144).

`Sums_proofs` has what these modules need of numbers and finite sets: a set of
naturals has a least one, and of some sets over a finite set one is largest;
induction over a set of numbers, or of elements each of which depends on others
(the library's induction over a formula cannot be used), hence that a recursive
function whose dependencies are grounded satisfies its equation; and that the
sum over a finite set which `SumFunctionOnSet` computes one element at a time
does not depend on the order and adds up over disjoint sets.

Only model-checked:

- `OutcomeOfInput` and `EveryArgumentMoves` of `CliParse`, and `StoredIsShown` with
  an immediate callback, are true of the interfaces of `cli_parse` and false of
  others: of a configuration option that is cleared (4497), of
  `cli_option_group`, of a flag that a file sets late (8144);
- `FinalCallbacksAsOftenAsUsed` of `CliParse` counts the calls among those that
  `FlattenSeq` puts together, which needs more than what kind they are;
- `NoNewCommandClash` of `CliBuild`: it speaks of the subcommands seen through
  groups, which needs for `Scope` what `BelowIsReach` is for `Below`;
- all liveness, which is out of the prover's reach.

## Not modelled

- CLI11's validators themselves (`ExistingFile`, ranges, and so on), the reading
  of a configuration file's text (`ConfigINI`), conversions to C++ types, help
  texts and wording: what a program sees of them is a table of an option or the
  items of a file. `Mcarve` and `DumpUnusedBlocks` see of CLI11 that it accepts
  or refuses a command line and stores two dates or flags; `verbose` nothing
  reads.
- The destructors of the readers, and the handle the constructor of
  `Ext2Filesystem` leaves open when it cannot read the bitmaps
  (`ext2filesystem.cpp:37-41`): both programs end with the exception.
- `cout`, whose state `mcarve` never looks at: a report that could not be
  written, and the part still buffered when an exception aborts the program.
- `dump_unused_blocks` on blocks larger than its buffer, which do not fit
  (`dump_unused_blocks.cpp:68,76`), and with two outputs, or an output and the
  image, at the same path.
- What the contents of the buffer are after `Ext2Filesystem::read_block` has
  thrown.
- `strptime` and `mktime`: `TimeOf` maps the dates accepted to seconds.

## Plan

Done: the classifiers, the readers, both programs and the core of CLI11; the
proofs about `has_offsets`, the classes, the readers and both programs, with the
two refinements; the proofs about the definitions of CLI11; and of its parser the
types, the precedence of help, the requirements, what bound variables hold and the
final callbacks. What could follow:

1. `NoNewCommandClash` as a theorem (see "Only model-checked").
2. The life of the `ext2_filsys` handle and of the mapping (`Ext2Filesystem`,
   `MmapBlockReader`: constructors that throw half way, destructors), and a model
   of `cout` in `Mcarve` with what an abort and a full disk leave of a report.
3. The text of configuration files (`ConfigINI`) as a grammar of symbols.
