# TLA+ for pgdumpx

pgdumpx reads PostgreSQL custom-format archives as streams: it reads an archive's
header and table of contents into an index, seeks to one entry, decompresses it piece by piece and
either copies its bytes to a writer or parses them as COPY text rows.  Nothing runs in
parallel.  What is hard is that everything is incremental and everything may stop half
way: sources give less than asked and fail between any two bytes, budgets run out inside
a row, a caller goes on after an error, a writer accepts half a buffer, and the third of
five tables fails.  Each layer promises that what it has handed out so far is an exact
prefix, that an error is an error and not a short success, and that it stays stopped
once it has stopped.  Those promises are what this project states, checks and proves.

- [The system](#the-system)
- [Modules](#modules)
- [How state and actions correspond to the code](#how-state-and-actions-correspond-to-the-code)
- [Runs](#runs)
- [Fairness and deadlock](#fairness-and-deadlock)
- [Theorems](#theorems)
- [Where the code and its documentation differ](#where-the-code-and-its-documentation-differ)
- [What is left out](#what-is-left-out)
- [Plan](#plan)
- [Running it](#running-it)

## The system

Paths are relative to `crates/pgdumpx/src` unless they name the CLI.

| Component | Code | State | Operations | Correct when |
|---|---|---|---|---|
| Archive reader | `io/archive_reader.rs` | source, byte offset | `read_byte`, `read_some`, `read_exact` | interrupted reads are retried, a short source is an error |
| Primitives | `custom/primitives.rs` | none | integers, offsets, strings | sign and magnitude are decoded in range; limits are checked before allocation |
| Header and TOC | `custom/header.rs`, `custom/toc.rs` | none of their own | parse once, in order | every limit is exact, every malformed field is refused |
| Metadata budget | `metadata_budget.rs` | three checked counters | charge string bytes, dependencies, index bytes | never past its limits, never charged by a refusal |
| Archive index | `archive.rs` | four maps, built once | lookups | one table per identity, at most one data entry per table |
| Entry opening | `archive.rs` `open_entry_reader` | the seekable source | seek, check block type and dump ID | no payload byte before both are checked |
| Chunk reader | `custom/data.rs` | bytes left in the chunk, done | `read` | the entry's bytes and no other; truncation is not an end |
| Entry decoders | `entry.rs` | codec, input buffer, deferred error, frame tracker | `read` | a corrupt or cut stream is an error |
| Bounded reader | `raw_entry.rs` | bytes returned, terminal error | `read` | never a byte past the budget; the budget is not an end |
| Raw copy | `raw_entry.rs` | bytes copied | `copy_entry_to` | complete means whole; an output error counts what was accepted |
| Extraction plan | `extraction_plan.rs` | selectors, completed targets | build, `preflight`, `execute` | preflight first, plan order, completed means flushed |
| COPY reader | `copy.rs` | read-ahead buffer, current row, counters, two budgets, terminal flag | `next_row`, `find_first` | frames rows exactly, budgets are exact, an error is final |
| Table rows | `table_rows.rs` | row number, expected field count, failed | `next_row`, `find_first`, `find_first_equal` | rows have their columns, numbers are right, a match is the first |
| COPY metadata | `copy_metadata.rs` | none | parse the COPY statement | columns in order, or a typed reason why not |
| Filter and selectors | `metadata_filter.rs`, `selector.rs` | none | predicates over entries | exact byte identity |
| CLI | `pgdumpx-cli/src/main.rs`, `entrypoint.rs` | parsed arguments, buffered output | inspect, list, extract, find | limits are finite by default, failure is never success |

They interact by calls only.  A read of table rows pulls through five of them:

    TableRowReader -> CopyRowReader -> entry decoder -> CustomChunkReader -> ArchiveReader -> source

and a raw extraction through as many:

    ExtractionPlan -> copy_entry_to -> BoundedEntryDataReader -> entry decoder -> ... -> source
                            |
                            +-> writer (short, interrupted or failing)

Each call borrows the archive mutably, so two entries are never read at once; a row lent
to the caller, or to a search predicate, borrows the reader until the next call.  The
only shared state is a cell through which the LZ4 and Zstandard decoders pass their
source's error around the codec library.

The hard behaviours, in the order of the hazards in `PROJECT.json`: the state a failed or
ended reader is left in; framing over read-ahead (the carriage return whose line feed has
not been read); two budgets with different origins over one stream; one count kept in two
layers; the probe at a byte limit; partial writes and what an error says about them;
preflight and flush order over several targets; truncation inside a chunk and inside a
chunk length; decoders that report an error late, or lose bytes when they do; a frame
tracker that looks for an end its codec does not report, and an error that travels past
the codec in a shared cell; relationships in a table of contents that contradict one
another, in any order; files that have changed since they were indexed; fields that are
there in some versions only; limits of four kinds charged before memory is asked for;
names that hold the punctuation they are parsed by; and an exit code that has to speak
for an output which may fail after the answer was given.

## Modules

| Module | Models | With |
|---|---|---|
| `CopyText` | one COPY row: field layout, escapes, decoding | `CopyTextCheck`, which also holds the row writer of `find` |
| `CopyRowReader` | `CopyRowReader`, `CopyInput`, `ScanBudget` | `MCCopyRowReader`, `CopyRowReaderProofs` |
| `RowStream` | what a COPY row reader promises, abstractly | refined by `CopyRowReader`, composed into `TableRowReader` |
| `TableRowReader` | `TableRowReader` over a `RowStream` | `MCTableRowReader`, `TableRowReaderProofs` |
| `BoundedEntryReader` | `BoundedEntryDataReader` over any decoder | `MCBoundedEntryReader` is a caller with buffers of any size |
| `RawEntry` | `copy_entry_to` and `write_all_counted`; extends `BoundedEntryReader` | `RawEntryProofs`, also on `BoundedEntryReader` alone |
| `EntryCopy` | what a raw copy promises, abstractly | refined by `RawEntry`, composed into `ExtractionPlan` |
| `ExtractionPlan` | building and executing a plan over `EntryCopy` | `MCExtractionPlan`, `ExtractionPlanProofs` |
| `ChunkReader` | `CustomChunkReader` over `ArchiveReader` and the source | composed into `EntryDataReader` |
| `ZlibDecoder` | `ZlibEntryDecoder` over any codec and chunk reader | composed into `EntryDataReader` |
| `FrameDecoder` | `Lz4EntryDecoder` with its frame tracker, `ZstdEntryDecoder` | composed into `EntryDataReader` |
| `EntryDataReader` | `EntryDataReader` over the backend the compression names; refines the decoder of `BoundedEntryReader` | `MCEntryDataReader`, `EntryDataReaderProofs` |
| `ArchivePrimitives` | integers, offsets and dependency strings, as functions | `PrimitivesCheck` |
| `ArchiveMetadata` | reading the header and the table of contents, with every limit and charge | `ArchiveMetadataProofs` |
| `WrittenArchive` | no code: what the writer of an archive puts into it and means by it, which parsing is held against; extends `ArchiveMetadata` | `MCArchiveMetadata` makes archives, `ArchiveMetadataProofs` |
| `ArchiveIndex` | `ArchiveIndex::build_with_limits` | extended by `ArchiveAccess`; proved about in `ArchiveAccessProofs` |
| `ArchiveAccess` | `entry_reader`, `table`, `table_rows`, `open_entry_reader`, filters and selectors | `MCArchiveAccess`, `ArchiveAccessProofs` |
| `CopyStatement` | the parser of the COPY statement, as a function | `CopyStatementCheck` |
| `CommandLine` | the command: arguments, limits, buffered output, exit code | `MCCommandLine`, `CommandLineProofs` |
| `FormatCheck` | every short text of the three formats read by functions | composes the three check modules |

The composition is carried by refinements.  `CopyRowReader` is checked to implement
`RowStream`, and `TableRowReader` is built on `RowStream`; `RawEntry` is *proved* to
implement `EntryCopy`, and `ExtractionPlan` is built on `EntryCopy`; `EntryDataReader`, with
each of its backends, is *proved* to be a decoder as `BoundedEntryReader`, and with it
`RawEntry`, assumes one.  A layer above then needs no byte of the layer below it, which
keeps both small enough to check well.  `ArchiveAccess` extends `ArchiveIndex`: it opens
entries over the index that was really built, also from contradictory tables of contents.

## How state and actions correspond to the code

**CopyRowReader.**  `input` is what the source holds, `filled` and `consumed` delimit the
read-ahead buffer of `CopyInput`, and the counters, flags and budgets have the code's
names.  One action is one decision of the loop in `read_record`: filling the buffer,
refusing or taking a byte, ending a line, ending the input; then counting, parsing and
lending the row.  A scan-limit error, a structural limit, a malformed row and a source
error each take the exit the code takes, with `finished` left as the code leaves it.
Counters are bounded by `U64Max`, which a run may make small enough to overflow.

**TableRowReader.**  The row reader below it answers `LentRow`, `NoRow` or `RowError` as a
`RowStream`; `Mismatch`, `ReturnRow`, `RowDoesNotMatch` and `RowMatches` are the code after
such an answer.  A table may have no columns at all, as pg_dump writes it
(`tests/copy_metadata.rs:79-92`): `table_rows.rs:72` then expects no fields, and every row,
which has at least one, is a mismatch.  `nextRow` is advanced where the code advances it: with a checked addition
in `next_row`, saturating and before the field count is looked at in the search closure.

**BoundedEntryReader.**  A byte is its position in the decoded entry, so that a lost,
repeated or reordered byte shows.  The decoder may answer with any number of bytes up to
the request, with the end, or with an error that may cost bytes, or after which the decoder
is out of step (`lost`) and may answer anything.  `Read(n)` has one
disjunct per exit of `read`: the empty buffer first, then the stored error, then the
limit's one-byte probe or a read cut to what is left.

**RawEntry.**  `pending` is the slice `write_all_counted` has left.  The writer accepts
any prefix, is interrupted, fails or accepts nothing.  `copied` is shared by both
functions, as it is in the code.

**ExtractionPlan.**  An archive is what each selector resolves to: an entry of some size,
a table without data, or nothing.  `Execute` is the whole preflight; then each target's
destination, copy and flush are steps that may fail.  `OtherArchive` takes the plan to
another archive between executions.

**ChunkReader.**  One step is one answer of the source: a byte of the chunk length, some
data, the end, or an error.  `aligned` is a history variable that records whether a read
was begun after an error inside a chunk length: the code forgets the bytes of the length
read before it, and promises nothing to a reader that goes on.

**EntryDataReader.**  `backend` is the variant of the code's enum; a step is a step of that
backend's module, on the variables of its own and the few that a caller sees of any:
`pc`, `exposed`, `answer`.  The rest keeps a fixed value.

**ZlibDecoder.**  An entry is how many bytes can be decoded once each compressed byte is there, how its
zlib stream ends (`whole`, `cut` before its trailer, or `corrupt` from its next byte on) and
how many bytes follow it.  The codec, a third-party library, may take and give any amounts
that the input and the output allow, some of one whenever it can, and may see the end only
on the call after the one that filled the output.  `Fill` and `SourceFails` are the refill;
`StreamEnds`, `OutputFull`, `Continue`, `StreamIsCut` and `CodecFails` are what the loop
makes of one codec call, in the code's order.  Returning resets `written`, so an error of
the chunk reader drops what the running read had decoded.  Bytes that follow the zlib
stream in its block are not looked at: once the stream has ended no read goes back to
the chunk reader, so neither they nor a block cut short behind the stream are reported.

**FrameDecoder.**  An entry is the bytes of a frame, how many of them each decoded byte needs,
and how many bytes the entry really has.  The codec may ask for its input in slices of any
of several sizes, and the tracker, a function from its state and a slice to its next state,
sees exactly those slices.  What a complete frame is comes from the LZ4 frame format and not
from the tracker: `IsLz4Frame` says it of a frame and the places where its blocks begin
(`blocks`), one block after another up to the end mark and its checksum.  `source_error` is the shared cell.  The LZ4 codec says `Ok(0)`
wherever its source ends; the wrapper's `finish_stream` is `FrameIsCut`, `EntryEnds`,
`BytesFollow` and `FinishFails`.  `state` is the Zstandard decoder's, whose source is gone
once its initialization has failed.  Otherwise neither wrapper remembers a failed read: the next
one calls the codec again (`entry.rs:328-342`, `439-449`), which has lost bytes and starts in the
middle of what follows.  Such a codec (`broken`) may give any bytes (`CodecStrays`, bounded
by `MaxOutput`), stop anywhere or fail.

**ArchivePrimitives.**  Functions from the bytes in front of the reader to a value or an
error and the bytes taken.  The base of a byte and the widths of the results are
parameters, so that an integer of three bytes already overflows.

**ArchiveMetadata.**  The archive is a sequence of items, one for each field that its writer put
there: a number, a string's length, or the state of an offset.  `todo` is the fields still
to be read of the running layout, in the code's order and by the archive's version, so a
field read from the wrong place is an item read under another's name.  A string takes two
steps, its length with the checks and charges before the allocation, and its bytes.  Each
item of a written archive carries the field it is and what its writer meant by it, which only
the properties read.  `WrittenArchive` says when that is what a writer may put there: the
header, as many entries as it counts, each with its fields in the order of its version, the
dependencies up to a NULL, and values that a field can hold (`IsArchive`).  It also says which
damage leaves every item in its place (`IsDamaged`).

**ArchiveIndex and ArchiveAccess.**  One step is one entry of one of the three passes, with the
code's maps as functions.  Opening an entry is then one step per answer of the source: the
seek, the block type, the dump ID.  A file says what is at each offset and has nothing to
do with the table of contents, as after a change.  `position` is where the source says it
stands after a seek, which the code compares with where it should.

**CopyStatement and CommandLine.**  Text is a sequence of symbols, one for each thing the parser
tells apart: a quote, a comma, a keyword, white space, a byte that is not UTF-8; for the
command line the leading dashes of an argument and the names of options.  The command's
output is counted in pieces: a `BufWriter` passes pieces on when it is full and may fail at
any of them, and the exit code is compared with what was delivered.

## Runs

Every run is exhaustive over the constants given.  The bounds are chosen so that each
boundary has a state on both sides.

| Run | Question | Bounds, and why they are enough |
|---|---|---|
| `formats` | Do the functions that read texts agree with independent references? | All texts up to 5 symbols. Rows: a control byte, tab, line feed, dot, `7`, `N`, backslash, `x`, a byte above 127: every escape form, complete and cut, next to every separator. Primitives: base 12, integers of 1-3 and offsets of 1-4 bytes over words of 2, so that each is below, at and above its width. Statements: quotes, commas, parentheses, dots, white space and a keyword in any order, before and inside a column list, under limits of 0, 1 and 2 columns: well-formed lists have up to two |
| `row_reader` | Are the rows lent the rows of the input, are limits and row numbers exact, what may a later call do, and does every call return? | Three cases in one run, named in `MCCopyRowReader`. *Framing*: all inputs up to 5 bytes over LF, CR, dot and backslash, fills of 2 (a line end, or a CR LF, on either side of a fill), two calls, row numbers that end at 5. *Budgets*: all inputs up to 4 bytes of LF and a letter and two of 6, limits of 1, 2 or no rows and 2, 3 or no bytes, for the reader and for each of two calls, counters that end at 5. *Calls*: three calls under structural limits of two bytes and one field |
| `table_rows` | Are rows checked, numbered and searched right? | All tables up to 5 bytes, 0, 1, 2 or unknown columns, three calls of any kind, row numbers that end at 3 |
| `table_after_error` | Do later searches return `Ok(None)`? | As `table_rows`; violated, see below |
| `bounded_reader` | Is the budget exact and final, and not an end? | Entries of 0-6 bytes, budgets of 0-5 or none, buffers of 0-3, a counter that ends at 5: below, at and above the limit and the counter's end |
| `raw_copy` | Is a complete copy whole, and what does a failed one say? Does it end? | The same, with a 3-byte copy buffer that a writer may accept in up to three pieces, with two interruptions |
| `extraction_plan` | Preflight, order, completion, and what an error names | Plans of up to three of three selectors, two executions, entries of 0 and 2 bytes, budgets around them |
| `entry_data_reader` | What does an end mean on each backend, whose error is reported, does every read return, and is each a decoder? | Reads of 0-3 bytes. Chunks: every cut of two chunks of 0-2 bytes with either sign, an out-of-range length, a byte behind the entry, two source errors. zlib: streams of up to two compressed bytes of 0-2 decoded bytes each, whole, cut or corrupt, with up to two bytes behind, an input buffer of 2: every split of input and output over calls, refills in the middle of a read. LZ4: every set of header options, an empty body and one of a raw and a packed block, cut at every byte, corrupt or followed by two bytes, slices of one byte, within a header field and over a whole header. Zstandard: an empty and a two-byte frame, cut, corrupt or followed. After an error either codec gives any bytes until three have come |
| `archive_metadata` | Is what is parsed what was written, and are the limits exact? | Versions 1.14-1.16, every compression, up to two entries with every optional field absent, empty and present; archives cut after every item or with any one item damaged; each limit from below what an archive needs to above it |
| `archive_access` | When is an index built, what does it relate, and what is opened? | All sequences of up to three entries of a pool of 18 in which IDs, names, schemas, OIDs and dependencies collide, with index budgets at and around what the names need; then 16 tables of contents with every file that has a right, wrong, cut or no block at two offsets, sources that fail or seek elsewhere |
| `command_line` | Which lines are accepted with which limits, and what does the exit code say? | Every command with up to three options in any order, repeated, unknown, incomplete or out of range, with `--` or without, selectors and operands of every shape; up to three pieces of output through a buffer of two that may fail at any piece or flush |
| `find_defaults` | Does `find` without a limit search without one? | As `command_line`; violated, see below |

What they show, by property:

- *Framing*: `LentRowsAreThePrefix` (also where a call that returns has stopped) and
  `ImplementsRowStream`.  The reference is `RowStream!Rows`, which frames an input as a
  whole and shares no code path with the byte loop.
- *Row numbers*: `RowNumbersRunOut`: of two paths that check the counter differently, which row
  has the last number and which is refused for want of one.
- *Budgets*: `LentRowsAreWithinBudgets` (no lent row is beyond a limit) together with
  `LimitErrorsAreExact` (an error only when the next row or byte really is) and
  `RowsAreCountedOnce`.  For raw bytes, `NothingBeyondTheLimit` and `EndIsNotTheLimit`.
- *Staying stopped*: `TerminalReaderIsInert`, `FatalErrorIsFinal`, `EndIsNotTheLimit`; an
  entry read again after its end (`EndMeansWhole`).
- *Two passes, two counters*: `AcceptedRowsDecode`, which also says that the field limit is
  exact, by counting backslashes where the code keeps a flag.  `WrittenRowsReadBack` checks
  decoding against an independent encoder, and against what `find` shows of a row.
- *Searches*: `ShownRowsHaveTheirColumns` (with the row numbers that errors name),
  `EqualityIsFirstMatch`.
- *Partial failure*: `WriterGetsWhatWasRead`, `CompleteIsWhole`, `ImplementsEntryCopy`,
  `DestinationsFollowThePlan`, `CompletedIsWritten`, `FailureNamesItsTarget`.
- *Truncation and corruption*: `EndMeansWhole`, `EndIsTheStreams`, `EndIsTheFrames`, which
  also says that no error waits in the shared cell, and `ImplementsDecoder`.
- *Metadata*: `ParsedIsWritten` (every field of every version from its own item),
  `LimitsRefuseExactly` (refused if and only if a limit is passed, whatever the order in
  which an archive is read), `RetainedWithinLimits` (what is kept, in failed parses too, is
  what was charged); `IntegersReadBack` and `DependenciesAreDecimal`, against the writer's
  encoding and against digits.
- *Index and access*: `IndexIsTheRelation` (built if and only if the entries contradict
  themselves nowhere, and then what they spell, in any order), `IndexBudgetIsExact`,
  `OpenedBlockIsTheEntrys` (whatever has become of the file), `SelectorsLeadBack`.
- *COPY statements*: `ParsedColumnsAreTheStatements`, against a reading by quote parity
  instead of a parser, and `WrittenStatementsParse`.
- *Command*: `ExitTellsTheTruth`, `AcceptedLinesAreTheUsage`.
- *Progress*: `EveryCallReturns`, `CopyEnds`, `EveryReadReturns`.

Each property is paired in `PROJECT.json` with a mutant of a modelled definition, a
plausible slip in the code it stands for, under which TLC finds the property violated.
The mutants are the operators marked `Mutant` beside the definitions they replace.

## Fairness and deadlock

The library is sequential code, so a call that is running goes on running: weak fairness
on the steps a call takes (`Progress` in `CopyRowReader` and in `EntryDataReader`, where it is the
progress of the backend; `Next` in `RawEntry`, where the whole model is one call).  It assumes that a source, a decoder, a
writer or a predicate that is called returns.  It never obliges the caller to call, and
never obliges anything to fail.  Writes interrupted by the operating system are retried
without a bound in the code; `MaxInterrupts` makes them finite, and without that
assumption a copy need not end.

Deadlock checking is off in every run: a caller may stop calling, a call budget
(`MaxCalls`, `MaxRuns`) may be used up, a text has its full length, and a finished copy, a
parsed or refused archive and a command that has exited have nothing left to do.
Liveness is what shows that nothing gets stuck inside a call.

## Theorems

TLC checks small instances; these hold for every value of the constants that satisfies
the modules' named assumptions.

**`CopyRowReaderProofs`**, from the constants' assumption alone:

- `TypeCorrect`: `TypeOK`.  It is not inductive alone: a byte taken is a byte of the input only
  while `consumed <= buffered <= Len(input)`, which `Cursors` adds (`TypeInv`).
- `TerminalAnswers`, `TerminalReaderIsInertCorrect`: `NothingAfterTheEnd` and
  `TerminalReaderIsInert`, from `StopInv`: between the moment a row is begun and the moment
  it is lent the flag is set, and once a call has ended the stream the reader rests.
- `BudgetsBoundLentRows`, `RowCountsAreExact`: `LentRowsAreWithinBudgets` and
  `RowsAreCountedOnce`, from `AccountInv`: both row counts equal the rows lent since their
  origins, except between counting a row and lending it, and the byte origins never pass
  the bytes consumed.  It also shows that the row-count overflow error cannot occur: a
  count is at most the rows lent, and the number of the next row, which never passes the
  counter's width, is one more.
- `LimitErrorsEarned`: `LimitErrorsAreExact`.  It is inductive with the three invariants above:
  a reader that has not refused by a limit stands inside it, so the byte that is refused is
  the first beyond it, and the row comes when the last one permitted has been lent.
- `LentRowsAreTheInputs`: `LentRowsAreThePrefix`.  `RowStream` frames an input as a whole, by its line
  endings; the first half of the proof turns that into what a scan can follow.  The longest run
  of backslashes before a byte is odd or even as one bit carried along says (`OddEscapeStep`); a
  line ending is known by how many there are up to it (`Passed`, `OrderedEnds`), which grows by
  one where one stands (`PassedStep`); and the record it closes follows (`RecordIsBehind`).  Then
  `FrameInv` says what each program point has kept and taken of its record: between two
  records the position is the beginning of the next, and the next byte is never the line feed of a CR
  LF already passed (`Fresh`), which is why a peek that took any other byte would break it.
  `PrefixInv`, `EndInv` and `LentInv` carry the three parts of the property.
- `LastNumbersCorrect`: `RowNumbersRunOut`.  A complete row has the number after those lent, and
  its record says whether its line is ended (`NextNumber`); `NumbersInv` keeps what either
  check has decided.
- `ReaderIsARowStream`: `ImplementsRowStream`, with as many rows delivered as were lent.  Lending is a
  `Deliver`, the first `None` a `Finish`, every row error a `Break`, the rest stutters.  That a
  row lent is well-formed for the stream, which knows no limit on fields, is
  `AcceptedIsWellFormed`.

**`RawEntryProofs`**, from `ReaderAssumption` and `CopyAssumption`, one inductive invariant
`CopyInv`: the types; `ReadInv`, that an unfaulted reader with no stored error has exposed
exactly the bytes the decoder has produced; `WriterGetsWhatWasRead`; `LoopInv`, which ties
the buffer and the result to the loop's place and says a running copy has seen no error;
and `CompleteIsWhole`.

- `CopyTypeCorrect`, `BudgetBoundsExposedBytes`, `WriterGetsEveryByteOnce`,
  `CompleteCopiesAreWhole` are its parts.
- `CopyImplementsEntryCopy`: the copy implements `EntryCopy` with `accepted` mapped to the
  number of bytes the writer has accepted.  A write that is short is an `Accept`; opening,
  reading and an interruption are stutters; the ends map to the ends.  Liveness is not
  part of `EntryCopy`.
- `LimitsAreNotEnds`: `EndIsNotTheLimit`, of the bounded reader under `AnyCaller`, who reads
  with buffers of any length and goes on after errors, as in the run `bounded_reader` but
  without its bounds.  The invariant adds that what is exposed is never more than the
  decoder has produced, and that a stored refusal stays true (`CallerInv`).

**`ArchiveMetadataProofs`**, from `MetadataAssumption` and, for the last two, `ArchivesAreWritten`,
which says what a written archive is and which TLC evaluates on every archive of the run:

- `RetentionIsBounded`: `RetainedWithinLimits`, for every input, every set of limits and
  every width of the counters.  The property ties what is kept to what is charged, inside a
  string and between strings; the invariant adds `MetadataInv`: the counters are natural
  numbers, a string whose bytes are awaited has a length that is one, and an outcome is
  open exactly while the parser runs.
- `ReadingIsFaithful`: `ParsedIsWritten`, for archives of any number of entries and dependencies.
  The invariant, `ReadsAs`, holds the reading against every archive that the input may be a
  damaged piece of.  It says where in the archive the reading stands (`Stands`): in the
  header, among the leading fields of an entry, in its list, before its location, or at the
  end; what `todo` then is; and that the entries `left` are those that the archive still has
  (`Counted`), as long as their number is undamaged.  The next field is then the one that the
  archive has there (`FieldIs`), every accepted item moves both on together (one lemma for each
  place: `HeaderAdvance` to `EntryAdvance`), and a parse is over only where the archive is.
- `LimitsDecide`: `LimitsRefuseExactly`, for whole archives.  `Within` counts what has been kept as
  the bytes and the dependencies of the items read so far, so that a charge that is refused is
  part of what the archive has in all; the list of an entry begins behind a field that is no
  dependency (`ListIs`), so that a refused one is a run of more than the limit, and a run that
  is longer than the limit has been refused.  No other error can happen: the archive does not
  end early (`NoEarlyEnd`), and no value that a writer writes is refused (`ItemIs`,
  `ValueIsMeant`).

**`CommandLineProofs`**, from `CommandLineAssumption`:

- `ExitIsTrue`: `ExitTellsTheTruth`, for every line and every size of the output buffer.
  The invariant has what is known at each place of the program (`PlaceInv`: while the answer
  is being written, the pieces delivered, buffered and left are all of it), which results
  leave output behind (`ResultInv`), and what the exit code repeats (`ExitInv`).
- `AcceptedIsMeant`: `AcceptedLinesAreTheUsage`, for lines of any length, against the reading of the
  usage text at the end of `CommandLine`: a set of option lists, their words, and what must
  follow them, with no parser in it.  Its invariant, `UsageInv`, goes both ways.  What has been
  read is the words of some usage, unless the options exclude each other, which the
  code tells only at the end (`AcceptInv`).  And a line that has a meaning is being read
  as it is meant: for every usage it fits, the parser stands after some of its options and
  has recorded just those (`ForcedInv`), so that a line that is refused fits none
  (`RefuseInv`).  A line fits by its words, so it is the order of the words, and not the parser's,
  that decides which option comes next (`NextIsPart`, `NextIsEnd`).

**`TableRowReaderProofs`**, from `TableAssumption`, which allows any column count, none included, and
tables whose columns are unknown.  The invariant ties the row number kept here to
the count kept below (`NumberInv`: they differ by one between rows, agree while a row is
handled, and meet at the counter's end, which only a stream that ends there can reach), and
says where a reader that has seen a fatal error can be (`StopInv`: marked as failed, or over
a stream that is no longer open).

- `ShownRowsAreWhole`: `ShownRowsHaveTheirColumns`, with the row that a mismatch names.
- `FatalErrorsAreFinal`: `FatalErrorIsFinal`.
- `SearchesFindTheFirst`: `EqualityIsFirstMatch`.  Its invariant, `SearchInv`, says of a running
  search that no row it has passed has the value in the column that was asked for, and that
  of the rows of a stream only the last can still be open.

**`ExtractionPlanProofs`**, from `PlanAssumption`.  The invariant says how many destinations
there are against the completed targets at each place of the loop (`DestinationInv`), what
the running copy shows at its destination (`CopyInv`), and that a plan past its two checks
has no selector twice and none unresolved (`PlanInv`): the code reports the first offender, and
where there is any there is a first (lemma `FirstPlace`).

- `PlanOrderIsKept`, `CompletedTargetsAreWritten`, `FailuresNameTheirTarget`:
  `DestinationsFollowThePlan`, `CompletedIsWritten`, `FailureNamesItsTarget`.

**`ArchiveAccessProofs`**, from `IndexAssumption` and `AccessAssumption`.  The invariant of the
three passes is `IndexInv`: each map is exactly what the entries handled so far spell, in both
directions (`IdsInv`, `TablesInv`, `SchemalessInv`, `DataInv`), and an error that has been
reported is true (`FailureInv`).  `OpenInv` adds what the checks of an opening have established at
each of its steps.

- `IndexesAreTheRelation`: `IndexIsTheRelation`, for every table of contents.
- `OpenedBlocksAreTheEntrys`: `OpenedBlockIsTheEntrys`, for every table of contents and every file.
  That rows are the named table's own needs `IndexInv`: dump IDs are unique, so the
  table found by name and the table that owns the data entry are one.
- `FilteredSelectorsLeadBack`: `SelectorsLeadBack`, from the same two facts.
- `IndexBudgetsAreExact`: `IndexBudgetIsExact`.  `BudgetInv` says that what has been charged is what
  the maps built so far cost, the names and pairs in them summed up.  The lemmas about
  such a sum (`SumUnfolds`, `SumAdds`, `SumGrows`) are shown by taking a least counterexample among the
  subsets (`SubsetInduction`): a charge that is refused is a part of the whole cost, which
  therefore is beyond the limit too.

**`EntryDataReaderProofs`**, from the assumptions of the three backends' modules.  What an end means,
on each backend, for every entry, every size of the buffers and every codec that the
constants allow:

- `UncompressedEndMeansWhole`: `EndMeansWhole`.  `ChunkInv` ties the cursor of the reader to
  what is left to read of the block, so that a terminator is taken for one only
  where one stands; the two recursive functions that read a block as a whole are unfolded
  once for each step that crosses a chunk (`ChunksUnfold`).
- `ZlibEndIsTheStreams`: `EndIsTheStreams`.  `ZlibInv` says what a codec that has ended has taken,
  and that bytes dropped by an error are never exposed by a later read.
- `FrameEndIsTheFrames`: `EndIsTheFrames`.  Half of it is about the tracker: it sees the frame in
  slices, cut wherever the codec cut them.  `SlicesDoNotMatter` shows that two slices leave it where
  one slice of both would; `HeaderStages`, `BlockStages` and `EndStages` then take
  it from stage to stage, and `FrameEnds` concludes that it is finished exactly at the last
  byte of a frame, for every frame that is one by `IsLz4Frame`.  The other half is `FrameInv`: a
  codec that has failed has failed a read or has a failing source, and the shared cell holds
  an error only while the read runs in which the source failed.
- `EveryBackendIsADecoder`: `ImplementsDecoder`, the safety of the refinement, with a decoder's
  bytes as positions, what it can give as `Size`, and what it has used up as `Position`: for zlib what the
  codec has made and no running read still holds, for a frame what has been returned, or, after an
  error, everything.  Until a read has failed every backend gives the entry's bytes in order;
  afterwards zlib and uncompressed entries go on in order, and an LZ4 or Zstandard entry is out of
  step (`Lost`), so the theorem promises nothing of its bytes or its end.  One lemma for each thing a read may answer (`DecoderGives`, `DecoderEnds`,
  `DecoderFails`, `DecoderIsIdle`), and one for each backend that says which of its steps give which.
  The invariants above are strengthened by what `BoundedEntryReader` bounds: no
  more is made than the entry decodes to (`ZlibBounds`), no frame gives more before an error, and
  a frame decoder that has failed without its codec having failed stands at the end of a frame that is cut, with nothing left
  to give (`FrameBounds`).  `MaxSize` is assumed to bound the entries, as the counter of
  `BoundedEntryReader` does.

Some of these state definitions that no run lists, because a run's time is better spent:
the type invariants, and `NothingAfterTheEnd`.

Only model-checked, and why:

- `EveryCallReturns`, `CopyEnds`, `EveryReadReturns`: liveness is beyond the prover.
- The six properties of `FormatCheck`: what bytes or symbols decode to are recursive definitions
  over data, and what they say holds by induction over it.

## Where the code and its documentation differ

- `table_after_error`: `table_rows.rs:116` (and `:43-45`) says that after a row-reading
  error "later `next_row` and search calls return `Ok(None)`".  `find_first_equal` resolves
  its column before it looks at the reader (`table_rows.rs:273`), so it returns
  `ColumnNotFound`, or a metadata error.  No byte is exposed and the stream does not move.
- `find_defaults`: `ARCHITECTURE.md:486` says that `find` "exposes positive-`u64` row/byte
  overrides and otherwise leaves them unlimited".  Without an option `find` applies finite
  defaults (`main.rs:18-19` and `485-493` of the CLI), and only `--unlimited` lifts them; the
  usage text and the tests agree with the code.
- Not a run: `EntryReadLimits` documents crossing a limit as a limit error; with a limit of
  `u64::MAX` the counter overflows on the same byte, and the overflow error is returned
  (`raw_entry.rs:177`).

## What is left out

- *Wording and context of errors*, the archive byte offsets in them, and the error
  taxonomy: kept as kinds.
- *Row storage*: the reuse and growth of the parser's buffers; the failure to allocate a
  match is kept because it is visible, others end a call as any error does.
- *`ArchiveReader`'s own offset overflow*, at 2^64 bytes of a source.
- *A source that fails with `UnexpectedEof` before its end*, which `read_some` takes for an
  end: the model's source ends only at its end.
- *The codecs*: what flate2, lz4_flex and ruzstd decode; of a codec, `ZlibDecoder` and
  `FrameDecoder` keep what it takes, gives and reports.  They assume that a codec passes its
  source's error on in the read in which it happened, and that flate2's decompressor, once it has
  refused its input, goes on refusing it (the `rust_backend` of `Cargo.toml:22` keeps its failed
  status).  Of an LZ4 or Zstandard codec that is called after a failed read nothing is assumed.
- *A reader that goes on after an error inside a chunk length*: nothing is promised to it,
  and the properties of `ChunkReader` stop there.
- *The meaning of the creation time*, whose seven integers are read and kept.
- *Memory that cannot be had for a name of a COPY statement*; the other allocations of the
  index and the metadata fail where the code says so.
- *What `inspect` and `list` print*, beyond being some pieces of output.
- *Value types, accessors, file opening, fuzz targets, benchmarks, scripts*: no behaviour of
  their own, or not part of the library.

## Plan

In order of what a mistake would cost:

1. `CopyText`, `CopyRowReader`, `RowStream`, `TableRowReader`: rows.  Done.
2. `BoundedEntryReader`, `RawEntry`, `EntryCopy`, `ExtractionPlan`: raw extraction.  Done.
3. `ChunkReader`: framing of the data block.  Done.
4. `ZlibDecoder`, `FrameDecoder` and their composition `EntryDataReader`.  Done.
5. `ArchiveIndex` and `ArchiveAccess`: relationships in any order; the checks before the first
   payload byte.  Done.
6. `ArchivePrimitives`, `ArchiveMetadata` with its budget, `CopyStatement`.  Done.
7. `CommandLine`: options, defaults and exit outcomes.  Done.
8. Proofs: `CopyRowReader`, `RawEntry` with its refinement, `BoundedEntryReader`,
   `ArchiveMetadata`, `CommandLine`, `TableRowReader`, `ExtractionPlan`, `ArchiveIndex`,
   `ArchiveAccess`, and the three backends of `EntryDataReader`.  Done.
9. The refinement of the decoder, `IndexBudgetIsExact`, the framing of rows and the refinement of
   `RowStream`, and the reading of command lines against the usage text.  Done.
10. `WrittenArchive`, and the proofs that parsing is faithful to it and its limits exact.  Done.

## Running it

    tlc -workers 2 -config raw_copy.cfg RawEntry.tla
    tlc -workers 2 -config row_reader.cfg MCCopyRowReader.tla
    tlapm RawEntryProofs.tla

The module and configuration of every run, its properties and their mutants are listed in
`PROJECT.json`, with the source lines each definition translates.
