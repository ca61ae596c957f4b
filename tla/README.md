# A TLA+ verification project for OTIC

OTIC is a C library that packs rows of sensor data (time, sensor name, unit,
value) into a compressed stream and unpacks them again. This directory models
its channels, containers, PHP classes and command line tool, model-checks the
models with TLC and proves theorems about them with TLAPS. Paths below are
relative to the repository.

## 1. The system

| Component | State | Operations |
| --- | --- | --- |
| Base (`include/core/base.h`, `src/core/base.c`) | `otic_base_t`: bucket, write position, timestamps, row counter, state, error | LEB128, value helpers |
| Pack channel (`src/core/pack.c`) | dictionary of sensors with index and last value, number of entries, threshold, bucket | `inject_bool/i/i_neg/d/s/n/b/array`, `flush`, `resizeBucket`, `close` |
| Pack container (`src/core/pack.c`) | list of channels, flusher callback, state, error | `init`, `defineChannel`, `closeChannel`, `flush`, `clearErrorFlag`, `close` |
| File (`doc/OTIC_FORMAT.md`) | header, then frames: define, type, compression, chunk size, data | appended by the flusher, consumed by the fetcher |
| Unpack channel (`src/core/unpack.c`) | entries in order of their names, current value of each, fetch list, block, buffers, row counter | `toFetch`, the `read_*` functions, `close` |
| Unpack container (`src/core/unpack.c`) | list of channels, fetcher and seeker, state, error, channel of the current block | `init`, `defineChannel`, `closeChannel`, `parse`, `generate`, `close` |
| Formatter, comparison (`src/utility/format.c`, `compare.c`) | columns as pointers into a buffer, a chunk of text | `format_parse`, the chunker, `compare_compareLineValues` |
| PHP bindings (`bindings/php7`) | PHP objects that own the above | one method per library call, and an exception or not |
| TSV tool (`demo/tsvParser`) | a chunk, a pack, an unpack | compress, decompress, compare |
| Aggregator, time series (`src/utility`) | a queue, a frame of time | built only into the fuzz targets, called by nobody |

How they interact. A user's call on a pack channel writes *records* into the
channel's bucket: a timestamp (set or shift), a name the first time a sensor
appears, then a value under the sensor's index or `UNMODIFIED` with the index
alone. When the write position is past the threshold at the end of a call (or a
string needs room) the bucket is compressed and handed to the flusher callback
as a header and a body: a *data frame*. Nothing but the file connects the packer
and the unpacker. `otic_unpack_parse` asks the fetcher for one frame, and
decodes a data frame record by record, calling the user's callback for a row.
The reader numbers names in the order in which it meets them; the file never
says which index a name has.

A container keeps its channels in a singly linked list, newest first, and all of
them write into one file, whose frames carry the channel's id. The unpacking
container skips the blocks of channels nobody selected. `otic_unpack_generate`
is a second reader, which returns after each record. A PHP method calls the
library once and throws for the state it finds afterwards. The command line tool
reads a text in chunks, splits it in place and packs a row per line.

The library is single-threaded: a call is a step. What is hard is elsewhere:

* nothing checks the end of the bucket while writing into it: the 512 bytes
  kept above the threshold must be enough for any call;
* two dictionaries, the packer's hash table and the reader's array, must number
  sensors alike and remember the same last values, with nothing to check them
  against each other but a row count at the end;
* the flusher, zstd and realloc may fail at any of their calls, some results
  are ignored, and the bucket must survive or be retried;
* the writer may die in the middle of a frame while a reader follows it;
* buffers are resized on one side, and the other hears of it through the file;
* integers change width on the way (32-bit last values, 16-bit indices);
* channels share a container, a file and a reader, and each has a state and an
  error beside the container's;
* columns are pointers into a buffer that is filled again, and a chunk may end
  at any byte of a line.

What makes each part correct: for the pack channel, that no write leaves the
bucket, that indices are exactly 0, 1, 2, ..., that the last value is the last
accepted one, that refused calls change nothing and failures are not forgotten;
for the unpack channel, that it never follows an index it does not have and
counts rows as the packer does; for the two together, that the rows handed over
are the rows accepted, in order, none skipped or repeated, and that the end is
recognised when, and only when, everything was read. For the container, that
its list holds the live channels, that channels are independent, that a failed
write is heard of and that a channel closed and defined again starts anew; for the
bindings, which rows an exception stands for and what a file without one has;
for the tool, that a line is a row wherever its bytes were cut.

## 2. The modules

| Module | What it is |
| --- | --- |
| `OticBase` | Constants of the format, values, the records of a bucket and the bytes each takes. |
| `OticFile` | Frames and the variable `wire`: what is in the file and not yet read. |
| `PackChannel` | One packing channel. `pk` is `otic_pack_channel_t` with the state and error of its container; `rows` is the history of accepted injections. |
| `UnpackChannel` | One unpacking channel driven by `otic_unpack_parse`. `up` is `oticUnpackChannel_t`; `got` the history of callbacks. |
| `OticLog` | The abstract specification: a log that is appended to, closed, and read once in order. |
| `OticPipe` | `PackChannel` and `UnpackChannel` around one file, with crashes; refines `OticLog`. |
| `ContainerFile` | Frames with channel ids, and the variable `file`. |
| `PackContainer` | `otic_pack_t`: the set of its channels, its state, the calls on it and on its channels. |
| `ChannelList` | The packer's singly linked list, link by link. |
| `UnpackContainer` | `otic_unpack_t`: the list, `parse` and `generate`. |
| `OticContainers` | A container, its file and the container that reads it; each id refines `OticLog`. |
| `PhpPack`, `PhpUnpack`, `PhpSession` | The PHP classes: a script that packs, ends or dies, and one that reads what it left. |
| `Format`, `TsvTool` | `format.c`, and the tool's three commands over it. |
| `Leb128` | The four LEB128 functions. |
| `PackChannelProofs` | Theorems about `PackChannel`. |
| `TapeProofs`, `PipeProofs` | The invariant of `OticPipe`, and theorems about it and its refinement of `OticLog`. |
| `ContainerProofs` | The lists and the types of `OticContainers`. |
| `EachTapeProofs`, `EachLogProofs` | What `OticContainers` leaves in the file for each id, what its reader makes of it, and its refinement of `OticLog`. |
| `SessionProofs` | Theorems about `PhpSession`, on top of those about the containers. |
| `TsvProofs` | Theorems about `Format` and `TsvTool`. |
| `MCPackChannel`, `MCOticPipe`, `MCContainers`, `MCPhpSession`, `MCTsvTool` | Constants for TLC. |

**PackChannel.** A handler of `pack.c` is a composition of a few steps that the
code repeats in each `inject_*`: `TsHandler` (`otic_ts_handler`), `MadeRoom`
(the flush in `inject_s`), `WriteRow` (lookup, name record, value or repeat),
`CountRow`, `FlushIfFlushable`. Each is an operator from a channel record to the
channel records it may become. Each exit of a handler is an action: `Inject`
returns 1; `InjectBadTimestamp`, `InjectLongString`, `InjectNoRoom` and
`InjectLongName` are its early returns, in the code's order, each leaving what
the code has already written. `Flush`, `Close`, `Resize` and `ResizeRefused` are
the other calls. Frames written during a call are collected in `pk.sent` and
appended to the file by `Return`. Bytes are counted (`used`, `cacheSize`,
`threshold`), contents are not: names, strings and doubles are abstract, with
their length, hash and equality. History fields of `pk` (`overrun`, `spilled`,
`flushFailed`, `squeezed`, `unheard`) remember what properties ask about. After a
write past the bucket, or once `realloc` has moved the buffer under `base.top`,
behaviour is undefined and the model stops there. So it may after a flush of a
bucket that was enlarged: `ztd_out` keeps the size the channel was defined with, and
zstd is told it is as large as the bucket (`MaySpill`, `Spill`).

**UnpackChannel.** One action per frame type of `otic_unpack_parse` and one per
`otic_unpack_read_*` function. The records of a block are separate steps because
the user's callback runs between them. The scalar `read_*` functions differ only
in the value they decode and share `ReadValue`. `ReadRawBuffer` takes the index
for a size, as the code does, and from there the block is lost (`astray`).

**OticPipe.** `Write` is any call of the packing side, `Crash` ends the writer's
process between two calls or in the middle of a flush (a torn frame stays in the
file), `ReadFile` is a frame or a record for the reader, `Fetch` sets its fetch
list. A fetcher waits at the end of the file while the writer lives.

**OticLog** is refined through `log <- rows`, `position <- up.rowCounter`,
`output <- got`, `closed <- pk.handle = "freed"`, `finished <- up.complete`: an
injection appends, a row record delivers (or skips a sensor not wanted), the EOF
record with the right count finishes, everything else stutters.

**PackContainer.** A channel is a handle, numbered as allocated. The list only
ever gains its newest member and loses some, so a set of handles stands for it
and `NewestFirst` for its order. A bucket is a sequence of records without a
size: how bytes are counted is `PackChannel`'s subject, and here every place
where a handler may flush is a choice: behind the time (`Timed`), to make room
for a string (`RoomMade`) and at the end. A row is a piece of work handed from
one to the next (`Begun`, `Flushed`, `On`): the channel as it is by now, the frames
written so far and whether a write failed; `Leaves` puts it into the state.
`Inject` is a row accepted, `InjectRefused` one refused, for its time at once, for a
length behind the time: the channel is in error, and the container hears of it
only if a write failed (`HeardOf`). `CloseChannel` (`otic_pack_closeChannel`) frees the
channel, unlinks it only when it is the head, and reports failure either way:
what stays behind is a `"dropped"` handle, after which `Walkable` lets no call
follow the list. `PackFlush` writes its frames without the tag the readers look
for. `DEFINE` stands for the four frames `defineChannel` writes with one call,
whose result it ignores.

**ChannelList** is the list behind that set: `head`, a link (`previous`) for each channel,
and a walk that is one turn of a loop per step, for `defineChannel`,
`otic_pack_channel_close`, `otic_pack_close` and `closeChannel`. Its history
`linked` is `PackContainer`'s set.

**UnpackContainer.** A step is a frame (`ReadFrame`) or a record (`ParseRecord`,
`GenerateLine`), since callbacks run in between; `inCall` says whether the caller
has a word. `ReadTorn`, `ReadTornDefine` and `ReadUntagged` are what the reader may make of a
frame that is not what it seems (`Misread`): it stops with an error; or the reading just
ends, since the seeker, or a body that cannot be fetched, led beyond the file and parse
returns 0 with no error; or it is `astray`. `Line` is what one call of
`otic_unpack_getLine` reads: behind a small integer, the next record too. `astray`
is undefined behaviour, or a reading that goes on where no frame begins; nothing is said of what
comes after.

**OticContainers** lets the packer's process end at any time (`PackerGone`) and a
reader open what it left. The header may be missing (its write was not looked
at) or newer.

**PhpPack, PhpUnpack** wrap the actions above: a method is a library call and
what the script is told (`Tells`). Silent kinds (negative integers, nulls,
booleans) leave `CLOSED` where others leave `ON_ERROR`, so that `inject` does not
throw for them. The pack object's destructor runs before or after its channel
objects go; a fatal error runs none; a killed process may tear its last frame. The
flusher of the bindings reports success whatever the stream did: to the library no
write fails (`FlushResults = {"ok"}`), and `StreamLoses` takes a frame, its body, or its
beginning out of the file. A resize may move the bucket under `base.top`; the script is
`"undefined"` from there on.

**Format, TsvTool.** A text is a sequence of tokens (a delimiter, an end of line,
a column's text), columns are positions in the buffer. Packing a line is two
steps, `ParseLine` and `InjectLine`. Between the tool's two halves stands a channel, with a
`clock` that refuses a time before it, a length that a new sensor's name and unit may have
(`Long`, refused after the clock has moved), and a dictionary: `told` is what the reader gets
for each row of `packed`, which is the value before if the channel takes the two for the
same (`Answers`: 32 bits of a first integer, a first string without its end). Times
are told to four decimals (`Tick`, `Shown`), and compare reads fifteen characters of
each (`Cut`).

**Leb128** is the encodings as recursive functions over words of `w` bits. Its two
`ASSUME`s are the comparison with their definition, evaluated with
`MCPackChannel`.

## 3. The runs

| Run | Checks | Result |
| --- | --- | --- |
| `pack_channel` | `TypeOK`, `BucketBound`, `DictionaryExact`, `LastValueCurrent`, `FailureSticks`, `RefusedLeavesNothing` (and the `ASSUME`s of `Leb128`) | hold |
| `otic_pipe` | `ReaderTypeOK`, `NoWildRead`, `CountAgrees`, `ReaderFits`, `ImplementsLog`, `ReadsToTheEnd` | hold |
| `containers` | `ContainersTypeOK`, `ListsExact`, `FailureHeard`, `OnlyBadFramesMislead`, `EachIsALog`, `ReadsEveryChannel` | hold |
| `channel_list` | `ListTypeOK`, `ListAsLinked`, `CloseFinds`, `CallsEnd` | hold |
| `php_session` | `SessionTypeOK`, `RowsTold`, `FileLeftWhole`, `QuietLoopReadAll`, `GeneratedExplained` | hold |
| `tsv_tool` | `TsvTypeOK`, `LinesAsRows`, `OrderlyAgrees`, `EqualLostNothing`, `ToolEnds` | hold |
| `resize_unheard` | `ReaderAlwaysFits` | violated |
| `wide_integer` | `ReadBackSame` | violated |
| `late_fetch` | `FetchHonoured` | violated |
| `unterminated_string` | `ReadBackSame` | violated |
| `index_wrap` | `UniqueIndex` | violated |
| `channel_reopened` | `RightSensor` | violated |

One channel and its reader:

* `BucketBound`: while no flush failed and no resize cut into the reserve, every
  call starts at or below the threshold and no write passes the end.
* `DictionaryExact`, `LastValueCurrent`: the dictionary numbers sensors without
  gap or repeat and remembers the latest accepted value.
* `FailureSticks`, `RefusedLeavesNothing`: a failed flush leaves the opened
  state for good; a refused call leaves no sensor and no row.
* `ImplementsLog`: rows arrive unchanged, in order, none skipped or repeated,
  under refused calls, failed and retried flushes and crashes; an accepted end
  means a whole log.
* `NoWildRead`, `CountAgrees`: the reader's untested assumptions about what it
  reads are met.
* `ReadsToTheEnd`: a file closed with no flush failing is read to its EOF record.
* `ReaderFits`: the reader's buffers are as large as the packer's when a data
  frame is read, if every resize was announced.

Containers:

* `ListsExact`: each list holds exactly the live channels, no two with one id.
* `FailureHeard`: no call puts a broken frame into the file, or leaves a channel newly in
  the error of a failed flush, behind a container that says `OPENED`, also when the
  handler dropped the flush's result or refused the row afterwards. Of refused rows
  alone the container hears nothing.
* `EachIsALog`: the rows of each id refine `OticLog`, whatever other channels,
  closes, failed writes and missing frames lie in between.
* `OnlyBadFramesMislead`: only a torn or untagged frame leads the reader onto
  undefined ground, never a record of a whole block.
* `ReadsEveryChannel`: of a file of whole frames, `parse` reaches the end record of
  every selected channel that was closed in good order.
* `ListAsLinked`: the links lead from the head through exactly the channels of
  `PackContainer`'s set, newest first, whichever call took which channel out.
* `CloseFinds`, `CallsEnd`: `otic_pack_channel_close` always finds its channel, so that
  its 0 and the error path of `otic_pack_close` are never taken; the list never leads
  round in a circle, so that every loop over it ends.

PHP:

* `RowsTold`: `inject` returns without an exception no more often than rows are
  accepted, as long as no row of a silent kind was refused.
* `FileLeftWhole`: the destructor leaves every channel's accepted rows and one end
  record in the file, in whichever order objects go and whatever was caught and
  cleared before, if the stream has taken all it was given.
* `QuietLoopReadAll`: a loop over `parse` that ends without an exception has left no
  error behind and has read the whole file, unless it met a torn or untagged frame.
* `GeneratedExplained`: what `generate` returns, of a file that has all that was written,
  contains every row in order, and besides only names without a value and repetitions of
  a row at a later time.

Command line tool:

* `LinesAsRows`: a line with all its columns is packed once, as what stands in it,
  wherever chunks end and whatever short lines precede it; unless its time is before
  that of an earlier line, or it is the first taken of a sensor with too long a name and
  unit, when it is refused and nobody told.
* `OrderlyAgrees`: `-c` finds an orderly text equal to what is unpacked of it. Orderly is a
  text whose times do not go back and have no digits, among the first fifteen
  characters, that are not packed, with one unit for each sensor, not too long, and no two
  values of a sensor that the dictionary may take for the same (`Alike`).
* `EqualLostNothing`: a text found equal has lost no line, if its times are told apart
  by their first fifteen characters.
* `ToolEnds`: the tool ends on every text.

The violation runs are findings:

* **wide_integer** The first value of a sensor is stored through a `uint32_t`
  parameter (`src/core/pack.c:74`, `:85`) and compared in 64 bits afterwards.
  2^32+5 and then 5 are taken for the same value.
* **resize_unheard** `otic_pack_channel_resizeBucket` ignores what the flusher
  returns for the new size (`src/core/pack.c:885`).
* **late_fetch** Whether a sensor is ignored is decided when its name is read
  (`src/core/unpack.c:69`); a list set later does not apply to it.
* **unterminated_string** The first string of a sensor is stored without its
  terminating byte (`src/core/pack.c:114`) and compared with `strcmp`
  (`:634`): a longer string that begins with it may be taken for it. What lies
  behind the block is a choice of the model (`Unmodified`, `Extends`).
* **index_wrap** A new sensor's index is a `uint16_t` counter that wraps
  silently (`src/core/pack.c:432`), so indices are not the unique ones of
  `doc/OTIC_FORMAT.md`. The run has a counter of two values and three sensors.
* **channel_reopened** A channel closed and defined again starts its indices at 0
  again; the reader keeps the entries of the first life
  (`src/core/unpack.c:815`) and hands rows over under the wrong name.

Met on the way, in the models as they are in the code, and without a run
of their own:

* `read_rawbuffer` takes the index for the size (`src/core/unpack.c:234`); files with
  raw buffers are not read back.
* `otic_unpack_getLine` goes on behind a small integer (`src/core/unpack.c:486`):
  `generate` loses the reader in files with small integers.
* `otic_pack_flush` writes frames the readers cannot tell: a length where a tag is looked for
  (`src/core/pack.c:1034`). A length of 260 begins with the bytes 4 and 1, a data frame
  of channel 1. If that is not selected, the seeker skips a size made of what follows,
  which leads beyond the file; nobody asks it whether it could (`src/core/unpack.c:829`),
  and the next `parse` returns 0 as at the end of a good file (`:810`). This is why
  `QuietLoopReadAll` excepts such files (`misled`). Frames have no sizes in the
  models: there every untagged frame may be taken so.
* `oticPack_flusher` (`bindings/php7/src/otic_php_pack.c:258-262`) drops what
  `php_stream_write` returns. What the stream did not take is lost, the bucket is
  emptied, and no call and no destructor says so. This is why `FileLeftWhole` and
  `GeneratedExplained` are about streams that took all (`script.short`).
* `otic_pack_closeChannel` reports failure either way, so that PHP's `closeChannel`
  always throws, and it leaves a freed channel in the list unless it is the head.
* A refused row sets the state of its channel and not of the container; the tool asks
  the container (`demo/tsvParser/tsvParser.c:271`) and loses the line.
* `compare` cuts times to fifteen characters (`src/utility/compare.c:98`): two that differ
  behind them are equal.
* PHP's `defineChannel` goes on behind an exception for an invalid argument. An
  `OticPackChannel` that is released is not closed, as `otic.stub.php:154` has
  it; its container closes it. `generate` returns a record of the time as the row
  before at the new time.
* The tool packs an empty value at the end of a chunk, or of a text without an end
  of line, as the integer 0; packs "2019-12-06" as an integer; compares with a null
  pointer when one text has a unit or value where the other has none.
* `otic_timeserie_shift` (`src/utility/timeSerie.c:31`) takes every timestamp for
  one out of order once there is an interval.

**Bounds.** One channel: `MaxRows` (injections accepted) is 3: enough for a new
sensor, a changed and a repeated value with another sensor or a refusal between
them. `MaxWire` bounds the frames in the file when a call begins. The bucket is
just above the 1024 bytes the resize accepts and the names are 250 to 254 bytes
long, so that two names, or one string, pass the threshold: the limits
themselves (255, 512, 1024) are the code's. Two timestamps, in two ticks,
make set, repeated, shifted and refused ones. `WordMod` stands
for 2^32 and is 1000, so that a number beyond the word is small; `IndexMod` is
the code's 65536, except in `index_wrap`, where it is 2. "long" and "over" (and
"a" and "b" in the pipe) share a chain of the hash table. Both resize to 1200
bytes, the channel alone also back to 1030, which may cut into the reserve; two capacities
are all that `ReaderFits` has to tell apart. A resize whose announcement fails is in
`pack_channel` and `resize_unheard`, a body that fails behind its header in `otic_pipe`.

Containers: two ids and the reserved one, two channels (`MaxHandles`), two
readers, two rows, and at most two blocks in the file when a call begins: two
channels are what a list, an order of closing and foreign blocks need, two rows are
a dictionary of two entries or one that is used again. Ids and sensors are
interchangeable, also in the temporal properties; `FirstOnes` keeps one
representative of each permutation, in place of `SYMMETRY`, which is unsound for
liveness. `LateSelect` is off: a channel selected in the middle of a file has
missed names, and the reader does not test its indices. `Small` is empty and
`Reopen` off in the passing runs for the reasons above. There is one time, as rows of
several channels are what matters; that clocks are per channel is in the model and the
proofs, and the PHP run has two times. `channel_list` has three ids and five channels: a head, a
middle and a last one, and two more defined after closes.

The PHP run has one sensor, two times, one value of a heard and one of a silent kind, and
one reader. Its stream loses at most one frame, of a file of at most four, when the
destructor has run (`OneLoss`): the writer cannot tell when it happened, so that
the moment makes no difference to what is in the file.

Tool: texts of up to three of eleven lines, in chunks of 4 to 13 tokens (a line has
eight or nine) and of 30. Among the lines are an empty unit and an empty value, a time with a
digit too many and one that is cut to another, an integer beyond 32 bits and one that is
its low word, a string that begins with another, a name and unit too long, a line without its
fifth column and a blank one.

`CHECK_DEADLOCK FALSE`: a closed or crashed handle has no further calls, a reader
that returned 0 is done, and the tool ends.

**Fairness.** Only readers, the tool, and loops. `WF(ReadFile)`: the caller of
`otic_unpack_parse` or `generate` calls it until it returns 0, and a block is
decoded by a loop that runs to its end. `WF(TsvNext)`: a sequential program goes
on as long as it can. `WF(Turn)` in `ChannelList`: a loop that was entered is run; nobody
need call. Else nothing is assumed of the packing side: it may stop
calling, never close, or crash. `ReadsToTheEnd` and `ReadsEveryChannel` are about
files that were closed.

## 4. The proofs

For every value of the constants that meets the named assumptions of the modules:

| Theorem | Says |
| --- | --- |
| `TypeCorrect` | `Spec => []TypeOK` |
| `FailureNeverForgotten` | `Spec => []FailureSticks` |
| `ReserveSuffices` | `RawFits => (Spec => []BucketBound)` |
| `RefusalLeavesNothing` | `Spec => RefusedLeavesNothing` |
| `NumberingExact` | `FewNames => (Spec => []DictionaryExact)` |
| `LastValueStaysCurrent` | `FewNames /\ PlainValues => (Spec => []LastValueCurrent)` |
| `ReaderTypeCorrect` | `PipeSpec => []ReaderTypeOK` |
| `ReadsStayInside` | `NoRawBuffers => (PipeSpec => [](NoWildRead /\ ~up.astray))` |
| `CountsAgree` | `NoRawBuffers => (PipeSpec => [](CountAgrees /\ ~up.astray))` |
| `BuffersFit` | `PipeSpec => []ReaderFits` |
| `ListHonoured` | `~LateFetch => (PipeSpec => FetchHonoured)` |
| `ReadBackExact` | `PlainInputs => (PipeSpec => []ReadBackSame)` |
| `PipeIsLog` | `PlainInputs /\ OneUnit /\ DistinctHashes /\ ~LateFetch => (PipeSpec => ImplementsLog)` |
| `ListsStayExact` | `CSpec => []ListsExact` |
| `FailuresAreHeard` | `CSpec => FailureHeard` |
| `ContainersTypeCorrect` | `CSpec => []ContainersTypeOK` |
| `WholeBlocksNeverMislead` | `~LateSelect /\ ~SmallByGenerate => (CSpec => OnlyBadFramesMislead)` |
| `EachIdIsALog` | `~Reopen /\ ~LateSelect /\ ~SmallByGenerate => (CSpec => EachIsALog)` |
| `SessionTypeCorrect` | `SSpec => []SessionTypeOK` |
| `QuietLoopsReadAll` | `SSpec => []QuietLoopReadAll` |
| `InjectTellsEveryRow` | `SSpec => []RowsTold` |
| `DestructorLeavesWhole` | `~Reopen => (SSpec => []FileLeftWhole)` |
| `GenerateExplains` | `~Reopen /\ ~LateSelect /\ ~SmallByGenerate => (SSpec => []GeneratedExplained)` |
| `ToolTypeCorrect` | `TsvSpec => []TsvTypeOK` |
| `LineIsRow` | `TsvSpec => []LinesAsRows` |
| `OrderlyTextsAgree` | `TsvSpec => []OrderlyAgrees` |
| `EqualTextsLostNothing` | `TsvSpec => []EqualLostNothing` |

`TypeCorrect` and `FailureNeverForgotten` (`PackChannelProofs`) follow from the inductive invariant `IInv`: the type invariant,
the *geometry* of the bucket (more than 1024 bytes, the threshold 512 below its
end) and that a failed flush shows in the state. The type invariant alone is not
inductive: that a threshold or a shifted timestamp is a natural number needs the
geometry and the order of ticks.

`ReserveSuffices` adds `Within(pk, 0)`: unless disturbed by a failed flush or a
squeezing resize, the bucket is at or below the threshold. The argument follows
a handler: the timestamp record takes at most 11 bytes and the flush behind it
restores the bound; a string is made to fit below the threshold; a name takes
at most 257 bytes and a value 255, or 14 and the string itself, 512 in all; the
flush at the end restores the bound. `RawFits` (raw buffers of at most 243
bytes) is a hypothesis because `inject_b` never asks for room. 257 + 4 + 8 + 243
is exactly 512.

`NumberingExact` adds `Numbered` to `IInv`: besides what `DictionaryExact` says,
the *number* of known sensors is `totalEntries`. Without it the counter could
have wrapped: with it, a new sensor's index is below the number of names, and
`FewNames` (finitely many, fewer than `IndexMod`) keeps the next one from
wrapping. No known sensor has the next index, so `entry_insert_routine` finds
none to reuse, whichever chains the names share. `index_wrap` shows that
`FewNames` is needed.

`LastValueStaysCurrent` is inductive beside `Numbered`: whatever is remembered is
the value of some row, so that the test for an unmodified value compares two
values of `Values`. `PlainValues` says for which inputs that test is exact:
integers below `WordMod`, strings none of which begins another, and a value
determined by its type and what is compared of it. `wide_integer` and
`unterminated_string` show that it is needed.

**The pipe** (`TapeProofs`, `PipeProofs`). None of the pipe's properties is
inductive: why an index the reader meets is in its dictionary depends on what
was encoded long ago, in a frame that has left the bucket and not yet reached the
reader. The invariant (`Tracked`) says that a *tape* exists: all records encoded
so far, in order, with a *mark* beside each, which is what a reader who has read
up to there knows (entries, timestamp, rows). The tape is *written* if each
record is legal at its mark (`Legal` is what `parseBlock` takes for granted) and
the next mark follows from it by the reader's own rules (`NextMark`). The
reader's block, the data frames of the file and the bucket are consecutive
stretches of the tape (`Follows`, `Cut`); the reader knows what the mark at its place
says (`Knows`); the packer's clock, counter and indices agree with the last mark
(`Holds`); the sizes announced in between lead from the reader's buffers to
the packer's (`Announced`); an `EOF` is the last record (`EndsOnce`). This much needs
no hypothesis, not even that indices do not wrap: a wrapped index is small. It
ends where a raw buffer is read: `read_rawbuffer` skips a wrong number of bytes, and
what is taken for records behind it may be anything. `ReadsStayInside` and `CountsAgree`
therefore suppose that there are none (`NoRawBuffers`), and add that the reader is then
never astray (`NeverAstray`).
For `PlainInputs` (`FewNames` and `PlainValues`) the invariant says more (`Exact`): the
n-th row record decodes, at its mark, to the n-th row accepted (`Told`), and
the last mark's values are those the packer remembers (`Mirrors`), which makes
an `UNMODIFIED` decode to the value that was injected.

`TapeProofs` shows that the packing side only ever writes the tape on. Each
transformer of a handler has a lemma (`StampedBears`, `RoomBears`, `KnownBears`,
`NewBears`, `FlushedBears`, `ResizedBears`, `EofShut`): a record put into the bucket
extends the tape by a legal one, a flush, failed or not, moves the boundary between
bucket and frames, a resize adds an announcement. An action's lemma
(`InjectStanding`, `FlushStanding`, ...) chains them as the handler calls them, the
early returns included. `PipeProofs` does the same for the reader: taking a frame
off the file moves the tape's boundaries (`TakenFlow`), reading a record moves the
reader to the next mark (`ReadAdvances`). `SafeRecord` and `EofLast` then say
of the record at hand what `NoWildRead` and `CountAgrees` ask. A crash needs
nothing: a torn frame is the last one, and no data.

`PipeIsLog` goes by kinds of steps (`StepKinds`): a step of the reader is quiet,
names a sensor, hands over a row or ends; a step of the writer leaves the rows or
appends one before the close. `ListInv` relates the entries' `ignore` to today's
fetch list; `~LateFetch` is needed for it (`late_fetch`). The other hypotheses are
needed too: the reader keeps the unit of a sensor's first row for all its rows
(`OneUnit`), and `toFetch` compares hashes of names (`DistinctHashes`), so that
a sensor not asked for is handed over if its hash is that of one that was.
The run `otic_pipe` has constants that meet all of them.
`FetchHonoured` and `ReadBackSame` are checked by runs whose constants do not,
and are violated there: the theorems say that nothing else violates them.

There is one lemma per transformer of the packer (`PutFormed`, `FlushedFormed`,
`StampedFormed`, `RoomFormed`, `RowFormed`, ...) that says what it needs and
leaves, and one per action, which chains them in the order of the calls.

`ListsStayExact` and `FailuresAreHeard` (`ContainerProofs`) hold for any number of
channels, ids, readers and rows. The inductive invariant `ListsInv` is that of two
halves that never touch, the packer's and the reader's, except when the packer's
process ends: besides `ListsExact` it says that the handles not allocated yet are
unused (without it a new channel could be one that is in the list), and which
fields a record has. `PackKept` and `ReaderKept` say that a call that changes
neither the list nor a channel's use and id keeps the half; what is left are
the calls that define, close and free. A new id is not `Occupied`, hence no live
channel's. A channel found by `closeChannel` is dropped, whether it is the head
or not, and leaves both sides of the equation. `FailuresAreHeard` takes the
shapes from `ListsInv` and looks at each call: either it is `Quiet` (its frames are
whole and no channel has got the error of a failed flush), or the container's
state was set in the same call. A row may flush up to three times, each time with an
outcome of its own: `Working` and `WorkOf` say what any such call, accepted or
refused, leaves of a channel, and `WorkingHeard` that one failure among its flushes is enough.

`ContainersTypeCorrect` goes by the same cases. What it needs beside
`ListsInv` is `PackTyped`: a channel in use has the id of a channel, never the
file's own, or `otic_pack_flush` would write frames that are none. That the frames
of `otic_pack_close` and `otic_pack_flush` come one per linked channel is
`NewestFirstLists`: the list of a finite set of handles has each of them once.

**The containers' tapes** (`EachTapeProofs`, `EachLogProofs`). `WholeBlocksNeverMislead`
and `EachIdIsALog` follow the argument of the pipe, with a tape per channel id and
three differences. First, the file is not one channel's: `Cut` skips the frames of
other ids, and a call on one channel leaves the tapes of the others alone
(`OthersPacked`, `SparedPacked`). Second, not all that is in the file will be read.
`otic_pack_flush` empties buckets into frames without a tag, a failed write leaves
half a frame, and what is written behind refers to names in a block nobody decodes;
but no reader gets past such a frame. `Cut` therefore speaks only of what a reader
reaches (`Reach`), and the bucket of the live channel is the end of the tape only
while the whole file is `Clean` (`Continues`). Third, a channel may be defined with
the id of one that was closed, or dropped with its bucket full. Its dictionary is
empty while the reader's is not, and indices begin at 0 again: they are below the number
of names the reader has (`Matches`), which is all that `OnlyBadFramesMislead` needs.
The tape is cut back to what is in the file before it goes on (`TruncatedFiled`). A call that
flushes more than once is followed step by step (`Continued`): what it has written so
far behind the file, and the channel as it is by now, continue the tape.
Where no id is defined twice, `Matches` and `Recounts` say more: packer and reader agree
on names, clock and count, the n-th row record decodes to the n-th row accepted, an
`EOF` record counts all rows of a channel that was closed, and times do not go back. `Books` relates the
channels to the history: a live channel has counted the rows of its id, and no
other has had the id.

The invariant is `OnTape`: while the packer runs, `Writes` (a tape per id) and an
untouched reader; while the reader runs, `ReadsOn`. That says that each live reader
is at a place of its id's tape (`Follows`: its block is the stretch before the file's
next frame, and it knows what the mark there says) and has handed over as many rows
as it has counted, and that only the reader `current` points to is in the middle of a
block (`Orderly`); without it a block could be put over the rest of another. The end
of reading (`ended`, `astray`) needs nothing: no call follows. `WritesInductive` has
a lemma per call of the packer, `ReadFileTapes` and `CallsReads` one per frame,
record and call of the reader. `LostAt` is `WholeBlocksNeverMislead` for a step.
`LogStep` is `EachIdIsALog`: a step is a row injected (`LogAppends`), the close of a
channel (`LogCloses`), a row record read (`LogDelivers`), an accepted `EOF` record
(`LogFinishes`), or nothing of the id's log (`LogStutters`).

Of the hypotheses, `~SmallByGenerate` is needed by both theorems (behind a small
integer `generate` reads two rows in one call, or a byte that is none), `~Reopen` by
`EachIdIsALog` (`channel_reopened`), and `~LateSelect` by `WholeBlocksNeverMislead`: a
reader selected behind the first block does not know the names in it. With
`LateSelect` TLC finds no violation of `EachIsALog` in the constants of `containers`:
such a reader is lost before it hands over a row. The theorem has the hypothesis
because its proof follows readers that have seen their tape from the start.

**The bindings** (`SessionProofs`). A method of the PHP classes is a call of `PackNext`
or `UnpackCalls`, or one of four more kinds: a state set to `ON_ERROR` or nothing
(`AtMostRefused`); a process killed in the middle of a frame (`FrameTorn`); a stream that loses what it
was given (`StreamLoses`); an error of the reader cleared (`CallKinds`, `ReadKinds`). What is proved of
the containers is proved of the session by adding these kinds, and no more.

`SessionTypeCorrect` is inductive with the containers' invariant (`SessionTyped`); what it
says of `generate` is that an entry never names a sensor the reader does not know
(`EntryTyped`). `QuietLoopsReadAll` is inductive beside it (`QuietInv`): a call of `parse`
that ends the loop found the end of the file, or met a frame that is not what it seems, or
left an error, which the binding looks at when that call is over (`ParseEnds`); only
`close` ends a loop otherwise. An error left by another call keeps the state, which is why
`QuietLoopReadAll` asks for it too: a loop that was not told of an error has none.

`InjectTellsEveryRow` relates a counter of the script to a sum over all channels' logs.
The library states sums by a fold whose induction theorem takes an operator. Here a sum is
a function on the subsets of the ids that exists because a smallest set without it
would have a smaller one with it (`SumExists`, `SmallestSet`); it grows by one when one
log does (`SumGrows`). With that the invariant is a case per call: a row accepted is
one row more (`OneRowMore`) and counted unless the call throws, a row refused in a kind that is
heard throws (`RefusedRowHeard`), and no other call touches either side (`OtherCallsTell`).

`DestructorLeavesWhole` needs `WholeInv` for the time before the destructor runs: of each
channel, the rows in the frames and in the bucket are together the rows accepted, there is
no EOF record yet if it lives and one, with the right count, behind the last row if it
was closed (`ChanWhole`). All this holds as long as the stream has taken what it was given
(`~script.short`), and nobody takes that back (`ShortStays`). To the library no write of the
bindings fails, so a flush moves the bucket into the file and changes no sum (`FlushWhole`), as
often as a row does so (`WorkWhole`). The destructor's
`otic_pack_close` then closes each linked channel (`PackCloseWhole`), and the list is empty
afterwards (`ClosedEmpty`). The counts are of the places of records in the file and in
the bucket, and grow with them (`KeptGrows`, `HeldGrows`). `~Reopen` is needed: a second
channel of an id has counted its own rows only.

`GenerateExplains` carries the tapes over to the session (`SessionTapes`), as long as the stream
took all: a refused row may leave its time in the bucket, which extends the tape by a legal
record (`RefusedPacked`), and a torn frame is one that no reader gets past (`TornPacked`).
`ExplainedInv` then says of each live reader that its entry, at the time it has got to, is a
row that was injected or such a row at a later time (`Backed`). A row record makes it so,
because it decodes to the next row of the log; a time record keeps it so, because
`otic_ts_handler` lets no time on the tape go back (`BackedAfter`). What is returned is that entry, and
a row handed over is returned by the same call (`LineExplained`); rows stay in order
because each is put behind what there was (`WithinBoth`, `WithinLonger`). The hypotheses are
those of `EachIdIsALog`, and for the same reasons.

**The tool** (`TsvProofs`). A column is a pointer, so that `LinesAsRows` is about what the
buffer holds *later*. The invariant of the reading half says (`Chunked`) that the buffer
holds, from the pointer on, a stretch of the text that ends with a line, that what was read
behind it are ends of lines, and that the pointer is where a line begins; and (`Pointed`) that
the columns are inside the buffer and those of time and name not null once a line was parsed:
only the first line need be complete for that, since a shorter one leaves them from the line before.
`ReadChunkChunks` and `ParseLineParses` show that the two steps keep it. For the first,
`CompletedIs` says what `fread` and the two `fscanf`s make of the input, and `GapIsEmpty` that they
pass over no line. For the second, where the columns of a line begin is a walk from
stop to stop (`Walks`), which is the same wherever the line stands (`WalksMove`); the NULs put
in place of the stops make each column the string that stands there (`HeldPart`,
`LineParsed`), with the one exception of an empty fifth column at a NUL.

`LineIsRow` is inductive beside it (`RowInv`): the rows stand in the order of their lines and
their times do not go back (`RowsInOrder`); the channel's clock is the latest time of all lines
so far, refused ones included (`ClockIs`), so that its test is a test against all of them; a
line parsed and not yet injected is read as what stands in it
(`LineInHand`); and all complete lines before the pointer are rows as promised (`RowsSoFar`).
That the input *is* made of lines (`TextOfLines`) is shown of the sequence `Ended`
builds. It is a fold, and facts about it, as about the printed text, are proved from the smallest
counterexample (`Smallest`), since induction is out of reach. The assumption on lines
(`Proper`) is that they are empty or begin with a time, that names are not empty, and that
a fifth column is the last one and a single value or nothing.

`OrderlyTextsAgree` and `EqualTextsLostNothing` need to know what a reader is told of the rows and
where the comparison is at every step (`WholeInv`). `DictInv` says of each row that it is told
with its own value, or with that of an earlier row of its sensor which the dictionary takes for the
same (`Tells`). When compressing is over, the whole input has been read (`AllRead`), so that every
line is as its row says (`AllPackedIs`), and the printed text is the rows' lines one behind the
other: a concatenation whose places are `OffsetsOf`. `CompareInv` follows the two sides over it. The
left one has read up to the end of a line, the right one j printed lines (`At`). If the text is such
that a lost line shows (`Telling`: orderly, or times told apart), then between two lines (`Between`)
the first j rows are those of the lines read so far (`Lockstep`) and each of these lines has one
(`AllTaken`). A line that has none is late (`LineOrRow`); compare then holds it against a row that is
not its own, since the next one or the last one stands on the right (`NextTo`), and finds a
difference in its time, name or unit (`LostShows`). So a line found equal
has a row, and that is row j (`RowInStep`): this is `EqualTextsLostNothing`. If the text is orderly, no
line is late or too long; the four columns of the printed line stand where they should
(`FourColumns`), the unit is the sensor's first and so that of the line (`UnitsAgree`), the value told
is the row's, since no two values of the sensor are alike, and is judged equal
(`ValuesTold`, `ValuesAgree`): that is `OrderlyTextsAgree`.

Only model-checked are liveness (`ReadsToTheEnd`, `ReadsEveryChannel`, `ToolEnds`,
`CallsEnd`) and what the recursive functions of `Leb128` compute for every number, which are beyond
the prover, and the list of `ChannelList`, whose calls and ids are few.

## 5. Assumptions

* `malloc` and the creation of zstd contexts succeed. `realloc` succeeds and may
  move the buffer. zstd either fails or round-trips; the compressed size is that
  of neither model, so `ReaderFits` compares capacities.
* A channel is defined with a bucket larger than 1024 bytes. The code accepts any
  size; below 512 the threshold lies before the buffer.
* The passing runs of the pipe use one unit, integers below `WordMod`, strings
  none of which begins another, and no raw buffers. Each restriction is the
  subject of a finding, of a hazard in `PROJECT.json`, or of the plan.
* A single channel's file has a header that was written and read; a container's may
  be missing or newer. Files have format version 2.
* Doubles are compared by identity: -0.0 and NaN are left out.
* A PHP script keeps its stream open as long as its pack object lives. The stream may
  take less than it is given (`StreamLoses`); `FileLeftWhole` and `GeneratedExplained` are about
  files it took all of.
* The times of a text, and what is printed of them, have fifteen characters or more:
  `compare.c:98` writes an end behind the fifteenth. They may be longer. Lines have fewer than
  512 characters, the size of compare's buffers, so no value is too long for the tool's
  bucket. The first line has all its columns (before it, they are uninitialised). A line is empty
  or begins with a time; its name is not empty; a fifth column is the last one and one value
  or nothing. A string is printed as it was read, and what is printed of a number begins with
  the integer the number begins with: a double that six decimals round up to the next integer
  (`tsvParser.c:147`, compared by `strtol`) would be reported as different.

## 6. Not modelled

* *Arrays* (`inject_array`, `read_array`): the handler stores an array's size and
  never its elements, and compares and frees what the pointer happens to be, so
  that there is no defined behaviour behind the first array of a sensor.
* *Aggregator, time series*: compiled into the fuzz targets only, called by nobody,
  not part of the library.
* *Buffer sizes of generate* (`getNext` replaces one of three on a resize), format
  version 1, the statistics, the uncompressed build (`OTIC_PACK_NO_COMPRESSION`,
  whose code in `otic_pack_flush` no longer compiles).
* *PHP*: queries, `read` (the loop of `parse` in C), a stream closed early.
* *Error texts* (`errHand.c`), `compare_compareNumbLines`, `format_write` and
  `format_reset` (called by nobody), the two demonstration programs, build files and
  tests.

## 7. Plan

What is left, in this order:

1. *Proofs.* `EachIdIsALog` for readers selected late, who need one more fact about a
   tape: a name is followed by its row.
2. *Generate on small integers* and *raw buffers*: runs of their own once a document
   says what is promised of them.
3. *Buffer sizes* in `UnpackContainer`, for `generate`.
4. *Slots.* The union of a stored value: what an array, a string or an integer
   leaves in it and what the releasers follow.
