# A TLA+ model of balrogg

balrogg recompresses Ogg Vorbis and Ogg Opus files without loss: `e` turns a
file into a `.blr` archive, `d` turns the archive back into the same bytes. All
of its correctness is one sentence, *what was packed comes back*, and almost all
of the ways to break it are silent: encoder and decoder are two programs that
must make every decision alike, in the same order, from state that each of them
builds for itself. The modules here model the parts of the program where that
can go wrong and where a test would hardly notice.

Paths are those of the repository with `src/` in front of them.

## 1. The system

| Component | Source | State | Operations | Modules |
| --- | --- | --- | --- | --- |
| File handles | `file.c`, `file.h`, `map.c` | one window of a file (a mapping or a buffer), dirty or not; length, disk length; whether mapping is given up | open, read, write, put, move, resize, read beside the window, drop the cache, close | FileCalls, ByteFile, BlrFile |
| Archive | `archive.c`, chunk streams of `file.c` | streams with extents, chunk list, tune blob | begin, new stream, put, finish; take and write; read | StreamStore, ChunkArchive |
| Range coder | `rc.h`, `rc.c` | low, range, carry, cached byte and run of all-ones; code, range, position; adaptive probabilities | encode a bit, finish, decode a bit, spent | RangeCoder |
| Links | `codec.c` (pack_once, vb_pack_link, vb_unpack) | links, recorded runs, kept headers, setup numbers, serial predictor; packets over pages, spill | scan, compare, code or replay a link; decode, replay; join packets, drop runs | LinkDedup, VorbisPages |
| Tune search | `codec.c` (trial, vb_pack) | best size and tune, trials left, the output file | trial, keep, move, cut | TuneSearch |
| Batch mode | `main.c` (do_batch, pool_*) | queue, children, statuses | fork, run here, reap, return | Batch |
| Ogg pages | `ogg.c` | page-header models | parse, emit, pack, unpack, code a header | VorbisPages, OpusPages |
| Integer models | `model.c` | previous value and difference, length history | code a value | IntegerModel |
| Comment coder | `comment.c` | window, hash, block | code text, image, fields | Comments |
| Vorbis headers | `vorbis.c` | codebooks, setups | code a header, build the tree and the table | Codebooks (the books only) |
| Vorbis model slots | `vorbis.c` | slots, use counts, touched slots, arena and its two flags for each slot | share, take, refit, evict a slot; seed a region; reset, use a setup, end of link | SlotPool |
| Vorbis audio | `vorbis.c`, `residue.h` | packet history, entries kept | find the type, code a packet, rebuild it | VorbisAudio |
| Digit mixer | `cm.c`, `cmmix.c` | ring, hash table, weights | push a digit, predict a bit | not modelled, see section 8 |
| Opus packer | `opusmode.c` | streams, context table, page writer | parse, code a symbol, patch a frame, rebuild pages | OpusPages, OpusSymbols, OpusPackets, OpusFrames |
| Opus mirror | `opus/entdec.c`, `entenc.c` | up to eight live entropy contexts and their mirrors | open, step, close | OpusFrames, OpusRange |
| Opus walker | `opus/*` | the decoder's modes | take a packet apart into frames, and a frame into values | OpusFrames, OpusPackets (control only) |
| Windows runtime, profiling, option parser, tests | `wincrt.c`, `win32.c`, `prof.c`, `yarg.h`, `tests` | | | not modelled, see section 8 |

How they interact. `main.c` runs one file, or a batch with a process for each
file, so that no model state is shared. `vb_pack` opens the output and calls
`pack_once` once per trial of the tune; each trial writes an archive *behind* the
best one so far, in the same file. `pack_once` gives every link of a chained
file three streams and the control stream a fourth; they all grow at once, and a
stream that fills a chunk appends it to the archive, which appends to the file
handle. The coders put bytes into those streams through `bf_put`. An Opus file
goes another way from the start: `opusmode.c` parses it whole, codes its pages, and
runs a decoder without synthesis over each packet, whose entropy coder is replaced
by one that hands every value to `om_op`, the packer's, which is the unpacker's too. `vb_unpack`
reads the chunk list, decodes the control stream and the links, and reads *its
own output* through the same file handle to replay what is repeated.

What is hard, by kind (`PROJECT.json` has each hazard with its line):

- *two programs in one*: packer and unpacker run the same functions, the one on data
  it reads and the other on data that it is about to write, so that a condition on
  what is read, or on a rest of room, must not be asked by one of them alone;
- *state that lags behind*: a window that is moved, remapped or dropped while
  dirty; a mapping that is refused after the file was extended for it; slots,
  setups and contexts that outlive what they were made for;
- *order*: interleaved chunks, overlapping moves, back references into lists that
  two programs build separately, carries into bytes already held back;
- *boundaries*: the last partial chunk, windows at the largest offset, the finish
  of the range coder, budgets and pools that run out;
- *failure*: FATAL ends the process wherever it is called: in a later trial, or in
  the parent of a batch that could not fork. Nothing is recovered after a crash;
  what matters is what the output holds when it happens;
- *concurrency*: only processes, in batch mode. There are no threads or signals.

What makes each part correct: a handle is a byte string; an archive is its list
of streams; the coder returns its bits and cannot fail; the link layer returns
its pages; a slot never passes on what it learnt for somebody else; the search keeps the smallest and never loses it; a batch runs all of
its files and says so; a format's coder gives back what it was given, for whatever
it did not refuse.

## 2. Modules

| Module | About | Extends / instantiates |
| --- | --- | --- |
| `FileCalls` | the calls a client of a handle makes, and their arguments | |
| `ByteFile` | what a handle promises: a byte string | FileCalls |
| `BlrFile` | `file.c`: window, mapping, buffer, disk | FileCalls; implements ByteFile |
| `BlrFileProofs` | proofs about BlrFile | BlrFile |
| `StreamStore` | what an archive promises: a list of streams | |
| `ChunkArchive` | `archive.c` and chunk streams | implements StreamStore |
| `ChunkArchiveProofs` | proofs about ChunkArchive | ChunkArchive, NatFacts |
| `RangeCoder` | `rc.h`, `rc.c` | |
| `RangeCoderProofs` | proofs about RangeCoder | RangeCoder, NatFacts |
| `LinkDedup` | the link layer of `codec.c` | |
| `LinkDedupProofs` | proofs about LinkDedup | LinkDedup, NatFacts |
| `SlotPool` | the model slots of `vorbis.c` | |
| `TuneSearch` | the search of `codec.c` | |
| `TuneSearchProofs` | proofs about TuneSearch | TuneSearch |
| `Batch` | batch mode of `main.c` | |
| `BatchProofs` | proofs about Batch | Batch, NatFacts |
| `NatFacts` | induction, recursion, sums and folds, for the proofs | |
| `IntegerModel` | `model.c`: a number as the bits that code it, and the slots | |
| `VorbisPages` | pages and packets of a Vorbis file, `ogg.c` and the links of `codec.c` | IntegerModel |
| `OpusPages` | pages and packets of an Opus file, `opusmode.c` | |
| `OpusPackets` | how packets hold frames: header, padding, sizes, `om_frame`'s callers | |
| `OpusFrames` | frames taken apart and rebuilt: walker, mirror, patches | |
| `OpusRange` | the arithmetic of the frames' entropy coder | |
| `OpusSymbols` | the values of the frames as `opusmode.c` codes them | |
| `FormatProofs` | proofs about SlotPool, OpusPackets and OpusSymbols | the three, NatFacts |
| `Comments` | `comment.c` | |
| `Codebooks` | the codebooks of `vorbis.c`: lengths, words, tree, table, lookup sizes | |
| `VorbisAudio` | the audio packets of `vorbis.c` and `residue.h` | Codebooks |
| `MC*` | instances for TLC | the module they are named after |
| `MCFormats` | one instance for the machines of the formats, each run by itself | extends OpusPackets and OpusSymbols, instantiates the others of the ten above |

`ByteFile` and `StreamStore` are abstract specifications that their detailed
modules are shown to implement. The modules of the formats carry their abstract
specification in themselves: the thing that was packed is a variable that the unpacker
never reads, and the invariant compares the two.

Not proved, and worth it: that the pages of VorbisPages and the symbols of OpusSymbols come
back; and that `OpusFrames` closes only what it has opened, for which its RECURSIVE operators
would have to become functions, as those of OpusSymbols and OpusPackets are.

## 3. How the models correspond to the code

**BlrFile.** The record `f` has the fields of `blr_file` by name; `mapped` is
`map.p # NULL`. A call of the client (`req`) takes as many steps as the loop of
the C function has rounds, with the loop variables in `io` and `left`; the
operators `bf_flush`, `drop_window`, `bf_window`, `bf_resize` and the rest are
functions from handle to handle, translated one by one. The system's answer to a
mapping request is a choice, every time. `ByteFile` has only the bytes; a call
takes effect when it is made, and the refinement mapping computes from window,
disk and the loop's remainder what the bytes will be when the call returns.

**ChunkArchive.** An image is a sequence of cells: one for the magic, one for the
tune's length, one for each byte, and one for each of the two fields of a chunk
header. Writing has both ways the code has: streams that grow together and flush
chunk by chunk, and whole streams written at the end. Reading takes any file; the
given ones are all the short files, so that the format's every corner occurs.

**RangeCoder.** The widths of the code are powers of `Byte`; with `Byte = 256` and
`Rate = 64` the operators are those of `rc.h`. One module has encoder, finish and
decoder, and the decoder is asked for the very kinds of bits that were sent.

**LinkDedup.** Pages carry packets by kind. What is coded is a symbol together
with the state of the model that coded it (which packet of the link, how many
packets since the reset, which setup), and a symbol that is decoded in another
state is `"garbled"`. So a reset on one side only, a header counted once too
often or a wrong setup shows as a wrong page in the output. The serial predictor
is modelled as the difference to the last serial, with an age for its own
adaptive state.

**SlotPool.** Slots are records of what `pool_slot` compares, numbered from one, and
`nsl` is their number; `st`, `ai` and `ad` are the sets of slots whose flag is set.
Distances are computed from the lengths of the words as the code does, unused
words as 255. A region's probabilities are kept only as whose they are: "now", its
present codebook's or one's it is refitted from, or "before". The flags have any
value before the arena is made, since `vb_init` does not set them.

**TuneSearch.** A candidate is as many cells as its size, marked with its tune.
`pack_once` appends a cell at a time and the move copies a cell at a time, so every
intermediate state of the output is there; a FATAL can come at each.

**Batch.** Children are set members that end with any status. `RunHere` and
`FatalHere` are the two ways `do_one` can go in the parent: it returns, or it ends
the parent.

**The formats.** These modules share one convention. What a packer codes is not a
bit string but a sequence of symbols, each *with the context that coded it*: the
slot, the key, or the fields that the model was chosen by. An unpacker that asks for
the next symbol in any other context gets `lost` (or `garbled`), and from then on
nothing right. This is what the range coder does, without its arithmetic, which
`RangeCoder` has: the two sides agree as long as they ask in the same order and in the
same contexts, and each computes its contexts from what it has itself. The operators
of the packer and the unpacker are shared exactly where the C function is.

**IntegerModel, VorbisPages.** `fwd` and `inv` are differences modulo
`2^WordBits`; a value becomes a zero flag, a sign, a length down a tree, and the digits
below it, with the bank of each. A page is its fields and laces; the checksum is only
whether it holds. `hand` is a packet that goes on over pages, `packs` what the link
are handed to the packet coders, `counts` the number of pages of each link, `h` the
models of the fields. The packer codes a packet on the page where it *begins*, reading
ahead through the pages it goes on over, and both sides then count down what of it is
left to `spill`. A bit of each page tells whether its last lace ends a packet, which
the lengths of the packets leave open.

**OpusPages.** `s` is a file's state while it is parsed (`parse_stream`), `acc` the link
being read, `w` the page writer. Packets and pages are recorded apart; `w` rebuilds
the pages by the laces that are left of the packets already decoded.

**OpusSymbols.** One `om_op` per action. Contexts are in a table that grows by
doubling (`ctx_grow`) from `FirstSize` slots, found by probing from a hash below `HashSize`;
`TableIsMap` says that each context is found where it is and that a search ends. Counts move up and are halved; a
prior's weights, block sums and totals are all there, with small constants. Vectors of
pulses go by halves down to their index.

**OpusRange.** `dec` is the decoder and `mirror` the encoder of `mfrngcod.h`'s
arithmetic, with symbols of three bits in place of eight. `ec_tell` is exact, as the
parser decides by it.

**OpusFrames.** A frame is a sequence of cells: a value is one cell, taken from the
front or from the back, and `ec_tell` counts cells. What the parser still has to do is
the stack `todo`, so that it is a process that can be stopped at every value, as
it is for `om_op`. `oc` is the table of live contexts, `place` says where a build has put
the contexts that functions keep on their stack, and two builds are tried: the calls of
one function in the same place, and each in its own. A context is closed when
its place is opened anew or by `oe_end`; what is then left of a frame is coded as a
patch by `om_frame`, from the last `Past` frames or the classes of gaps that
libavcodec's encoder leaves. The bit allocation is whether there is room for a site; a band of two channels has an angle up to the
band where intensity begins (`Below`), and from there on, or without room for the angle, at
most the flag that inverts a channel.

**OpusPackets.** A packet is a table of contents and cells, a frame's length one
or two of them, padding a chain. A packet whose framing is invalid is refused. The
unpacker has the header, the length and zeros, and must find the frames where they were.

**Comments.** All of `comment.c`, with both directions in one `symbol`, which codes or
decodes by `mode`. `t` of a job is the local state of `text`: the block, its
position, the match found. The history is cyclic, and the hash has the last position of
each of its values.

**Codebooks, VorbisAudio.** A book's words are sequences of bits, its tree their
prefixes; lengths are read in the three forms of the header. Books without a dimension,
with more entries or of a larger size than the code takes, and with another type of lookup
than none or a grid are refused. A packet is first
probed (`audio_type`), which keeps up to `MaxSymbols` entries; then it is coded,
with those entries or by reading again; what its syntax does not account for becomes
the tail, and a packet that ends in the middle of its values is all tail. All three sides run the same jobs of `work`; `side`
tells them apart. The mode and the flags of the windows are coded with those of the packet
before; what the next packet is to know of them (`Windowed`) changes when the second flag has been
coded, or with the mode if it has no flags. Each digit of a residue is coded with its index and its
channel. It is refused if the index has no models (`MaxIndex`), or by the packer if the digit is too large
(`Fitting`); `Sound` says which setups cannot come to that, since their books have no such digits
and no entry that goes over the end of a residue goes so far. The flag of the tune for the classes' contexts is taken as set.

Each definition that stands for code is in the `map` of `PROJECT.json` with its
lines. Definitions that are not are properties, mutants and auxiliary sets. A
*mutant* is a plausible wrong version of a definition, written right before it;
each property of a passing run has one that violates it.

## 4. Runs

| Run | Question | Bounds | States |
| --- | --- | --- | --- |
| `file` | Is the handle a byte string, whatever the system answers to mappings? | chunks of two bytes, offsets to 5, two byte values | 0.33 M |
| `archive` | Do interleaved streams come back, and is exactly the format accepted? | chunks of two, three streams, five bytes; all files of up to 5 cells and 11 with an empty tune | 0.32 M |
| `coder` | Do all bit sequences come back, and can the encoder's checks fire? | bytes of four values, five bits of five kinds, all streams of up to one byte | 0.78 M |
| `links` | Do chained files come back page for page? | up to four links of 10 shapes, two serials, three option sets | 0.72 M |
| `mixed_serials` | ... also with several serials in one link? (no) | two links of three pages | |
| `slots` | Is every region coded with by whom it has learnt from, and is each codebook given its own slot again? | two slots, five codebooks, three links, four codebooks in all | 0.68 M |
| `reused_age` | Does a link never age the slots it codes with? (no, if it reuses headers) | two links, two codebooks | |
| `tuning` | Does the search keep the smallest and nothing else? | sizes 1 to 3, seven trials, budgets 1, 2, 4 and 9 | 37 k |
| `batch` | Is every file run and the highest status returned, within memory? | three files of three sizes, three memory sizes, up to nine jobs | 0.66 M |
| `batch_refused` | ... also when the parent has to run a file itself? (no) | three files | |
| `formats` | Do the coders of the formats give back what they were given? | eight machines, below | 1.0 M |
| `silence_frame` | Is every context closed while its frame still exists? (no) | a hybrid and a SILK packet, two builds | |

Why these bounds are enough to be interesting. *file*: five offsets are two whole
windows and one that the largest offset cuts short; a move of two windows has
both directions of overlap; a resize falls on, before and behind a window.
*archive*: streams of five bytes are two full chunks and a partial one, and with
three streams a chunk of any stream can come between any two of another. *coder*:
with four-valued bytes a number has 256 values, so five bits pass through all
carry patterns: carries into the cached byte, into runs of all ones, and none;
both branches of the finish and one to three rounds of the normalisation occur.
*links*: four links are what it takes for a list of two recorded runs with a
reference to the older, and for a header reference across a replay. *slots*: two slots and four codebooks fill the
pool, refit and evict a slot, and leave a link to reuse the setup that lost it; the
codebooks are close, of a kind, of another shape and without any word used. The
code's pools have 16 slots at least; nothing in `pool_slot` depends on it.
*tuning*: the
smaller, equal and larger candidate of every trial, and budgets that end in each
axis. *batch*: three files with three sizes make every relation between queue,
pool and memory.


`formats` runs eight machines, one of them in each behaviour (`focus`), since they
share no state in the program but the range coder:

| Machine | Properties | Inputs | States |
| --- | --- | --- | --- |
| OpusPages | OpusComesBack | four packets over four pages, cut in all ways, pages without laces among them, laces of 2; granules that wrap or are missing; two links, with another serial or the same; pages lost, doubled or spoiled | 12 k |
| VorbisPages | PagesComeBack, SoundPacked | packets cut into three to seven pages in all ways, laces of 2, numbers of four bits; and odd files, with flags, numbers or checksums wrong | 12 k |
| OpusSymbols | SymbolsComeBack, TableIsMap | runs of up to twelve values of every kind, tables that grow, counts that are halved | 38 k |
| Comments | CommentsComeBack | comments with a window and blocks of four bytes, lengths of two: matches over the end of the history, pictures whose base64 ends in all ways and whose words go over from four characters to the next | 34 k |
| OpusRange | TellsAgree, MirrorReads | all small frames of three to five symbols, three values each of ten kinds | 0.17 M |
| OpusPackets | FramingComesBack | all short packets of each framing, with sizes of one and two cells and padding of several | 0.11 M |
| OpusFrames | InStep, FramesComeBack | streams that go through one part of the walker each, with free values at a few sites | 0.38 M |
| VorbisAudio | AudioComesBack, BooksBuilt | setups of one and two channels, all residue types, digits and indices up to the limit and one more; books of up to four entries in all ways, sizes up to and over the limit; two packets of all values, up to eight bits and two, or five and five for the windows' history | 0.25 M |

In each of them the boundary is inside the bound: laces of two have the packet that
ends with its page and the one that needs a lace of nought; four-bit numbers wrap;
a table that grows twice has keys that have moved; three entries kept is fewer than
some packets have; books have words longer than the table, no word, and too many; the last entry of a residue ends at the last index that has models, or behind it.

Deadlock is not checked: each of these programs ends, and in the end nothing is
enabled.

## 5. Fairness

Only `Batch` states fairness, and only `Ends` needs it. The parent's actions
are weakly fair: it is a sequential program that never waits but in `waitpid`. Each
child's end is weakly fair: `do_one` has no unbounded loop, and a process that is
killed ends too. No order between children is assumed. The handle's run is
without liveness: a call ends because its loop advances with every round, and
the refinement holds it to returning only when all of its bytes are there.

## 6. What the checks found

Four disagreements between the code and its documentation, each as a run whose
one property TLC violates:

- `mixed_serials`. Runs are compared without their serials (`codec.c:171`) and
  replayed with one (`codec.c:147`). If two links are alike except that a page
  inside one has another serial than its link, the second is coded as a repeat
  and decoded with the serial of its first page throughout. A file of two copies
  of `tests/data/short.ogg` with a different serial on the very last page shows
  it: it is packed with status 0 and comes back different.
- `batch_refused`. A batch that cannot fork runs the file in the parent, where
  FATAL, the usual refusal, ends the batch.
- `reused_age`. The end of a link takes one from the use of each slot that no
  codebook was given in it (`vorbis.c:220`). A link that reuses header pages gives
  none, so it ages the very slots it codes with. Encoder and decoder agree on it;
  only the compression of later links is affected.
- `silence_frame`. A SILK frame after a hybrid one is faded out by decoding two bytes
  of `opus_decode_frame`'s own stack (`opus_dec.c:444`). The entropy context of that
  call is registered, and nothing closes it before the function returns; `oe_end`
  then patches, or writes, two bytes that are no longer anyone's (`entdec.c:179` and
  `opusent.h:135` say that contexts are finalized after the decoder returns).
  The bytes are dead on both sides alike as long as the compiler lays them out
  the same way.

Two comments are off by little, and the code is right: `vorbis.c:339` describes a bound
one below what `lk1` returns, and `vorbis.c:376` says that a tree has at most so
many interior nodes as entries, which is true of full trees only; the code checks.

Two more observations, which no comment contradicts. A setup that is used again
after one of its slots was evicted codes with the statistics of the codebook that
has the slot now: slots are matched when headers are coded, not when they are
reused. And `vb_reset` resets probabilities and pool, but not the mixer of `cm.c`.

## 7. What is proved

TLAPS proves the following for every value of the constants, from the named
assumptions of the modules (`SizeMaxAssumption`, `ChunkAssumption`, ... in
FileCalls; `ChunkAssumption`, `CellAssumption`, `GivenAssumption`, `BoundAssumption` in
ChunkArchive; `ByteAssumption`, `RateAssumption`, `ProbsAssumption`, `SlackAssumption`,
`GivenAssumption` in RangeCoder; `TuneAssumption`, `SizeAssumption` in
TuneSearch; `PacketAssumption`, `FileAssumption`, `OptionAssumption` in LinkDedup;
`PoolAssumption` in SlotPool; `BatchAssumption` in Batch; `PacketAssumption` in OpusPackets and
`SymbolAssumption` and `CountAssumption` in OpusSymbols, which are conditions of their theorems, and which MCFormats
evaluates for its instances as `FormatsAssumption`). They say that sizes
are numbers, of chunks and files at least one; that packets of different kinds differ where
the code tells them apart, files are sequences of pages and options three flags; that a byte has an even number of values;
that a position may run three bytes over the end (`Slack`), which is what the finish of the
coder leaves to read. Each theorem has the form `Spec => []Inv`, `Spec => [][A]_vars` for
`Consumes` and `AgesNoneOfItsOwn`, or `Spec => Implements` for the two refinements, and rests
on an inductive invariant of its proof module: `IInv`, or `Held` for LinkDedup, `FramingInv` for
OpusPackets (whose `Spec` is `FramingSpec`), `SymbolInv` and `ReturnInv` for OpusSymbols (`SymbolSpec`).
`TableStaysMap` and `ContextsComeBack` have one more condition, `Hashes`: that a hash is a number, for every key. It is, as
`ctx_slot` computes it unsigned; TLC has no set of all keys to evaluate it over.

**NatFacts** has what the other modules need to reason by induction. The library's
induction theorems take the property as an operator, which the provers cannot
instantiate; here the property is a *set*, the numbers that have it, and the step is a
fact about its members (`Inducts`, from the well-foundedness of `<`). From that
follow recursion (`Recursion`: a function with any given first value and next value
exists), the sum over a finite set, the greatest of a set, and a fold over `1 .. n`.
A recursive definition of a model is used by saying that *some* function satisfies
its equations, which the lemma gives, and that all that do are equal.

**BlrFileProofs**: `TypeCorrect`, `WindowIsExact`, `DiskIsBehind`, `ReadIsExact`,
`FileIsByteString`.
`ReadExact` alone is not inductive: what a read copies is right because the
window is, the window because the disk behind it was when it was filled, and the
disk because each window that was dropped had been flushed. `IInv` therefore
joins `FileSound` (types, window and disk) with the ranges of the loops in
progress: a loop's offset stays below the length, a move's remainder below its
size. The first half of the module shows for each function of `file.c` that it
keeps `FileSound` and what it does to the contents (`SameContents` for all but the
writes); the second has one step per action. The third is the refinement: the meaning of
a file (`MetaFile`) is its contents with what is left of the loop in progress carried
out, so that the first step of a call changes the meaning by the whole call, and every
later step, a flush, a new window or a mapping that is refused included, by nothing.

**RangeCoderProofs**: `TypeCorrect`, `CarryHasRoom`, `EncoderNeverFails`,
`DecoderConsumes`, `DecodesWhatWasSent`, `NeverLooksSpent`, for every even size of byte from two, every rate, limit and set
of chances. The argument is the invariant `Room`: the number not yet passed on,
carry, low and range together (`Need`), is at most twice `Full`, and at most `Full`
when the cached byte is all ones or nothing has been written. A bit never raises
`Need`, since what is added to low is taken from the range (`AddKept`), so a second
carry would exceed it; a shift cuts off the top byte of low and restores the bound
for what is left, which is where the byte of all ones needs its own case
(`ShiftKept`). The range is at least `Top` after three rounds (`NormKept`), so the
split leaves both bits something (`SplitInside`), and the finish adds no more than
the range has (`FinishKept`). The decoder's half is the same for its range and
position. `FixedKept` and `CountedKept` bound the adaptive probabilities.
That the bits come back is about the whole number the encoder has written: each step's
interval lies in the one before, and the finish chooses a number in the last, whose
digits are the bytes; so the bytes decode into each interval in turn. `Followed` says so:
there is a history of the intervals after each bit sent, in numbers that lose no digit; while
encoding, the encoder is at the last of them; when decoding, each of them holds the number
of the finished bytes, and the decoder is at the one of the bits it has found, its code being
how far that number is above the lower bound. That the bytes spell this number, with carries
into runs of all ones resolved, is an induction over the bytes (NatFacts). `InRange` is the
same fact before the next bit is taken.

**TuneSearchProofs**: `TypeCorrect`, `BestIsKept`, `FirstOfSmallest`,
`TwoCandidates`, for any plan of values, sizes of candidates and budgets. The
invariant says what the cells of the output are in each phase: the best in front
(`Foremost`), the candidate behind (`Behind`), and in a move the copied cells in
front of the uncopied, whichever of them overlap; and that the best is the first
of the smallest of the candidates counted so far (`BestOf`).

**FormatProofs**, SlotPool: `NothingStale`, `OwnSlotsKeep` and `OneSlotEach`, for any codebooks,
pool, number of links and of codebooks. The first two hold whatever the distances and use
counts are: nothing is used of them but that a slot in use is chosen. `Fresh` speaks of the regions a
link has coded with; what makes it inductive is `FlagsTell` (a seeded slot's region
is its own and is marked written, a region not marked is empty) and that a free
slot is not seeded when it is taken, which a solid file owes to its pool never
shrinking (`SetupsInPool`: no setup names a slot beyond it) and any other to the reset
in front of each link (`FreeWhenNeeded`). The second theorem needs that every slot
a link has coded with is one of its setup's (`CodedOwn`) and was touched (`Touched`).
`OneSlotEach` is about the distances: a sum of squares (`Sums`) is nought only if
all are, so a codebook that some slot is for finds it at distance nought, nothing is
nearer, and no other slot is taken or refitted for it.

**FormatProofs**, OpusPackets: `PacketsComeBack`, for packets of any bytes below the greatest
length. The packer parses the packet, the unpacker what it has built of it so far, first
the header and zeros behind it, then more frames; that both find the frames at the same places is
the point. A parse reads cells up to where the header ends and asks the length for the rest
(`SizeStep`, `PaddingStep`, `SeveralStep`: two packets of one length that agree up to there
have the same parse), and of the packet the unpacker has that much from the start
(`Upto`). The frames lie side by side and end where the padding begins (`FramesFill`), so to put each where
it is found fills the packet, and nothing is put over another. The proof found
a flaw of an earlier form of the model: two arms of the CASE in `parse_size` were both true
of a rest too short for a length of two bytes, and which was taken was left open; they are in the order
of the code now.

**FormatProofs**, OpusSymbols: `TableStaysMap`, for any symbols, alphabets, priors, sizes of the
table from two and any hash. Its invariant is `IsTable`: each used slot is `Reached`, that is, a search for its
context passes only used slots of *other* contexts before it; the list of
slots in use names each of them once; and at most half of the slots are used, which is what a search
that finds nothing ends by. A search for a context that is there ends where it is
(`FoundWhereItIs`), since nothing is ever taken out of the table, so contexts are
never twice in it (`OneContext`). A new one goes where its search ended
(`Entered`), and counts may change in place (`Replaced`); when the table doubles,
the contexts are entered into the new one in the order of the list (`Grows`). Above that,
each function of `om_op` either leaves the table as it is (`Untouched`) or changes it through
`ctx_code` (`CodeKeeps`), and so does each kind of symbol (`OpKeeps`), whichever way the
coder runs and whatever it has decoded.

`ContextsComeBack` is `SymbolsComeBack` for all packets whose symbols are coded in contexts
(`AllInContext`: symbols of a table, angles, numbers that are no index of pulses, fine
energy; a quarter of the sequences that `formats` runs are such). That
the unpacker finds the symbol the packer coded is a matter of sums: the counts of a context are
positive, its block sums are the sums of its blocks and its total that of all, before and after a
count rises or all are halved (`IsCounts`, `CountedSound`), so the target the unpacker is told lies in
one block and in that block in one count (`SymbolIs`). That it looks in the same counts is the
invariant: `ReturnInv` has the packer's states after each symbol as a sequence (`Trail`), in which
each symbol adds one step, and the unpacker is after each symbol the *twin* of the
packer's state there, the same in everything but the way it runs and the steps it has left to read.
The table needs one fact more than `TableStaysMap`: the counts in it are sound whichever slot
they come from, and a search gives those or new ones (`TableSound`).
The other kinds are left to TLC. A bit with a chance and an escape of coarse energy go by the chances
and windows of their models, a vector of pulses by a recursion over halves, and a raw
number by powers of two, which no prover here knows; `AllInContext` asks of fine energy that
`2 ^ nb` is a number above nought for the same reason.

**BatchProofs**: `ChildrenAreCounted`, `ReturnsHighest`, `ChildrenFit`, for any number of
files and their sizes. The queue is a permutation of the files by size; every file in front of the
next has a result or a child (`Children`, `Known`), and `Tally` has status and number of bad
results as the maximum and the count over the results known. Memory fits because the jobs were
chosen for the largest file, so that any set of so many children needs no more.

**ChunkArchiveProofs**: `ArchiveIsTyped`, `AcceptedIsTiled`, `SizeIsExact`,
`OnlyOthersRefused`, `GivesBack`, `ArchiveIsStreams`, for chunks, streams, files and
bytes of any number. The center is a map from streams to their extents that *tiles* a part of
an image (`Tiles`): it covers each cell between two offsets exactly once, extents are full but
the last of a stream, and in front of each are its two fields. The writer has such a map for
all it has flushed, and a finished image for the whole; the reader has one for what it has
passed. From the tiling follow the properties of what was read: the order of
the chunks is the order of the extents (`Reemits`), and the size is the sum over the streams of
their bytes and two cells for each chunk (`SizeExact`). That the reader takes every archive
needs what lies ahead of it: of an image written here the extents read are the
first of those that were written, and a file that is an archive in the sense of `archive.h` can
be cut at the reader's offset into the chunks before and a rest that begins with a chunk
or the end mark, which is then what it finds there. The refinement maps the writer's streams to
what they will hold when the file is finished (`MeansNow`), and reading to a single step, at the
end mark. What is not an archive is only refused.

**LinkDedupProofs**: `Holds`, `NothingFails`, `LinksStaySound`, `ListsAlwaysAgree`,
`BackButForSerials` and `ComesBack`, for files of any pages, packets and links, with any
options. The encoder has finished when the decoder starts, so what ties them is a *history*:
a sequence `W` with the models and lists the encoder had before each link, of which each
step says what it put on the control stream and on the link's own (`History`). Of the decoder the
invariant `Held` says that before link n it has the models of `W[n]`, its lists have the places
of the links that the lists of `W[n]` name, and its output is the input up to link n
(`DecIs`, `WrittenIs`). Under that lie the folds of the two sides, taken step by step: page k of a link
is decoded by the models that coded it (`InStepAt`), the header pages that were
skipped are on both sides counted and written before the second page, and the pages kept
are those the encoder compared, so that `age` and `w` go on alike (`Kept`, `hdrrun`). The
links refer only to earlier ones that are coded and marked (`Refs`), so a repeat finds its
entry (`NothingFails`).
What a link that repeats another is given back is the other's pages with its own serial,
and the input's need not all have that serial: `BackButForSerials` is what holds of
every file, and `ComesBack` that a file comes back as it was if each of its streams has one
serial (`OneSerial`), as Ogg requires. The run `mixed_serials` shows
that it may not without; all files of `links` with two links or more have it. `links` has
a few single links with two serials besides, which come back since nothing is replayed.

The types of BlrFile, TuneSearch, Batch, ChunkArchive and LinkDedup are proved and no longer
run; those of SlotPool hold on the instances of an earlier run, which now spends its time on
the other properties.

Only model-checked: the round trips of the formats but for that of the framing, `OpusComesBack`,
`PagesComeBack`, `SoundPacked`, `CommentsComeBack`, `FramesComeBack` and
`AudioComesBack`, and `SymbolsComeBack` where a symbol is not coded in a context, with `TellsAgree`, `MirrorReads`, `InStep` and `BooksBuilt`; `Comments`, `OpusFrames`,
`OpusPages` and `OpusRange` have RECURSIVE operators and so no theorems. And the liveness of
`Batch`, since fairness is out of the prover's reach.

## 8. What is not modelled, and why

- **Numeric kernels**: the mixing of `cm.c` and `cmmix.c`, its match ring and the
  context numbers of the residue and floor coders. They decide how well a file is
  packed; encoder and decoder run the same code over them, and the round trip depends
  on the order of the calls only, which VorbisAudio has.
- **Header fields of Vorbis other than codebooks**: each is one value through a model
  of its own, in the order of the format, with range checks.
- **The bit allocation of CELT** (`celt_rate.c`, `celt_cwrs.c`): its result decides which
  sites are asked for, and both sides compute it from the same values. OpusFrames has
  its effect, that a site is asked for only where it has room, in cells, not the numbers.
  What only selects a table in SILK is left out too.
- **Priors and keys of Opus contexts**: `om_op`'s kinds are modelled with a few keys and
  small priors, not the key of each site.
- **Byte layouts**: the 27 bytes of a page header, the arithmetic of checksums.
- **Formatting, options, progress lines, allocation, profiling, Windows and DOS hosts,
  tests**: no state beyond the call, or another host's version of what is modelled.
