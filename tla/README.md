# TLA+ models of the gzip zinfo index

This directory holds TLA+ models of `src/ztoc/compression/gzip_zinfo.c`, the C code behind
the soci-snapshotter's gzip seek index ("zinfo"). The code builds an index of resume
points ("checkpoints") over a gzip member. It extracts arbitrary uncompressed ranges from
a file or an in-memory buffer using that index, and serialises the index to a blob. All
modules are plain TLA+ and are checked with TLC. Files are listed in `PROJECT.json`,
together with the source lines each definition models.

## 1. Inventory of the system

| Part | Source | State it keeps | Operations |
|------|--------|----------------|------------|
| Index builder | `gzip_zinfo.c:150-307` | `z_stream` (input position, `avail_in`, `avail_out`), a 16 KiB input buffer, a 32 KiB ring `window`, counters `totin`/`totout`/`last`, the growing `gzip_zinfo` (list, `have`, `size`) | `generate_zinfo_from_file`, `generate_zinfo_from_fp`, `add_checkpoint`, `free_zinfo` |
| File extractor | `gzip_zinfo.c:309-409` | raw `z_stream` primed and loaded with a window, file position, `offset` still to skip, `skip` flag, the destination | `extract_data_from_file`, `extract_data_from_fp` |
| Buffer extractor | `gzip_zinfo.c:413-492` | as the file extractor, with a data pointer and `remaining` in place of the file | `extract_data_from_buffer` |
| Blob codec | `gzip_zinfo.c:118-134, 497-602` | the blob bytes: 12-byte header, 32785 bytes per checkpoint | `get_blob_size`, `zinfo_to_blob`, `blob_to_zinfo` |
| Metadata accessors | `gzip_zinfo.c:88-146` | none (reads of the index) | `get_bits`, `pt_index_from_ucmp_offset`, `get_ucomp_off`, `get_comp_off`, `get_blob_size`, `get_max_span_id`, `has_bits` |
| Field encoding | `gzip_zinfo.c:59-73` | none | `encode_offset`, `decode_offset`, `encode_int32`, `decode_int32` |
| zlib (environment) | not in the repository | inflater state | `inflate(Z_BLOCK)`, raw `inflate(Z_NO_FLUSH)`, `inflatePrime`, `inflateSetDictionary` |
| Legacy API | `src/c/zinfo.h` | declarations only | none implemented |

**How the parts interact.** The builder reads a gzip member through zlib. At every deflate
block boundary that is not after the last block, and that is at output 0 or more than
`span` bytes after the previous checkpoint, it stores a checkpoint. A checkpoint holds the
compressed position `in`, the uncompressed position `out`, the `bits` of the byte before
`in` that belong to the next block, and the 32 KiB of output before `out`.

The extractors take such an index. The file variant chooses the last checkpoint at or
before the requested offset; for the buffer variant the caller chooses it. The extractor
then:
1. starts a raw inflater at the checkpoint, priming it with the bits and loading the window as its dictionary;
2. discards output up to the offset;
3. inflates into the caller's buffer.

The codec turns an index into a blob and back. The v1 format drops checkpoint 0, and
the decoder restores it as a synthetic checkpoint.

**What is hard.** The code is single-threaded, so there are no process interleavings. The
difficulty is in long sequential protocols with many edge cases:
- block boundaries at arbitrary bit offsets;
- a ring window that wraps in the middle of a block;
- reads that end inside a symbol;
- the list doubling at exactly 8, 16, ... checkpoints;
- allocation and read failures in the middle of a build;
- truncated or corrupt input;
- skip loops at multiples of the window size;
- 32-bit arithmetic on blob sizes.

The `hazards` list of `PROJECT.json` names each of these at its line.

**What makes each part correct.**
- *Builder:* every checkpoint is resumable (its `in*8 - bits` is a block start, `out` is the output there, and `window` holds the bytes before `out`). Checkpoints increase strictly in `out`. The result is exactly the spec's placement (spec 4.B). No error path leaks or double-frees. The build ends.
- *Extractors:* the result is exactly `min(len, size - offset)` bytes of the true data from `offset` (spec 8). Only the given input is read. The call always ends, with a count or a negative error.
- *Codec:* `from_blob(to_blob(I))` is `I`, v1 blobs re-serialise byte for byte, and invalid lengths are refused without leaking (spec 4.D, 8).

## 2. Modules

| Module | Models | Composes |
|--------|--------|----------|
| `ZinfoWindow` | `WINSIZE`, the constant the stream and the codec share | |
| `Deflate` | the gzip member and the zlib calls (environment) | `ZinfoWindow` |
| `ZinfoBuild` | the builder, one action per loop iteration | `Deflate`, `ZinfoPlacement`; instantiates `ZinfoBuildSpec` |
| `ZinfoPlacement` | the spec's placement rule: the reference index of a member (no variables) | `Deflate` |
| `ZinfoBuildSpec` | the abstract build: one step from call to result | `ZinfoPlacement` |
| `ZinfoExtract` | the file extractor | `Deflate` |
| `ZinfoExtractBuffer` | the buffer extractor | `Deflate` |
| `ZinfoCodec` | the blob codec, `get_blob_size`, `pt_index_from_ucmp_offset` and `free_zinfo` in one caller's session | `ZinfoWindow` |
| `MCStreams` | the streams and the indexes checked | `ZinfoPlacement` |
| `MCZinfoBuild`, `MCZinfoExtract`, `MCZinfoExtractBuffer`, `MCZinfoCodec` | TLC instances | the above |

### Deflate (environment)

A gzip member is a sequence of *units*, each a record with a `kind` and a length `nb` in
bits. The units are the gzip header, then each block's header, symbols and end-of-block
code, then the 8-byte trailer after byte padding. Block boundaries therefore fall at
arbitrary bit positions, as in real streams.

A symbol is either a literal or a back reference (`Ref(d, nb)` copies the byte `d` back).
Back references are why a resumed inflater needs the saved window. `Hist[i]` is a
reference decoder: the output of units `1..i`.

Two recursive operators give the contract of the zlib calls the code makes:
- `ZBlock` is `inflate(Z_BLOCK)` on the gzip member. It returns at a block boundary once it has decoded something. `data_type` is 128, plus 64 after the last block, plus the unused bits. The call also returns when output is full or input is exhausted (`Z_BUF_ERROR` if no progress was made), at `Z_STREAM_END`, or with `Z_DATA_ERROR` on a corrupt unit.
- `NoFlush` is raw `inflate(Z_NO_FLUSH)`. It decodes from a dictionary-plus-output history, so a wrong window yields wrong bytes. It ends at the last end-of-block code and returns `Z_STREAM_END` again if called afterwards. A start that is not a block boundary (`u = 0`) decodes garbage, which the model abstracts as a data error.

`UnitAt(p)` is the block at which a primed raw inflater resumes, given bit position `p`.

### ZinfoBuild (builder) and ZinfoBuildSpec (what a build promises)

The variables are the C locals:
- `fpos` (bytes read), `availIn`, `availOut`;
- `ring` (the `window` array);
- `zu` (zlib's position);
- `totin`, `totout`, `last`;
- `index` (NULL or the list record);
- a `heap` ghost counting live `zinfo` and `list` allocations;
- `ret`, and `idx` (the caller's `*idx`).

The actions:
- `Open`: `fopen` fails (line 303) or `inflateInit2` fails (line 214).
- `OpenOk`: the call starts.
- `Read`: the outer loop's `fread`. End of file becomes `Z_DATA_ERROR`.
- `ReadError`: `ferror`.
- `Inflate`: one whole iteration of the inner loop, lines 238-278. It resets the ring, runs `inflate(Z_BLOCK)` and updates the counters. Then either:
  - errors go to `build_index_error`;
  - `Z_STREAM_END` runs the epilogue of lines 282-291, whose shrinking `realloc` of the list (line 283, `ShrinkList`) takes its outcome from the constant `ShrinkOutcomes`: `{TRUE}` in `build_ok`, since glibc never fails a shrink. Its result is stored unchecked, so on failure `index->list` becomes NULL and the old list stays allocated. With `ShrinkOutcomes = {TRUE, FALSE}` TLC finds `MemorySafe` violated: the call returns the checkpoint count with a NULL list and a leaked one, where spec 7 says resource exhaustion is surfaced and the call's allocations released (a hazard in `PROJECT.json`, not a run, as it needs an allocator that fails a shrink);
  - otherwise the placement test (`NewAccessPoint`, line 269) may call `add_checkpoint`, whose allocation may fail (`\E ok \in BOOLEAN`).

`AddCheckpoint` is the whole of `add_checkpoint`:
- the first allocation, of 8 entries;
- doubling when `have == size`;
- the free on a failed `realloc`;
- the ring copy (`LinearWindow`).

`ZinfoBuildSpec` says what a call returns in one step, with no ring and no counters:
- on an intact file, the index given by the spec's placement rule applied to the block starts in stream order (`Place`, `RefIndex` of `ZinfoPlacement`, passed in as the constant `Reference`), with its size;
- on a truncated or corrupt file, `Z_DATA_ERROR`;
- on failure of the environment, its code.

`ZinfoBuild` instantiates it with the refinement mapping
`result <- [done |-> pc = "done", ret |-> ret, idx |-> idx]`. `BuildRefinesSpec` checks the
whole abstract specification, including its weak fairness, so the refinement also checks
that the build ends.

### ZinfoExtract (file extractor)

The variables:
- the request: `list`, `off0`, `len`;
- the file: `flen`, a corrupt unit `bad`;
- the C locals `offset`, `here`, `fpos`, `availIn`, `availOut`, `skip`;
- `dest`: whether `next_out` is the discard buffer or the caller's;
- `buf`: the bytes written to the caller's buffer;
- the raw inflater: `zu`, `hist`.

The actions:
- `StartFails`: `fopen` or `inflateInit2` fails, `fseeko` returns -1 (returned as is), or `getc` of the priming byte hits a read error (`Z_ERRNO`).
- `Start`: lines 316-346. It covers `len < 0`, the scan of lines 321-324 (`Scan`), the seek to `in - 1` when bits are set (`SeekPos`), and `getc` at end of file. It also does the priming and the dictionary.
- `Outer`: the head of the outer loop, lines 347-362.
- `Inner`: one iteration of the fill loop (lines 363-384), with the outer loop's tail and the result (lines 386-393).
- `ReadError`: `ferror`.

### ZinfoExtractBuffer (buffer extractor)

The module has the same shape as the file extractor. The file is replaced by the caller's
buffer, the member bytes `[start, dend)`:
- `dpos` is the data pointer;
- `remaining` is the C counter;
- a ghost `overread` records any byte copied from outside the buffer.

The caller is not in the repository, so which bytes it passes is taken from spec 4.C
(`DataStart`, marked spec-modelled in the map): it reads the index with the accessors
`get_comp_off` and `has_bits` (`GetCompOff`, `HasBits`) and starts at `comp_off - 1` when
the checkpoint has bits; `first_checkpoint` is the C index (from 0) that
`pt_index_from_ucmp_offset` (`PtIndex`) gives for the offset. The extractor itself reads
the bits with `get_bits` (`GetBits`, line 425).

The undefined behaviour is modelled as follows. A byte copied from past the buffer is not
the member's. If inflate decodes a unit that uses it, the outcome may be either the
member's data or a data error.

### ZinfoCodec (blob codec)

One caller's session (the Go caller is outside `src/`, so `Init`, `Reload` and `Done` are
spec-modelled). It starts either with a blob to load or with an index the builder handed
over (or NULL). The index is looked up, serialized into a buffer of `get_blob_size` bytes
and freed; the blob of a built index is then loaded again.

- A blob is its header fields (`count`, `span`), the packed checkpoints it holds (`cps`)
  and `extra`, the trailing bytes that make no whole checkpoint (negative: the buffer is
  shorter than the header). Its length is `BlobLen`. Fields are kept decoded: both sides
  `memcpy` the stored form, which are read as little-endian bytes.
- The session's `host` is `"le"` or `"be"`, and `Reload` may load the blob on a host of
  either order. The index's numeric fields are stored encoded, as the C struct holds them:
  `encode_*`/`decode_*` (lines 59-73) are `LE(host, x)`, the identity on a little-endian
  host and a byte swap (`ByteSwap`, over `WIDTH` bytes) on a big-endian one. A blob field
  is the little-endian value, so both codec functions' `memcpy` is `LE(host, ·)`
  (`FieldBytes`, `CopyCheckpoint`), while `add_checkpoint`'s stores encode
  (`StoredCheckpoint`) and lookups decode (`Have`, `Decoded`). The builder and extractor
  modules keep fields decoded: each of their loads decodes what a store on the same host
  encoded.
- `BlobVersion` is lines 553-565: `claimed_size` is `PACKED_CHECKPOINT_SIZE * count + 12`
  taken modulo `UINT` (the product is `unsigned` because `WINSIZE` is `32768U`) and
  compared with the length, then less one checkpoint.
- `FromBlob` is the whole of `blob_to_zinfo`: the header-length test, the struct `malloc`
  (may fail), the version, the list `malloc` (fails for a negative count, may fail
  otherwise, including `malloc(0)`), the synthetic checkpoint 0 of a v1 blob, and the copy
  loop. `ReadSlot` yields `JUNK` for a slot that lies past the buffer, and the ghost
  `overread` records it. The ghost `heap` counts live allocations.
- `Lookup` is `pt_index_from_ucmp_offset`. `Walk` is its `while (--ret && ...)` loop and
  records every entry read; an entry at or past `have` is undefined, so the walk stops there
  and the ghost `listOob` is set.
- `ToBlob` is `zinfo_to_blob` with its NULL-index and NULL-buffer returns, the v1 skip of
  checkpoint 0 and the return of `get_blob_size` (`BlobSize`) as an `int` (`AsInt`).
- `Free` is `free_zinfo`.

## 3. Runs

| Run | Config | Expect | Checks |
|-----|--------|--------|--------|
| `build_ok` | `MCZinfoBuild.cfg` | pass | `TypeOK`, `CheckpointsResumable`, `MemorySafe`, `BuildRefinesSpec` |
| `build_flushed_first` | `MCZinfoBuildFlushed.cfg` | violation | `CheckpointsOrdered` |
| `extract_file_ok` | `MCZinfoExtract.cfg` | pass | `TypeOK`, `ExtractCorrect`, `ExtractTerminates` |
| `extract_buffer_ok` | `MCZinfoExtractBuffer.cfg` | pass | `TypeOK`, `BufferExtractCorrect`, `BufferTerminates` |
| `extract_buffer_overread` | `MCZinfoExtractBufferOverread.cfg` | violation | `BufferReadInBounds` |
| `extract_buffer_short` | `MCZinfoExtractBufferShort.cfg` | violation | `BufferTerminates` |
| `codec_ok` | `MCZinfoCodec.cfg` | pass | `TypeOK`, `BlobOfIndex`, `BlobRoundTrip`, `BlobReadInBounds`, `IndexRoundTrip`, `BlobSized` |
| `codec_memory` | `MCZinfoCodecMem.cfg` | pass | `MemorySafe`, `ListReadsInBounds`, `LookupCorrect` |
| `codec_leak` | `MCZinfoCodecLeak.cfg` | violation | `MemorySafe` |
| `codec_empty_index` | `MCZinfoCodecEmpty.cfg` | violation | `ListReadsInBounds` |
| `codec_wrap` | `MCZinfoCodecWrap.cfg` | violation | `BlobReadInBounds` |
| `codec_size` | `MCZinfoCodecSize.cfg` | violation | `BlobSized` |

What the passing runs show:
- **build_ok.** The builder implements the abstract build, over spans 0, 1 and 2, for three files (intact, cut 5 bytes short, and with a corrupt symbol), under every allocation and read failure. It checks that every checkpoint, at every step, is a point from which raw inflate resumes with the right window. The `heap` ghost equals what the index owns at every step, so no error path leaks or double-frees.
- **extract_file_ok.** It covers every offset from 0 to one past the end, lengths -1, 0, 1, 3 and 20, and the indexes for span 0 and span 10. The files are intact, missing half the trailer, cut inside the deflate data, or corrupt in the last block. Whenever the file holds the intact deflate data, the call returns exactly the spec's bytes. Every call ends.
- **extract_buffer_ok.** The same holds for buffers that reach the end of the deflate data or of the member.
- **codec_ok.** The v2 and v1 blobs of the span-0 and span-10 indexes decode to those indexes (the synthetic checkpoint 0 standing in for the omitted one, since the member's header is 10 bytes) and re-serialize to the same blob in a buffer of `get_blob_size` bytes, with `zinfo_to_blob` returning that size. Blobs one byte too long, cut inside the last checkpoint, with a count one too low or too high, with an 11-byte header or with a count of 0 are never read past their end. Allocation failures and NULL arguments are included. Every blob written holds the index's checkpoints, count and span in little-endian form (`BlobOfIndex`), and an index loaded from it decodes to the index built (`IndexRoundTrip`), on both hosts and across a change of host between save and load.
- **codec_memory.** For blobs of a valid length and a cut-short header, no path of `blob_to_zinfo` or `free_zinfo` leaks or double-frees, and every lookup, at every offset, reads only the `have` entries of the list and returns, in the terms of the accessors the caller reads the index with, a span id in `0..get_max_span_id` whose `get_ucomp_off` is at or before the offset (or the first) and whose successor's is after it (spec 4.C and 8; `GetUcompOff`, `GetMaxSpanId`).

Findings (see `PROJECT.json`, `findings`):
1. **Duplicate checkpoints at output 0** (`build_flushed_first`). A member whose first block is empty gets two checkpoints with `out = 0`, against spec 8's strictly increasing `out`. Such a block is the stored block a sync flush writes before any data. Cause: the `totout == 0` clause of line 269 holds at every boundary before the first output byte.
2. **One-byte over-read in the buffer extractor** (`extract_buffer_overread`). When the first checkpoint has bits, line 435 advances `data` past the priming byte, but line 442 still sets `remaining = datalen`. The last refill therefore copies the byte after the caller's buffer. TLC's trace: `first_checkpoint` 1 (the second checkpoint), buffer `[27, 33)`, and a refill copying `[28, 34)`.
3. **Endless loop on a short buffer** (`extract_buffer_short`). Once `remaining` is 0, a refill copies nothing, inflate returns `Z_BUF_ERROR`, and the fill loop repeats the same state forever. In the same situation the file variant returns `Z_DATA_ERROR` (lines 371-374).
4. **Leak on an invalid blob length** (`codec_leak`). `blob_to_zinfo` mallocs the struct at line 542 and returns NULL at line 564 without freeing it when the length matches neither version.
5. **Empty index read past its end** (`codec_empty_index`). A 12-byte blob with count 0 is accepted as a v2 index with no checkpoints; `pt_index_from_ucmp_offset` then evaluates `--ret` to -1 (true) and reads `here[1]` (line 103).
6. **`claimed_size` wraps** (`codec_wrap`). The product at line 555 is 32-bit unsigned. `PACKED_CHECKPOINT_SIZE` (32785) is odd, so the product is one-to-one modulo 2^32 and a blob of whole checkpoints is accepted only with its own count (or one more, as v1); a blob with trailing bytes is not. A count of 131005 gives `claimed_size` 31641: a 31641-byte blob, the 12-byte header and 31629 bytes that make no whole checkpoint, is accepted as v2 and, if the list allocation succeeds, the copy loop reads 131005 checkpoints from it. The run uses `WINSIZE = 4`, so that `PACKED_CHECKPOINT_SIZE` = 21 is odd as in the code, and `UINT = 256`: TLC finds a 29-byte blob with count 13 (21 * 13 + 12 = 285, 29 modulo 256) accepted and read past its end.
7. **Negative blob size** (`codec_size`). `zinfo_to_blob` returns the unsigned `get_blob_size` as an `int`, negative above 2 GiB (about 65500 checkpoints); with `UINT = 256`, the 10-checkpoint index's 212 bytes read as -44.

Every property of a passing run has a mutant in `PROJECT.json`: a plausible bug in a mapped
definition that TLC finds. For example:
- a ring copy that ignores the rotation breaks `CheckpointsResumable`;
- a failed `realloc` that does not free breaks `MemorySafe`;
- `>=` instead of `>` in the placement test breaks `BuildRefinesSpec`;
- a seek that ignores bits breaks `ExtractCorrect`;
- a missing end-of-file test breaks `ExtractTerminates`;
- a data pointer not advanced past the priming byte breaks `BufferExtractCorrect`;
- a missing `Z_STREAM_END` break breaks `BufferTerminates`;
- a `memcpy` of a field that also decodes it (a double swap on big-endian hosts) breaks `BlobOfIndex`;
- a serializer that writes checkpoint 0 of a v1 index breaks `BlobRoundTrip`;
- a version test accepting any length up to `claimed_size` breaks `BlobReadInBounds`;
- a synthetic checkpoint 0 at `in = 0` breaks `IndexRoundTrip`;
- a `get_blob_size` without the v1 decrement breaks `BlobSized`;
- a `free_zinfo` without its NULL test breaks `TypeOK`, and one that frees only the list breaks `MemorySafe`;
- a post-decrement `while (ret-- && ...)` breaks `ListReadsInBounds`, and `<` for `<=` in its test breaks `LookupCorrect`.

## 4. Bounds and why they are enough

- **Stream.** `MCStreams.MCBlocks` is a 10-block member with 15 bytes of output. Its block headers, symbols and end-of-block codes have lengths of 2 to 9 bits, so the boundaries fall at bit residues 0, 1, 3, 4, 5 and 6 and checkpoints have 0, 2, 3, 4, 5 or 7 unused bits. Back references reach 1 to 3 bytes back, across block boundaries, so a wrong or stale window changes the output. `MCBlocksFlushedFirst` puts an empty stored block first.
- **WINSIZE = 3** (32768 in the code). This is small enough that the ring wraps inside blocks and the skip loop takes several chunks, but not smaller than the longest back reference.
- **CHUNK = 8** (16384 in the code). Reads end inside units and at block boundaries, and the builder's inner loop runs 1 to 4 times per read.
- **INITSIZE = 8**, the real value. Span 0 yields 10 checkpoints, so the doubling `realloc` and its failure are reached.
- **UINT = 256** stands for 2^32 in the extractors' `(unsigned)` cast. The cast is reached only with a negative offset, which the callers modelled never produce.
- **UINT in the codec.** The passing codec runs use 65536, so no size of the indexes checked wraps, as none does for real indexes under 2 GiB. The wrap and size runs use 256, so that a 10-checkpoint index passes 2^31 (size run, `PACKED_CHECKPOINT_SIZE` = 20 with `WINSIZE = 3`) and a count of 13 wraps (wrap run, `WINSIZE = 4`: `PACKED_CHECKPOINT_SIZE` = 21, odd like 32785, so that the wrap reaches only blobs with trailing bytes, as at 2^32).
- **Field width.** `WIDTH` is the number of bytes of `UINT`, and both `int32_t` and `offset_t` are swapped over `WIDTH` bytes: 2 in the passing codec runs, so a big-endian host really reorders bytes (a swapped 10 is 2560); with `UINT = 256` the swap is the identity, which the wrap and size runs do not depend on.
- **Codec inputs.** `MCZinfoCodec` derives every blob from the two built indexes: their v2 and v1 forms, and each off-by-one of length or count a corrupted or foreign blob can have. Offsets cover every output position plus one.
- **Requests.** Offsets cover every position of the output plus one past the end. Lengths include negative, zero, within and past the end. The two indexes give one checkpoint per block (short skips) and two checkpoints (skips over several windows).

A bug that needs a specific bit residue, ring position, read split or skip length is
reached, because each of those ranges over all its values in these runs.

## 5. Fairness

Every operation is a single sequential C call, and nothing in it waits on another actor. A
step of the code that is enabled is therefore eventually taken. Each spec has weak fairness
on the code's own steps (`OpenOk`/`Read`/`Inflate` and `Start`/`Outer`/`Inner`).

The environment's failures are separate actions without fairness: `fopen`, `inflateInit2`, `fseeko`, `getc`
and `ferror` failures (`Open`, `StartFails`, `ReadError`). They can happen, but are never
forced. Termination must therefore come from the code, and not from a failure that fairness
would otherwise make inevitable.

## 6. Plan and what is not modelled yet

How the components compose. The modules are checked separately, each against
what the one before it guarantees:
- `build_ok` shows that the builder's result is the spec's index (`RefIndex`);
- the codec runs start from those indexes and show that a blob of one decodes back to it on either host (`IndexRoundTrip`), the v1 form included, whose synthetic checkpoint 0 equals the real one for the 10-byte header;
- the extractor runs take those same indexes as input (`MCIndexes`).

A build, save, load and extract sequence therefore extracts from the index the extractor
runs check. Running the chain as one model would add no state that these runs miss.

Not modelled, and why:
- **zlib's internals.** Huffman decoding, match lengths above 1 and the check of CRC and length are outside the repository. `Deflate` keeps only the contract the code relies on.
- **Field encoding outside the codec.** The builder and extractor modules keep fields decoded; only `ZinfoCodec`, where blobs move between hosts, keeps them in stored form.
- **The legacy `src/c/zinfo.h`.** It holds declarations only; no file includes it.
- **A buffer of 2 GiB or more to `extract_data_from_buffer`.** `int remaining = datalen` (line 442) would turn negative; a buffer holds one span of compressed data, a few MiB in practice, and the model keeps `remaining` unbounded (a hazard in `PROJECT.json`).
- **A NULL `buf` to `blob_to_zinfo`** (line 536). It returns NULL before any state changes.
- **Cancellation and parallel extractions on one index** (spec 5). Extraction reads the index only, so parallel calls do not interact.
