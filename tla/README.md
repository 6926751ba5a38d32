# TLA+ verification of rust-fs-erofs

The crate reads and writes EROFS images: a reader (`Filesystem`) that several
threads share, a builder (`mkfs.rs`) that writes an image in memory, a C ABI
and a command-line program. The modules here model both ends and check that
they agree. Paths below are relative to `src/src/` of the repository.

## 1. Inventory

| Part | Code | State it keeps | Operations | Talks to |
|---|---|---|---|---|
| Read path | `fs.rs` 711-1270 | a call's buffer, position, the block it fills | `read_file`, `read_inode_block`, `decode_pcluster` | cache, index, codecs, device |
| Pcluster cache | `fs.rs` 46-110, 1277-1296 | LRU of decoded pclusters, their bytes, counters, behind one mutex | lookup, insert, resize | read path of every thread |
| Lazily loaded tables | `fs.rs` 429-496, `zmap.rs` 895-1023 | `OnceLock`s: packed inode, prefix dictionary, an index's fragment range | get or load | device, index |
| Path resolution | `fs.rs` 502-703 | names walked, components to go, symlink budget | `resolve_path`, `lookup_path`, `read_symlink_target` | directories |
| Directories | `dir.rs`, `fs.rs` 540-630, `mkfs.rs` 2485-2592 | blocks of dirents and names | encode, `read_dir`, `lookup` | builder, path resolution |
| Lcluster index | `zmap.rs` | none beyond what `open` computes | `read_lcluster`, `pcluster_extent`, fragment range | read path |
| Compressed planner | `mkfs.rs` 893-1600, 1114-1320, 2616-2773 | open pcluster, pclusters, index entries | collate, steal the tail, encode | builder |
| Image builder | `mkfs.rs` 377-872 | node list, slots, block addresses, image bytes | passes from `flatten` to the last data block | everything it writes |
| Inodes and chunk maps | `inode.rs`, `layout.rs`, `chunked.rs` | none | `read`, `body_end`, `chunk_info`, `lookup_chunk_blkaddr` | read path |
| Superblock, devices | `superblock.rs`, `fs.rs` 236-371 | superblock, codec records, devices | the three doors, `read_device_table`, `device_for` | device |
| Extended attributes, ACLs | `xattr.rs`, `acl.rs`, `mkfs.rs` 2191-2222 | none | encode, list, resolve names, ACL both ways | builder, prefix dictionary |
| Codecs | `decompress.rs` | a decoder's position | `decompress_pcluster` and its retries, LZ4 prefix decoder | read path |
| C ABI | `capi.rs` | handles, iterators, a last error per thread | the exported calls | reader |
| Export | `cli/erofs/fs.rs` 800-871, 1050-1075 | `.partial` file | create, copy, rename, clean up | the host |
| Listing | `cli/erofs/fs.rs` 572-720 | stack, visited directories, counts | `ls -R` | reader |
| `mkfs.erofs` | `cli/erofs/mkfs.rs` | the tree read so far, the report | walk, build, write | the host, builder |
| Errors, crate root | `error.rs`, `lib.rs` | none | none | all |

**Interaction.** A read resolves a path through directories, opens the inode's
index, fills blocks pcluster by pcluster from the cache or a codec, and may
turn to the packed inode for its end. Threads share one `Filesystem`: its
cache is behind a mutex that is never held over I/O, its tables are
`OnceLock`s. The builder's passes hand addresses to each other; what they
write is found again only through arithmetic that the reader repeats.

**What is hard, and what correct means.**

- *Cache*: two threads decode one pcluster and both insert; a resize falls
  between lookup and insert. What is cached is what decoding would give, the
  byte count is the sum of what is held, and a read gives the file's bytes
  whatever the others do.
- *Read path*: damaged indexes and payloads that end early. Every read ends,
  and fails only for what is stored of the blocks it asks for, with the error
  that names it.
- *Paths*: symlinks that splice components in front. Walking by names alone is
  walking with a directory in hand; every walk ends.
- *Planner and index*: absorbed lclusters, stolen tails, three regions of
  packs whose sizes hang on alignment. Every byte is in one pcluster, the
  index leads to it, and the trailer is as long as its slot says.
- *Layout*: addresses made in one pass and used in another. Writes are apart,
  the reader finds each, the checksum is over what is there in the end.
- *Directories*: entries that just fit a block. What went in comes out, and a
  lookup agrees with a listing on any block.
- *Lazy tables*: one copy wins for all, failures are not kept.
- *Superblock*: a device that changes between two reads. What is held was
  verified.
- *C ABI*: an error told to one thread is not another's.
- *Command line*: kills, failing hosts, a changing source. A target is whole
  or as it was, and the report is true.

## 2. Plan and composition

Modelled in this order: the shared read path, the planner with its index, the
layout with its directories, path resolution, lazy tables, the openings, the
C ABI, the command line.

| Composition | Made of |
|---|---|
| `CachedRead` | `BlockWalk` (a read's arithmetic) and `PclusterCache` |
| `CompressedInode` | `Collator`, `IndexCodec`, `IndexReader` |
| `ForeignIndex` | `IndexReader` on what other writers make |
| `ImageLayout` | `ImagePlan`, `ImageReader`, `DirBlock` |
| `LazyTables` | `BlockWalk` and what `ReadService` promises of the packed inode |
| `ReadService`, `NameWalk` | abstract specifications `CachedRead` and `PathResolve` implement |
| `MCFilesystem` | `CachedRead` and `PathResolve`, the two halves of `Filesystem` |

Not yet in the model: `CBLKCNT` entries of `BIG_PCLUSTER` images in the index.

## 3. Modules and code

- **PclusterCache**: the cache as a record of values, recency, bytes and
  counters. `lru::LruCache` is outside the repository and is modelled as what
  `fs.rs` uses of it.
- **BlockWalk, CachedRead**: a call is at one of the places where its thread
  is outside the mutex. `Lookup`, `Decode`, `InsertDecoded` are separate
  steps, as the mutex is taken for each; everything in between is local. What
  an image holds for an extent is its kind, and each kind ends a fill as the
  code does: PLAIN data that run short (`CutShort`), an algorithm this build
  lacks (`NoCodec`), a span no pcluster may cover or data the codec refuses
  (`DecodeRefused`) fail the call for whatever bytes it came, an interlaced tail
  that outruns its inline data (`Untruthful`) only for its own; the device may
  fail at any read of it. `Cause` says which damage explains which error.
- **ReadService**: a call is begun and returns. On a file whose index is sound
  it gives exactly the bytes asked for, or says why not: a cause is a byte asked
  for, or one beside it in its block.
- **PathResolve, NameWalk**: one lookup is one step. `PathResolve` keeps names
  and starts at the root again behind each relative symlink, as `fs.rs` does;
  `NameWalk` keeps the directory.
- **Collator, IndexCodec, CompressedInode**: `Collate` takes one lcluster at a
  time through `mkfs.rs` 1400-1535. Codecs are what fits: `Source` says how
  many lclusters compress into a pcluster. The writer's geometry (`Geometry`)
  and the reader's (`ReadGeometry`) are translated each from its own code, and
  so are the three accounts of a trailer's length: `PlannedBytes` (what
  `plan_body` sets aside), `WrittenEnd` (where `encode_zmap_trailer` stops)
  and `tail_inline_offset` (where the reader takes the tail from).
- **IndexReader, ForeignIndex**: `pcluster_extent` and the search for a
  fragment's start, an lcluster a step, on own and on other indexes.
- **ImagePlan, ImageLayout, ImageReader**: sizes, the passes in order, and the
  reader's way from a NID to a block. A write is a range with what it holds.
- **DirBlock, Directory**: dirents and names in blocks of eight bytes; the
  reader visits an entry a step, on any content. `DirectoryWalk` is the same
  component under names of its own, to stand beside ImageLayout.
- **LazyTables**: two threads call `xattrs` and `read_file`; loads race, and
  the device may fail under them.
- **Xattrs**: an inode's area and the shared one as sequences of units; the
  encoder and the parser each with its own arithmetic.
- **Superblock**: one device read a step, but a codec record's size and its
  bytes, two reads with nothing between them to choose, are one; each read may
  see another content.
  The metadata cache of `fs_core` is a device too, and need not remember.
- **Codecs, Lz4Prefix**: a frame is the lengths of the operations it decodes
  by; the LZ4 decoder goes token by token over encoded blocks.
- **CApi**: a call is begun, looks up, is served, and returns; a panic inside
  `ffi_guard` is a step of its own.
- **FileExport, TreeListing, SourceWalk**: host calls are steps, each may
  fail, other processes and kills come between. A link put in the place of a
  directory of the source is followed (`Elsewhere`), to where anything may be.

## 4. What is checked

Five of the MC modules hold components that do not share state side by side;
a behaviour is one of them, as `writer`, `subject` or `command` says
(`MCIndex`, `MCImageLayout`, `MCLazyTables`, `MCSuperblock`, `MCCommandLine`).
`MCFilesystem` has three scenes: readers that share a cache, one reader amid
damage, and a path.

| Run | Shows |
|---|---|
| `filesystem` | coherence, capacity and byte count of the shared cache; the read path implements `ReadService` with two readers and a resizer; reads of inodes with a damaged index, a tail that ends early and pclusters that do not decode: right, refused only for cause, and always ended. `PathResolve` implements `NameWalk`; no symlink is walked through as a directory; calls return |
| `index` | pclusters tile the file, entries lead to their head, the index and its trailer are as planned, lookups answer the plan and return |
| `layout` | writes apart, everything found, checksum last, failures for cause; directories |
| `lazy_tables` | one copy of each table, right answers, failures for cause; attributes come back |
| `capi` | own failures told, answers inside the buffer, iterations whole |
| `superblock` | what is held was verified, verdicts are the image's, records and devices by their own place; codecs and LZ4 prefixes |
| `command_line` | exports never half written and told true; listings once and cut only at bounds; the report of `mkfs.erofs` |
| `wide_lclusters` | *violation*: with lclusters above 4 KiB a 2B slot cannot hold an entry |
| `misaligned_index` | *violation*: a legacy index behind a body off an 8-byte boundary is read elsewhere than written |
| `long_pcluster` | *violation*: a file that compresses well becomes a pcluster longer than any read accepts |
| `capi_end` | *violation*: the end of a directory iteration leaves the last error as it was |
| `neighbour_damage` | *violation*: a read of sound bytes fails for what is stored beside them in their block, though `fs.rs` 973 says that only bytes asked for can fail a call |

Some invariants are conjunctions of parts: `IndexAsPlanned` of
`EncoderInvertsDecoder`, `BlocksAllotted` and the width of `delta[0]`;
`AnswersThePlan` includes `FragmentIsLastExtent`; `ReaderFinds` includes
`NamesLead` and `TailInOneBlock`; `LookupAgreesWithListing` includes that
listed names are clean.

**Bounds.** *CachedRead*: blocks of 4 bytes, sound files of up to 12,
capacities 0 to 3, a byte limit of 12 and a pcluster of 13, so that each way an
entry leaves the cache or never enters it occurs; one damaged file has each
form of stored damage, between sound extents of four blocks. *PathResolve*:
three symlinks instead of 40. *Index*: files of this crate up to 24 lclusters,
which reach all three regions of packs; `MaxDelta` 20 for `u16::MAX` and
`MaxBlocks` 30 for `u32::MAX`; compact pclusters of one block, as `mkfs.rs`
203-210 has it. Legacy bodies off an 8-byte boundary are in `misaligned_index`,
and there only; `long_pcluster` has the sizes of a real image, 192 lclusters of
64 KiB being the 12 MiB a read accepts. Other writers' files have up to four
lclusters of two units, every placing of extents. *Layout*: blocks of 2048
bytes, `MaxBlocks` 24, which doubles as the null address of a chunk map;
directory blocks of 8 bytes with dirents of 2. *LazyTables*: two threads, two
calls each, one fault. *Xattrs*: up to three of fourteen attributes, four
dictionaries, nine areas of other writers. *CApi*: two threads, one filesystem,
one iterator, buffers of 0, 2 and 3, offsets 2 and 4. *Superblock*: some twenty
contents which differ in what the second read may change. *Codecs*: frames of
up to four operations of 1 to 3 bytes, `MatchLenMax` 3 for 273. *Lz4Prefix*:
three sequences, nibbles of two bits, bytes of four. *Command line*: two
processes, two chunks; three directories of two names, limits 0, 3, 6 and
depths 0, 1, 3; sources of two levels, `MaxDepth` 2 and `MaxChanges` 2. In each
of these the next larger instance adds no new neighbourhood: regions, blocks
and packs meet only their neighbours.

**Fairness.** Weak fairness of a call's next step, thread by thread. The code
justifies it: a step waits for nothing but a mutex that is held for a few
instructions, and the loops have no other exit. Beginning a call, resizing and
faults are never relied on. It is stated in `MCIndex` (a lookup),
`MCFilesystem`: for a path, and for the scene with the damage, the shared one
being watched only where calls end; no other run has a temporal property that
needs it.

## 5. What is proved

`tlapm` proves for every value of the constants, under the named assumptions
of each module:

- **CachedReadProofs**: `Inv`, the type invariant with where each reader
  stands and what it has worked out. `KeyInjective` says that a key names one
  extent; `PushFacts` and `TrimFacts` say what insertion leaves. Coherence
  and capacity follow. `BytesInv`, beside it, has the byte total: the weight of a
  set of entries splits over its parts (`WeightSplit`, by induction on the size of
  the set), so what a push displaces or a trim pops is what leaves the total.
  `RightInv`: the bytes a reader has gathered are the file's as far as it has
  gone, which `Inv` alone does not give. From it: reads are right, and every step
  of the read path is a step of `ReadService` or none. Refusals have a cause
  because a fill never leaves the block of its cursor, and the cursor is asked for
  (`FillTouched`): whatever extent ends it, a byte of that extent is in a block the
  call touches. That a hit is never too short, and so never a cause, is coherence.
- **PathResolveProofs**: the names behind the walk lead back, through the
  entries, to the directory of the walk; hence the refinement of `NameWalk`.
- **CompressedInodeProofs**: `CollatorInv`, that closed pclusters, the open one and
  what is left tile the lclusters in order, with every entry's distance to its
  head. `IndexInv` adds the writer (`WriterInv`: every frame is one the codec
  was found to fit, the blocks are handed out in a row) and a lookup
  (`ReaderInv`: where it is, of the pcluster that holds the lcluster wanted).
  What ties the two is `Retold`: each entry is decoded as it was put
  (`TableTold`), which no state carries but which follows from the codec. For a
  compact index it takes that builder and reader divide it into the same regions
  (`RegionsAre`), that its packs are apart (`PacksApart`), that a slot's bits are
  no other's and read as the number written (`NumberOf`, by induction on the
  width), and that heads counted from a pack's base, over packs that begin
  in the midst of a pcluster, give the block each was put with.
  Assumed (`Agreed`): no frame is of more lclusters than a lookup scans; a legacy
  index begins at a multiple of 8; with a compact one, lclusters are of 4 KiB or
  less, pclusters of one block and of fewer lclusters than a `CBLKCNT` marker's
  bit. The code does not see to these: the runs `long_pcluster`,
  `misaligned_index` and `wide_lclusters` show what happens without them, and
  the run `index` that its instance has them.
- **LazyTablesProofs**: types, one copy for all, and that a cell once set is
  never set again. `RightInv` says of a call where it stands, which part of its
  answer it has and that this part is the image's, and keeps the cause of a
  failure; answers and failures follow. Assumed: a fragment runs to the end of its
  file and the packed inode is a sequence of bytes (`FragmentAssumption`).
- **CApiProofs**: a thread's last error is what its own latest call left
  (`ClearedWhileCalling` is what makes it inductive). What a call answers fits
  the caller's buffer, from `LedByPath`: the inode a call goes on with is the
  one its path leads to. Assumed: no lookup ends in `OutOfRange`, since a
  directory is read up to its size. `IterInv` says that what an iterator has
  handed out is a prefix of its listing; what the listing is comes from
  `CollectedFacts`, by induction on the directory's length.
- **SuperblockProofs**: a second read happens only behind a first one whose
  checksum bit is set, so what is held without a check had none. Tags lead to
  their devices, since `open_split` lets no other number of extras past
  (`OpenInv`). `VerdictInv` says how far an opening has come and that what it
  has found so far agrees with the image; it is of use only while the image stays
  as it is. Assumed: the bytes behind the superblock are the codecs' records one
  behind the other, which any bytes are, a record being a size and as many bytes
  (`RecordAssumption`).
- **FileExportProofs**: under `Exclusive` (no two runs share a name) a target
  is whole or as it was, and reports are true. `ExportInv` says whose file
  each inode is.

- **ImageLayoutProofs**: `LayoutInv`. That writes are apart is not inductive: it
  says nothing of where the rest will go. What is: all but the gap is written in
  one line. The planning passes fix three rows of places, each behind the last:
  the slots of the inodes, the blocks of the directories (the i-th's from block
  `f[i]` on) and the data (from `g[i]` on), for some `f` and `g`; the emission
  walks them in that order, and what it has written ends where the next place
  begins (`Emits`). Each pass looks another's numbers up by NID, so the rows hold
  only because a NID is one node's (`OwnNid`). A slot is as large as what is
  emitted into it (`EmittedFacts`, `InodeLine`), so the emission never fails.
  The gap ends in front of the metadata (`GapFacts`), which begins no earlier
  than what the checksum covers ends (`MetaFacts`). Assumed of a plan
  (`IsFlattened`): its nodes' fields have their types, a parent is a directory in
  front of its children, siblings are in the order of their names. Assumed of the
  constants: the sizes a block can have, and a dirent's 12 bytes. A compressed
  file's index, which has a header and so is never empty, an xattr block and the
  blobs are sizes of any value.
  That the reader finds all of it (`ReaderAlwaysFinds`) goes on from there. Of
  writes that are apart each is still whole (`Read`), so it is enough that what
  the reader asks for is within one write and that the write was made.
  `FoundInv` says so as the passes go: which nodes a pass is done with
  (`Through`), that what was put under their NIDs is what later passes and the
  reader expect (`DirsPacked`, `HolesNull`, `AddrsFit`), and that what was to be
  written for them was (`AllWritten`). Then there is a lemma for each way to a
  node's data: `DirFound`, `FlatFound`, `InlineFound`, `ChunkedFound`,
  `CompressedFound`. Three facts there are easily lost in a change of the code:
  a chunk's address is never the one that says hole, since the image's size was
  refused before it could be (`AddressGood`); a block of a file is in the chunk
  its number says, since all chunks but the last one are whole (`InChunk`); and
  the extended inode the reader always asks for is within the image, since a
  directory's or a file's block follows the last inode, or a lone inode is
  alone in its block (`RoomBehind`).
  Last, a lookup agrees with a listing in any directory (`LookupCorrect`).
  `DirInv` says what has been seen: the entries of the blocks walked and those of
  the current block up to `entry` (`Seen`), none of them refused; a listing's
  `out` is that, a lookup's `found` the first of its name in that. Walked to the
  end it is the listing, which the property states without a walk
  (`HeardIsListing`); refused it is not, whichever walk was refused
  (`AnswerAgrees`). Assumed of directories (`AreDirs`): they have the blocks
  their size takes, and a block the dirents it counts.
  And a directory of the builder lists as it was made (`ListsCorrect`). The
  packing cuts the entries into runs that fit a block (`Cut`, `PackingCuts`), a
  block reads back the entries encoded in it (`ReadsBack`), so the blocks
  together list all of them in order (`AllHeard`); and the order of names is
  total (`LexOrders`), so every child is sorted in exactly once
  (`AllEntriesFacts`). Assumed of such a directory (`AreBuilt`): its children's
  names are ones `flatten` takes (mkfs.rs 1829), each once, as a `BTreeMap`'s
  keys are, and none is "." or "..", which the builder does not refuse; every
  entry fits a block; and the size is whole blocks.

Induction over natural numbers is at hand in a first-order form (`NatInd`, from
the well-foundedness of `<`), and carries what is said of recursive functions.

Only model-checked:

- liveness (`ReadsReturn`, `CallsReturn`, `LookupsReturn`), which is out of the
  prover's reach;
- the listing of a tree (`TreeListing`, RECURSIVE operators), out of its reach
  too;
- left for later: the attributes that come back, what an opened superblock
  serves, and the report of a walk over a source.

## 6. Not modelled

- The formats inside the codec libraries; frames whose bytes pass for another
  LZMA header (`decompress.rs` 518); zeros behind an LZ4 frame of an image
  without `ZERO_PADDING`.
- In the read path, how interlaced PLAIN bytes are rotated, and whether an
  extent's data are in blocks or behind the inode; in the index, `BIG_PCLUSTER` and `HEAD2`; a packed inode with a fragment of
  its own.
- In the layout, what a codec gives is a size; modes, owners and times count
  only for an inode's size. Inode fields have no state of their own.
- An attribute that encodes to four zero bytes (`xattr.rs` 208).
- Chunks on extra devices; `fs_core`'s cache of metadata blocks.
- Argument parsing, `cat` and `stat`, the text of reports. `SourceWalk` takes
  a directory's listing as made at one moment.
- `error.rs`, `lib.rs`: no behaviour.

Limits seen while reading, without a run of their own: an incompressible
lcluster of several blocks fails the build (`mkfs.rs` 1571, modelled as
`PlainTooLong`); a trailer longer than a block cannot be placed (`mkfs.rs`
1779); a link count is cut to 16 bits (`mkfs.rs` 2354); `.` and `..` lead even
before a name that sorts below them (`mkfs.rs` 2505, 2479); a block beside a
fragment can be refused for the fragment's bytes (`fs.rs` 1017, as
`neighbour_damage` shows for extents);
`readlink` through a file is `ENOTDIR`, which the header does not list
(`capi.rs` 48); a device table can be read only once the devices are there
(`fs.rs` 310, 287); two exports of one file share a `.partial`
(`cli/erofs/fs.rs` 859), so `NeverHalfWritten` is of runs that share no name, and
of kills, not of power loss; a DEFLATE or LZMA frame longer than its extent is cut
(`decompress.rs` 672, 114).

## 7. Running

    tlc -config Filesystem.cfg MCFilesystem
    tlc -config Index.cfg MCIndex
    tlapm CApiProofs.tla

The configuration names the run; `PROJECT.json` lists module and configuration
of each. Operators under a comment "Seeded fault" are the form a definition
would have with a plausible mistake in it; put in the definition's place, the
run that watches the property finds it violated.
