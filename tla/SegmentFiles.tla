---------------------------- MODULE SegmentFiles ----------------------------
(***************************************************************************)
(* One segment file: SegmentComponentWriter and its ExactBuffer, the       *)
(* LinkedBytesList of pages it writes, the compressed block list that maps *)
(* page ordinals to blocks, SegmentComponentReader, and mark_deleted.      *)
(*                                                                         *)
(* A byte is its own position in the file, so that a byte out of place is  *)
(* seen.  A file is written by one backend to blocks nobody else knows;    *)
(* the order in which new_buffer finds blocks is chosen in Init.           *)
(***************************************************************************)
EXTENDS Integers, Sequences, SequencesExt, FiniteSets

CONSTANTS
  ItemSize,       \* bm25_max_free_space(), the bytes of a page
  Len1, Len4, Len8, \* BLOCK_LEN of BitPacker1x, 4x and 8x
  Width,          \* bits of a block number
  ListSpace,      \* the bytes of a page of the block list
  NBlocks,        \* bound: the blocks the relation has
  MaxBytes,       \* bound on the length of the file
  MaxWrite        \* bound on the bytes of one write

InvalidBlockNumber == 0
Block == 1..NBlocks

ASSUME FileAssumption ==
  /\ {ItemSize, Len1, Len4, Len8, ListSpace, NBlocks} \subseteq Nat \ {0}
  /\ Len1 < Len4 /\ Len4 < Len8 /\ NBlocks < 2 ^ Width

VARIABLES
  order,    \* the order in which blocks are handed out; the rest of it is free
  disk,     \* the pages: what they hold, next_blockno, marked deleted or not
  meta,     \* LinkedListData of the header page, and the header's block
  builder,  \* blocklist::builder::BlockList
  buffer,   \* the bytes in the ExactBuffer
  total,    \* total_bytes
  phase     \* "writing", "terminated" or "deleted"

vars == <<order, disk, meta, builder, buffer, total, phase>>

Bytes(a, b) == [i \in 1..(b - a + 1) |-> a + i - 1]
Page == [data |-> <<>>, next |-> InvalidBlockNumber, deleted |-> FALSE]

\* Block orders: each time the lowest or the highest block that is left.
Orders ==
  LET Rest(ends) == FoldLeft(LAMBDA acc, e :
        IF e = "low" THEN [acc EXCEPT !.seq = Append(@, acc.lo), !.lo = @ + 1]
        ELSE [acc EXCEPT !.seq = Append(@, acc.hi), !.hi = @ - 1],
        [seq |-> <<>>, lo |-> 1, hi |-> NBlocks], ends).seq
  IN  {Rest(ends) : ends \in [Block -> {"low", "high"}]}

-----------------------------------------------------------------------------
\* The block list: chunks of block numbers as differences.

\* The bits BitPacker needs for values, and its differences modulo 2^Width.
NumBits(values) == CHOOSE n \in 0..Width :
                     /\ \A i \in DOMAIN values : values[i] < 2 ^ n
                     /\ \A k \in 0..(n - 1) : \E i \in DOMAIN values : values[i] >= 2 ^ k

Deltas(initial, slice, strict) ==
  [i \in DOMAIN slice |->
     (slice[i] - (IF i = 1 THEN initial ELSE slice[i - 1])
               - (IF strict /\ (i > 1 \/ initial # 0) THEN 1 ELSE 0)) % 2 ^ Width]

Sums(initial, deltas, strict) ==
  FoldLeft(LAMBDA acc, d :
    Append(acc, ((IF acc = <<>> THEN initial ELSE Last(acc)) + d
      + (IF strict /\ (acc # <<>> \/ initial # 0) THEN 1 ELSE 0)) % 2 ^ Width),
    <<>>, deltas)

\* pack_1x, pack_4x and pack_8x; the first chunk has no initial, written as 0.
Pack(slice, initial) ==
  LET strict == IsSorted(slice, <=)
      deltas == Deltas(initial, slice, strict)
  IN  [tag     |-> IF strict THEN "strictly_sorted" ELSE "sorted",
       initial |-> initial, values |-> deltas, bits |-> NumBits(deltas)]

Uncompressed(slice) ==
  [tag |-> "uncompressed", initial |-> 0, values |-> slice, bits |-> Width]

Unpack(c) ==
  IF c.tag = "uncompressed" THEN c.values
  ELSE Sums(c.initial, c.values, c.tag = "strictly_sorted")

ByteLen(c) == IF c.tag = "uncompressed" THEN 2 + 4 * Len(c.values)
              ELSE 6 + (c.bits * Len(c.values)) \div 8

\* Mutant of Push: what is queued is packed only when it is longer than the packer takes.
PushLate(b, blockno) ==
  IF b.queue # <<>> /\ Last(b.queue) = blockno THEN b
  ELSE IF Len(b.queue) > Len4
  THEN [chunks |-> Append(b.chunks, Pack(SubSeq(b.queue, 1, Len4), b.last)),
        queue  |-> <<blockno>>, last |-> Last(b.queue)]
  ELSE [b EXCEPT !.queue = Append(@, blockno)]

Push(b, blockno) ==
  IF b.queue # <<>> /\ Last(b.queue) = blockno THEN b
  ELSE IF Len(b.queue) = Len4
  THEN [chunks |-> Append(b.chunks, Pack(b.queue, b.last)),
        queue  |-> <<blockno>>, last |-> Last(b.queue)]
  ELSE [b EXCEPT !.queue = Append(@, blockno)]

\* finish(): the chunks of what is still queued, the largest packer first.
RECURSIVE Chunks(_, _)
Chunks(queue, last) ==
  LET fit == {n \in {Len1, Len4, Len8} : n <= Len(queue)}
      n   == CHOOSE k \in fit : \A j \in fit : j <= k
  IN  CASE queue = <<>> -> <<>>
        [] queue # <<>> /\ fit = {} -> <<Uncompressed(queue)>>
        [] OTHER -> <<Pack(SubSeq(queue, 1, n), last)>>
                      \o Chunks(SubSeq(queue, n + 1, Len(queue)), queue[n])

Size(chunks) == FoldLeft(LAMBDA n, c : n + ByteLen(c), 0, chunks)

\* The chunks page by page: a chunk that does not fit begins a page.
Paginate(chunks) ==
  FoldLeft(LAMBDA pages, c :
    IF Size(Append(Last(pages), c)) <= ListSpace
    THEN [pages EXCEPT ![Len(pages)] = Append(@, c)]
    ELSE Append(pages, <<c>>),
    <<<<>>>>, chunks)

-----------------------------------------------------------------------------
Init ==
  /\ order \in {SubSeq(o, 3, NBlocks) : o \in Orders}
  /\ LET header == CHOOSE b \in Block : \A i \in DOMAIN order : order[i] # b
         start  == CHOOSE b \in Block \ {header} : \A i \in DOMAIN order : order[i] # b
     IN  /\ disk = [b \in {header, start} |-> Page]
         /\ meta = [header |-> header, start |-> start, last |-> start,
                    npages |-> 1, blocklist |-> InvalidBlockNumber]
  /\ builder = [chunks |-> <<>>, queue |-> <<>>, last |-> 0]
  /\ buffer = <<>> /\ total = 0 /\ phase = "writing"

\* The state of the LinkedBytesList that write changes.
List == [order |-> order, disk |-> disk, meta |-> meta, builder |-> builder]

\* The last page is full: a new page is linked behind it.
Grow(l) ==
  LET new == Head(l.order)
  IN  [l EXCEPT !.order = Tail(@),
                !.disk  = [b \in DOMAIN @ \cup {new} |->
                             IF b = new THEN Page
                             ELSE IF b = l.meta.last THEN [@[b] EXCEPT !.next = new]
                             ELSE @[b]],
                !.meta.last = new,
                !.meta.npages = @ + 1]

\* One byte of LinkedBytesList::write, which copies as many at a time as fit.
WriteByte(l, byte) ==
  LET pushed == [l EXCEPT !.builder = Push(@, l.meta.last)]
      room   == IF Len(l.disk[l.meta.last].data) < ItemSize THEN pushed
                ELSE [Grow(pushed) EXCEPT !.builder = Push(@, Head(l.order))]
  IN  [room EXCEPT !.disk[room.meta.last].data = Append(@, byte)]

WriteList(bytes) == FoldLeft(WriteByte, List, bytes)

SetList(l) ==
  /\ order' = l.order /\ disk' = l.disk /\ meta' = l.meta /\ builder' = l.builder

\* SegmentComponentWriter::write: whole pages go out, the rest is buffered.
Write(n) ==
  LET bytes == buffer \o Bytes(total + 1, total + n)
      out   == (Len(bytes) \div ItemSize) * ItemSize
  IN  /\ phase = "writing" /\ total + n <= MaxBytes
      /\ SetList(WriteList(SubSeq(bytes, 1, out)))
      /\ buffer' = SubSeq(bytes, out + 1, Len(bytes))
      /\ total' = total + n
      /\ UNCHANGED phase

\* flush() of the ExactBuffer: a page may now be filled by two writes.
Flush ==
  /\ phase = "writing"
  /\ SetList(WriteList(buffer))
  /\ buffer' = <<>>
  /\ UNCHANGED <<total, phase>>

\* terminate_ref: flush, then the block list goes to pages of its own.
TerminateRef ==
  LET l      == WriteList(buffer)
      chunks == l.builder.chunks \o Chunks(l.builder.queue, l.builder.last)
      pages  == Paginate(chunks)
      block  == SubSeq(l.order, 1, IF chunks = <<>> THEN 0 ELSE Len(pages))
  IN  /\ phase = "writing"
      /\ order' = SubSeq(l.order, Len(block) + 1, Len(l.order))
      /\ disk' = [b \in DOMAIN l.disk \cup ToSet(block) |->
                    IF b \in DOMAIN l.disk THEN l.disk[b]
                    ELSE LET i == CHOOSE k \in DOMAIN block : block[k] = b
                         IN  [Page EXCEPT !.data = pages[i],
                                !.next = IF i = Len(block) THEN @ ELSE block[i + 1]]]
      /\ meta' = [l.meta EXCEPT !.blocklist = IF block = <<>> THEN @ ELSE block[1]]
      /\ builder' = [l.builder EXCEPT !.chunks = <<>>]
      /\ buffer' = <<>>
      /\ phase' = "terminated"
      /\ UNCHANGED total

RECURSIVE Chain(_)
Chain(b) == IF b = InvalidBlockNumber THEN <<>> ELSE <<b>> \o Chain(disk[b].next)

\* Mutant of Marked: the block list of the file is forgotten.
MarkedData == {meta.header} \cup ToSet(Chain(meta.start))

\* The blocks mark_deleted visits: the file, its block list and the header.
Marked ==
  {meta.header} \cup ToSet(Chain(meta.start)) \cup ToSet(Chain(meta.blocklist))

MarkDeleted ==
  /\ phase = "terminated"
  /\ disk' = [b \in DOMAIN disk |-> [disk[b] EXCEPT !.deleted = @ \/ b \in Marked]]
  /\ phase' = "deleted"
  /\ UNCHANGED <<order, meta, builder, buffer, total>>

Next ==
  \/ \E n \in 0..MaxWrite : Write(n)
  \/ Flush
  \/ TerminateRef
  \/ MarkDeleted

Spec == Init /\ [][Next]_vars

-----------------------------------------------------------------------------
\* SegmentComponentReader, on a file that is complete.

\* blocklist::reader::BlockList::new
Blocks == FlattenSeq([i \in DOMAIN Chain(meta.blocklist) |->
            FlattenSeq([j \in DOMAIN disk[Chain(meta.blocklist)[i]].data |->
              Unpack(disk[Chain(meta.blocklist)[i]].data[j])])])

\* What a page holds, and what lies behind its pd_lower: not part of the file.
Slice(b, from, len) ==
  [i \in 1..len |-> IF from + i \in DOMAIN disk[b].data THEN disk[b].data[from + i] ELSE 0]

GetCachedRange(b, start, len) == Slice(b, start % ItemSize, len)

RECURSIVE ReadPages(_, _, _)
ReadPages(b, from, remaining) ==
  IF remaining = 0 \/ b = InvalidBlockNumber THEN <<>>
  ELSE LET len == IF ItemSize - from < remaining THEN ItemSize - from ELSE remaining
       IN  Slice(b, from, len) \o ReadPages(disk[b].next, 0, remaining - len)

Panic == <<"block not found">>

GetBytesRange(start, len) ==
  LET ord == start \div ItemSize + 1
  IN  IF ord \notin DOMAIN Blocks THEN Panic
      ELSE IF (start % ItemSize) + len < ItemSize THEN GetCachedRange(Blocks[ord], start, len)
      ELSE ReadPages(Blocks[ord], start % ItemSize, len)

\* read_bytes: the last page is found without the block list.
ReadBytes(start, end) ==
  LET stop == IF end < total THEN end ELSE total
      len  == IF stop < start THEN 0 ELSE stop - start
  IN  IF start \div ItemSize = meta.npages - 1
      THEN GetCachedRange(meta.last, start, len)
      ELSE GetBytesRange(start, len)

-----------------------------------------------------------------------------
\* What a reader gets is what the writer wrote, whatever the sizes of the
\* writes, the flushes between them and the blocks found, for every range that
\* begins in the file or, unless its last page is full, at its end.
ReadExact ==
  phase = "terminated" =>
    \A start \in 0..total : \A end \in start..(total + 1) :
      (start < total \/ total % ItemSize # 0 \/ total = 0) =>
        ReadBytes(start, end) = Bytes(start + 1, IF end < total THEN end ELSE total)

\* Nothing leaks: once a file is deleted, every block that was handed out for
\* it is marked, the pages of the block list and the header too.
DeletedWhole == phase = "deleted" => \A b \in DOMAIN disk : disk[b].deleted
=============================================================================
