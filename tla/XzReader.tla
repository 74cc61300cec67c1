------------------------------ MODULE XzReader ------------------------------
(***************************************************************************)
(* XzReader of src/src/xz/reader.rs: a pull reader over any source.  One   *)
(* action is one call of a state function from the loop in `read`; a turn  *)
(* of the block decoder is an action of its own.                           *)
(*                                                                         *)
(* `src` is the Source: `pos` cells have been consumed and the buffer      *)
(* holds the file up to `end`.  A refill may stop at the least that was    *)
(* asked for or buffer all there is.  Errors keep only what a caller acts  *)
(* on: "bad" (an XzError), "memory" (the memory limit) and "io".           *)
(***************************************************************************)
EXTENDS XzFiles

CONSTANTS
    Files,      \* what is read: a set of <<streams, harm>> of XzFiles
    Options     \* a set of reader options, see XzOptions below

VARIABLES
    file,       \* the file: its cells, what a reader may find in it, and what
                \* was written; chosen once
    opts,       \* [verify, allow, concat, maxBlock, cap, mem, threads,
                \*  verified, room, io, retry, starved]: the caller's options;
                \* how much it has room for; how often the source may still
                \* fail, whether the caller reads on after that; whether
                \* threads may fail to start
    src, st, check, fold, dec, headerSize, indexSize,
    out,        \* what the caller has been given
    res         \* "" while the caller reads, then how the last read ended

readerVars == <<src, st, check, fold, dec, headerSize, indexSize>>

File == file.cells

NoDecoder == NewBlockDecoder([filters |-> <<>>, comp |-> None, unc |-> None], 0)

ReaderInit ==
    /\ \E f \in Files :
       \E cells \in {FileCells(f[1], f[2])} :
       \E verify \in BOOLEAN :
       \E sound \in {SoundReadings(cells, f[1], verify)} :
       \E o \in {p \in Options : p.verify = verify} :
          /\ file = Given(f[1], f[2], cells, sound, o, o.threads > 0)
          /\ opts = o
    /\ src = [pos |-> 0, end |-> 0]
    /\ st = "StreamHeader"
    /\ check = "none"
    /\ fold = <<>>
    /\ dec = NoDecoder
    /\ headerSize = 0
    /\ indexSize = 0

(* fill_at_least(n): where the buffer may end afterwards.                  *)
FillTo(n) == IF src.end - src.pos >= n THEN {src.end}
             ELSE {Least(src.pos + n, Len(File)), Len(File)}

(* take_into: the next n cells, for a refill that reached `end`.           *)
Short(n, end) == end - src.pos < n
Ahead(n) == SubSeq(File, src.pos + 1, src.pos + n)
Consume(n, end) == src' = [pos |-> src.pos + n, end |-> end]

Fail(kind) ==
    /\ res' = kind
    /\ UNCHANGED <<readerVars, out>>

-----------------------------------------------------------------------------
ReadStreamHeader ==
    /\ st = "StreamHeader"
    /\ \E end \in FillTo(StreamHeaderSize) :
         LET h == ParseStreamHeader(Ahead(StreamHeaderSize))
         IN  IF Short(StreamHeaderSize, end) \/ ~h.ok \/ Refused(opts, h.check)
               THEN Fail("bad")
               ELSE /\ Consume(StreamHeaderSize, end)
                    /\ check' = h.check
                    /\ fold' = <<>>
                    /\ st' = "BlockOrIndex"
                    /\ UNCHANGED <<dec, headerSize, indexSize, out, res>>

(* What one block may produce, with the file-wide cap taken into account.  *)
BlockCap(done) == Least(opts.maxBlock, Most(opts.cap - done, 0))

(* The first byte is consumed on its own: it is the index indicator or the *)
(* size of the header it starts.                                           *)
ReadBlockOrIndex ==
    /\ st = "BlockOrIndex"
    /\ \E end \in FillTo(1) :
         IF Short(1, end) THEN Fail("bad")
         ELSE
           LET size == HeaderSizeFromFirstByte(Ahead(1)[1])
               upto == IF Short(size, end) THEN Least(src.pos + size, Len(File))
                                           ELSE end
               header == ParseBlockHeader(Ahead(size))
               cap == BlockCap(Len(out))
           IN  IF size = 0
                 THEN /\ Consume(1, end)
                      /\ st' = "Index"
                      /\ UNCHANGED <<check, fold, dec, headerSize, indexSize,
                                     out, res>>
               ELSE IF Short(size, upto) \/ ~header.ok THEN Fail("bad")
               ELSE IF Refusal(header, opts.mem, cap) # ""
                 THEN Fail(Refusal(header, opts.mem, cap))
               ELSE /\ Consume(size, upto)
                    /\ headerSize' = size
                    /\ dec' = NewBlockDecoder(header, cap)
                    /\ st' = "Block"
                    /\ UNCHANGED <<check, fold, indexSize, out, res>>

(* One turn of the loop in `block`.                                        *)
DecodeBlockTurn ==
    /\ st = "Block"
    /\ ~Finished(dec)
    /\ \E end \in FillTo(1) :
       \E t \in {DecodeTurn(dec, SubSeq(File, src.pos + 1, end), opts.room)} :
         LET truncated == t.wrote = <<>> /\ t.read = 0 /\ Short(1, end)
             tooMuch == Len(out) + Len(t.wrote) > opts.cap
         IN  IF t.err \/ truncated \/ tooMuch THEN Fail("bad")
             ELSE /\ Consume(t.read, end)
                  /\ dec' = t.dec
                  /\ out' = out \o t.wrote
                  /\ UNCHANGED <<st, check, fold, headerSize, indexSize, res>>

(* The end of `block` and `block_tail`: padding, the check, and the        *)
(* block's record for the index.                                           *)
ReadBlockTail ==
    /\ st = "Block"
    /\ Finished(dec)
    /\ LET padding == PadLen(dec.packed)
           n == padding + CheckSize(check)
       IN  \E end \in FillTo(n) :
             IF \/ Short(n, end)
                \/ \E i \in 1 .. padding : Ahead(n)[i] # Null
                \/ ~CheckPasses(check, opts.verify, dec.sum,
                                Drop(Ahead(n), padding))
               THEN Fail("bad")
               ELSE /\ Consume(n, end)
                    /\ fold' = Append(fold,
                                 <<headerSize + dec.packed + CheckSize(check),
                                   dec.unpacked>>)
                    /\ dec' = NoDecoder
                    /\ st' = "BlockOrIndex"
                    /\ UNCHANGED <<check, headerSize, indexSize, out, res>>

(* Mutation of SameRecords: only the totals are compared. *)
SameTotals(records, blocks) ==
    LET total(s, k) == FoldLeft(LAMBDA a, r : a + r[k], 0, s)
    IN  \A k \in 1 .. 2 : total(records, k) = total(blocks, k)

(* IndexFold::finish: the records of the index are those of the blocks, in *)
(* their order.                                                            *)
SameRecords(records, blocks) == records = blocks

(* The index, against the fold of the blocks that were decoded.  The       *)
(* indicator has been consumed; `padded` is the index up to its CRC.       *)
ReadIndex ==
    /\ st = "Index"
    /\ \E c \in {VliDecode(Drop(File, src.pos))} :
       \E r \in {TakeVlis(Drop(File, src.pos + c.len), 2 * Len(fold))} :
         LET body == 1 + c.len + r.len
             size == body + PadLen(body)
             padded == SubSeq(File, src.pos, src.pos + size - 1)
         IN  \E end \in FillTo(size - 1 + Align) :
               IF \/ ~c.ok \/ c.value # Len(fold)
                  \/ ~RecordsOk(r) \/ ~SameRecords(PairUp(r.values), fold)
                  \/ Short(size - 1 + Align, end)
                  \/ \E i \in body + 1 .. size : padded[i] # Null
                  \/ Drop(Ahead(size - 1 + Align), size - 1) # Crc(padded)
                 THEN Fail("bad")
                 ELSE /\ Consume(size - 1 + Align, end)
                      /\ indexSize' = size + Align
                      /\ st' = "Footer"
                      /\ UNCHANGED <<check, fold, dec, headerSize, out, res>>

ReadFooter ==
    /\ st = "Footer"
    /\ \E end \in FillTo(StreamFooterSize) :
         LET f == ParseStreamFooter(Ahead(StreamFooterSize))
         IN  IF \/ Short(StreamFooterSize, end)
                \/ ~f.ok
                \/ f.check # check
                \/ f.indexSize # indexSize
               THEN Fail("bad")
               ELSE /\ Consume(StreamFooterSize, end)
                    /\ st' = "Padding"
                    /\ UNCHANGED <<check, fold, dec, headerSize, indexSize,
                                   out, res>>

(* Stream padding, then another stream or the end of the file.             *)
ReadPadding ==
    /\ st = "Padding"
    /\ \E end \in FillTo(Align) :
         IF end = src.pos
           THEN /\ st' = "Done"
                /\ res' = "done"
                /\ src' = [src EXCEPT !.end = end]
                /\ UNCHANGED <<check, fold, dec, headerSize, indexSize, out>>
         ELSE IF ~opts.concat \/ Short(Align, end) THEN Fail("bad")
         ELSE LET pad == Ahead(Align) = Nulls(Align)
              IN  /\ Consume(IF pad THEN Align ELSE 0, end)
                  /\ st' = IF pad THEN "Padding" ELSE "StreamHeader"
                  /\ UNCHANGED <<check, fold, dec, headerSize, indexSize,
                                 out, res>>

(* The source fails while more of the file is needed.  What a handler had  *)
(* consumed by then is lost to the next read: the first byte of a block    *)
(* header, or a VLI of the index.                                          *)
Lost(end) ==
    LET have == end - src.pos
        c == VliDecode(Drop(File, src.pos))
    IN  IF st = "BlockOrIndex" /\ have > 0 /\ Ahead(1)[1] # Null THEN 1
        ELSE IF st = "Index" /\ have >= VliMax /\ c.ok THEN c.len
        ELSE 0

SourceFails ==
    /\ opts.io > 0
    /\ st # "Done"
    /\ \E end \in {src.end, src.pos + 1, src.pos + VliMax} :
          /\ src.end <= end
          /\ end < Len(File)
          /\ src' = [pos |-> src.pos + Lost(end), end |-> end]
    /\ opts' = [opts EXCEPT !.io = @ - 1]
    /\ res' = "io"
    /\ UNCHANGED <<st, check, fold, dec, headerSize, indexSize, out>>

ReaderStep ==
    /\ res = ""
    /\ UNCHANGED file
    /\ \/ SourceFails
       \/ /\ UNCHANGED opts
          /\ \/ ReadStreamHeader
             \/ ReadBlockOrIndex
             \/ DecodeBlockTurn
             \/ ReadBlockTail
             \/ ReadIndex
             \/ ReadFooter
             \/ ReadPadding

=============================================================================
