------------------------------ MODULE FileMedia ------------------------------
(***************************************************************************)
(* The blocks of the Plasma file system (trunk/kernel/filesys.c) and how a *)
(* file walks them, as operators on the record fs of the media             *)
(*                                                                         *)
(*   disk     every block: next and its cells                              *)
(*   free     RAM blocks that malloc still has                             *)
(*   empty, used, scan    FlashBlockEmpty, FlashBlockUsed, FlashBlock      *)
(*   onFlash  the two bitmaps as the flash keeps them                      *)
(*   root     rootFileEntry                                                *)
(*   overrun  whether something was stored outside of a block              *)
(*                                                                         *)
(* and the record f of an open file (OS_FILE).  A cell is a unit of data:  *)
(* a value of a file, or part k of an entry of a directory.  An entry has  *)
(* EntryCells cells and may begin in one block and end in the next.        *)
(***************************************************************************)
EXTENDS Integers, Sequences, SequencesExt, FiniteSets, FiniteSetsExt, Functions, TLC

CONSTANTS
    RamBlocks, FlashBlocks,  \* block indexes; 0 and -1 are none of them
    BlockCells, EntryCells,  \* cells of a block and of an entry of a directory
    SectorFits               \* whether malloc gives the cleanup its buffer

ASSUME MediaAssumption ==
    /\ RamBlocks \union FlashBlocks \subseteq Nat \ {0} /\ RamBlocks \intersect FlashBlocks = {}
    /\ BlockCells \in Nat \ {0} /\ EntryCells \in Nat \ {0}

BLOCK_MALLOC == 0
BLOCK_EOF    == -1
Blank        == <<>>   \* an erased cell; a value is <<v>>, a part of an entry <<entry, k>>

Start  == Min(FlashBlocks)
Erased == [next |-> BLOCK_EOF, data |-> [i \in 1 .. BlockCells |-> Blank]]

\* A flash can only clear bits: what is written over something else than
\* blanks is kept if it clears the bit valid of an entry, or is the same.
Burn(old, new) ==
    CASE old = Blank \/ old = new -> new
      [] old # Blank /\ new # Blank /\ Len(old) = 2 /\ Len(new) = 2
         /\ new = <<[old[1] EXCEPT !.valid = 0], old[2]>> -> new
      [] OTHER -> <<-1>>

BurnBlock(old, new) ==
    [next |-> IF old.next \in {BLOCK_EOF, new.next} THEN new.next ELSE 0,
     data |-> [i \in 1 .. BlockCells |-> Burn(old.data[i], new.data[i])]]

-----------------------------------------------------------------------------
(* The media *)

\* Mutant: the blocks are given out without being erased.
MediaBlockCleanup_dirty(fs) ==
    LET empty == fs.empty \union (FlashBlocks \ fs.used)
    IN [fs EXCEPT !.empty = empty, !.used = FlashBlocks, !.scan = Start,
                  !.onFlash = [empty |-> empty, used |-> FlashBlocks]]

MediaBlockCleanup(fs) ==
    LET empty == fs.empty \union (FlashBlocks \ fs.used)
    IN [fs EXCEPT !.empty = empty, !.used = FlashBlocks, !.scan = Start,
                  !.onFlash = [empty |-> empty, used |-> FlashBlocks],
                  !.disk = [b \in DOMAIN @ |-> IF b \in empty THEN Erased ELSE @[b]]]

MediaBlockInit(fs) ==
    [fs EXCEPT !.empty = fs.onFlash.empty, !.used = fs.onFlash.used, !.scan = Start]

\* Mutant: the bit is cleared in RAM, not on the flash.
TakeFlash_cached(fs) ==
    LET b == Min({i \in fs.empty : i >= fs.scan})
    IN [fs |-> [fs EXCEPT !.scan = b + 1, !.empty = @ \ {b}], block |-> b]

\* The first empty block from fs.scan on.
TakeFlash(fs) ==
    LET b == Min({i \in fs.empty : i >= fs.scan})
    IN [fs |-> [fs EXCEPT !.scan = b + 1, !.empty = @ \ {b}, !.onFlash.empty = (fs.empty \ {b})], block |-> b]

HasFlash(fs) == \E i \in fs.empty : i >= fs.scan

\* block = 0: there is none.
TakeRam(fs) == IF fs.free = {} THEN [fs |-> fs, block |-> 0]
               ELSE [fs |-> [fs EXCEPT !.free = @ \ {Min(fs.free)}], block |-> Min(fs.free)]
TakeAny(fs) == IF HasFlash(fs) THEN TakeFlash(fs) ELSE [fs |-> fs, block |-> 0]
MediaBlockMalloc(fs, media) ==
    IF media = "ram" THEN TakeRam(fs)
    ELSE TakeAny(IF ~HasFlash(fs) /\ SectorFits THEN MediaBlockCleanup(fs) ELSE fs)

MediaBlockFree(fs, media, b) ==
    IF media = "ram" THEN [fs EXCEPT !.free = @ \union {b}]
    ELSE [fs EXCEPT !.used = @ \ {b}, !.onFlash.used = (fs.used \ {b})]

-----------------------------------------------------------------------------
(* A file and its block.  r is the pair [fs, f].  f.block: where the data   *)
(* of the block is, in RAM where it belongs or in the file's local copy.    *)

BlockOf(r) == IF r.f.block = "ram" THEN r.fs.disk[r.f.index] ELSE r.f.copy

Store(r, b) ==
    IF r.f.block = "ram" THEN [r EXCEPT !.fs.disk[r.f.index] = b] ELSE [r EXCEPT !.f.copy = b]

\* The block that is left is linked to the new one, and written if it changed.
Link(r, b) == IF r.f.block = "none" THEN r
              ELSE [Store(r, [BlockOf(r) EXCEPT !.next = b]) EXCEPT !.f.blockModified = TRUE]
Flush(r) ==
    LET clean == [r EXCEPT !.f.blockModified = FALSE]
    IN IF r.f.block = "none" \/ ~r.f.blockModified THEN r
       ELSE IF r.f.entry.media = "flash" THEN [clean EXCEPT !.fs.disk[r.f.index] = BurnBlock(@, r.f.copy)]
       ELSE clean

Turn(r, b) == [r EXCEPT !.f.index = b, !.f.offset = 0, !.f.block = r.f.entry.media]
Fetch(r)   == IF r.f.block = "ram" THEN r ELSE [r EXCEPT !.f.copy = r.fs.disk[r.f.index]]
Clear(r)   == [Store(r, Erased) EXCEPT !.f.blockModified = TRUE]

Opened(r, b) == IF b = BLOCK_EOF THEN r ELSE Fetch(Turn(r, b))
Fresh(r, b)  == IF b = BLOCK_EOF THEN r ELSE Clear(Fetch(Turn(r, b)))

\* new: what MediaBlockMalloc returned.
NextBlock(r, new) ==
    LET b == IF new.block = 0 THEN BLOCK_EOF ELSE new.block
    IN Fresh(Flush(Link([r EXCEPT !.fs = new.fs], b)), b)

BlockRead(r, blockIndex) ==
    IF blockIndex = BLOCK_MALLOC THEN NextBlock(r, MediaBlockMalloc(r.fs, r.f.entry.media))
    ELSE Opened(Flush(r), blockIndex)

-----------------------------------------------------------------------------
(* OS_fread and OS_fwrite, cell by cell *)

CellHere(r) == [r EXCEPT !.cells = Append(@, BlockOf(r).data[r.f.offset + 1]), !.f.offset = @ + 1, !.f.position = @ + 1]
ReadCell(r) ==
    LET over == r.f.position >= r.f.entry.length /\ ~r.f.entry.isDirectory
        end  == r.f.offset >= BlockCells
    IN IF r.stop \/ over \/ (end /\ BlockOf(r).next = BLOCK_EOF) THEN [r EXCEPT !.stop = TRUE]
       ELSE CellHere(IF end THEN BlockRead(r, BlockOf(r).next) ELSE r)

\* n cells, or as many as there are: r.cells.
OS_fread(r, n) ==
    FoldSeq(LAMBDA i, x : ReadCell(x), [fs |-> r.fs, f |-> r.f, cells |-> <<>>, stop |-> FALSE], [i \in 1 .. n |-> i])

\* The test of file->blockIndex after BlockRead never fails: BlockRead leaves
\* the index alone when there is no block, and the cell goes past the end.
PutCell(c, r) ==
    LET put == IF r.f.offset >= BlockCells THEN [r EXCEPT !.fs.overrun = TRUE]
               ELSE Store(r, [BlockOf(r) EXCEPT !.data[r.f.offset + 1] = c])
    IN [put EXCEPT !.f.offset = @ + 1, !.f.position = @ + 1]
WriteCell(c, r) ==
    LET next == IF BlockOf(r).next = BLOCK_EOF THEN BLOCK_MALLOC ELSE BlockOf(r).next
    IN PutCell(c, IF r.f.offset >= BlockCells THEN [BlockRead(r, next) EXCEPT !.f.blockModified = TRUE] ELSE r)

Written(r) == [r EXCEPT !.f.blockModified = TRUE, !.f.fileModified = TRUE,
                        !.f.entry.length = IF r.f.position > @ THEN r.f.position ELSE @]
OS_fwrite(r, cells) ==
    Written(FoldLeft(LAMBDA x, c : WriteCell(c, x), [r EXCEPT !.f.blockModified = TRUE], cells))

\* Mutant: only one block is stepped over.
SeekOn_short(r, offset) ==
    IF offset > BlockCells THEN [BlockRead(r, BlockOf(r).next) EXCEPT !.f.offset = offset - BlockCells]
    ELSE [r EXCEPT !.f.offset = offset]

RECURSIVE SeekOn(_, _)
SeekOn(r, offset) ==
    IF offset > BlockCells THEN SeekOn(BlockRead(r, BlockOf(r).next), offset - BlockCells)
    ELSE [r EXCEPT !.f.offset = offset]

\* Mutant: the blocks are counted from the current one.
OS_fseek_fromHere(r, offset) == SeekOn([r EXCEPT !.f.position = offset], offset)

OS_fseek(r, offset) ==
    SeekOn(BlockRead([r EXCEPT !.f.position = offset], r.f.entry.block), offset)
=============================================================================
