------------------------------- MODULE FileSys -------------------------------
(***************************************************************************)
(* The Plasma file system (trunk/kernel/filesys.c): users open, read,      *)
(* write, seek, close and delete files in a directory tree whose root is   *)
(* in RAM and whose directory "flash" is on the flash, and the processor   *)
(* may restart between two calls.  A call runs under mutexFilesys, so that *)
(* it is a step.                                                           *)
(***************************************************************************)
EXTENDS FileMedia

CONSTANTS
    Users,      \* threads; each has one file at most
    NULL,
    Plans       \* what the users of a run do

VARIABLES
    plan, left,  \* the calls of every user, and how many calls are left
    fs,          \* see FileMedia
    file,        \* the OS_FILE of each user
    mutex,       \* who kept mutexFilesys when its call was over
    have, want,  \* what closed files are to hold; what the open one of a user is to
    seen         \* what a user has read last, and what was there

vars == <<plan, left, fs, file, mutex, have, want, seen>>

RootEntry(b) == [name |-> "/", block |-> b, length |-> 0, isDirectory |-> TRUE, valid |-> 1, media |-> "ram"]
NewEntry(name, media) ==
    [name |-> name, block |-> BLOCK_MALLOC, length |-> 0, isDirectory |-> FALSE, valid |-> 1, media |-> media]

Parts(e) == [k \in 1 .. EntryCells |-> <<e, k>>]

\* memset: no block, nothing modified.
Zeroed(e) == [entry |-> e, path |-> <<>>, mode |-> "", fileModified |-> FALSE, blockModified |-> FALSE, index |-> 0,
              offset |-> 0, position |-> 0, block |-> "none", copy |-> Erased]

-----------------------------------------------------------------------------
(* FileOpen, FileFind, FileFindRecursive *)

AtItsStart(r) == [r EXCEPT !.f.entry.block = r.f.index, !.f.position = 0]
\* fresh: the entry is that of a new file.
FileOpen(s, e, fresh) ==
    LET f == [Zeroed(e) EXCEPT !.fileModified = fresh, !.blockModified = fresh]
    IN AtItsStart(BlockRead([fs |-> s, f |-> f], e.block))

\* Back to where the entry was read, or is to be written.
BackTo(r, at) ==
    [(IF r.f.index # at.index THEN BlockRead(r, at.index) ELSE r) EXCEPT !.f.offset = at.offset]

\* The slot of an entry that is gone, but on the flash.
Reuse(r, slot) == slot # NULL /\ r.f.entry.media # "flash"

Here(r) == [index |-> r.f.index, offset |-> r.f.offset]
RECURSIVE FindFrom(_, _, _)
\* read: r after OS_fread of an entry, if there is one.
Examine(read, here, name, slot) ==
    LET next == [fs |-> read.fs, f |-> read.f]
        e    == read.cells[1][1]
        last == Len(read.cells) < EntryCells \/ read.cells[1] = Blank
    IN IF last THEN [r |-> BackTo(next, IF Reuse(read, slot) THEN slot ELSE here), found |-> FALSE]
       ELSE IF e.valid = 1 /\ e.name = name THEN [r |-> BackTo(next, here), found |-> TRUE, entry |-> e]
       ELSE FindFrom(next, name, IF e.valid # 1 /\ slot = NULL THEN here ELSE slot)
FindFrom(r, name, slot) == Examine(OS_fread(r, EntryCells), Here(r), name, slot)

FileFind(r, name) == FindFrom(r, name, NULL)

\* rc = -1: only the last name of the path is missing, -2: a directory is.
RECURSIVE FindBelow(_, _)
\* x: what FileFind returned for the first name.
GoOn(x, path) ==
    IF ~x.found THEN [r |-> x.r, rc |-> IF Len(path) = 1 THEN -1 ELSE -2, entry |-> NewEntry(path[Len(path)], x.r.f.entry.media)]
    ELSE IF Len(path) = 1 THEN [r |-> x.r, rc |-> 0, entry |-> x.entry]
    ELSE FindBelow(FileOpen(x.r.fs, x.entry, FALSE), Tail(path))
FindBelow(r, path) == GoOn(FileFind(r, Head(path)), path)

FileFindRecursive(s, path) == FindBelow(FileOpen(s, s.root, FALSE), path)

-----------------------------------------------------------------------------
(* OS_fclose, OS_fdelete, OS_fopen *)

\* x: the entry and where it is.  One on the flash cannot be written again: the
\* old one is invalidated.
Slot(x, f) ==
    IF f.entry.media = "flash" /\ x.rc = 0
    THEN FileFind(OS_fwrite(x.r, Parts([x.entry EXCEPT !.valid = 0])), "endoffile").r ELSE x.r
Record(s, f) == BlockRead(OS_fwrite(Slot(FileFindRecursive(s, f.path), f), Parts(f.entry)), BLOCK_EOF).fs

\* Mutant: the last block is not written.
Close_unflushed(s, f) == IF ~f.fileModified THEN s ELSE Record(s, f)
Close(s, f) == IF ~f.fileModified THEN s ELSE Record(BlockRead([fs |-> s, f |-> f], BLOCK_EOF).fs, f)

\* Mutant: only the first block is given back.
FreeChain_first(r) == MediaBlockFree(r.fs, r.f.entry.media, r.f.index)

RECURSIVE FreeChain(_)
FreeChain(r) ==
    IF BlockOf(r).next = BLOCK_EOF THEN MediaBlockFree(r.fs, r.f.entry.media, r.f.index)
    ELSE LET next == BlockRead(r, BlockOf(r).next)
         IN FreeChain([next EXCEPT !.fs = MediaBlockFree(@, r.f.entry.media, r.f.index)])

\* x: the entry and where it is.
Deleted(x) ==
    IF x.rc # 0 THEN x.r.fs
    ELSE LET gone == FreeChain(FileOpen(x.r.fs, x.entry, FALSE))
         IN BlockRead(OS_fwrite([x.r EXCEPT !.fs = gone], Parts([x.entry EXCEPT !.valid = 0])), BLOCK_EOF).fs
OS_fdelete(s, path) == Deleted(FileFindRecursive(s, path))

Opens(r) == [fs |-> r.fs, f |-> r.f, kept |-> FALSE]
Fails(s) == [fs |-> s, f |-> NULL, kept |-> FALSE]

\* What OS_fopen does with the entry it has found, x, in s.
OpenAt(s, x, path, mode) ==
    LET new == [FileOpen(x.r.fs, x.entry, x.rc # 0) EXCEPT !.f.path = path, !.f.mode = mode]
    IN IF x.rc = -2 \/ (x.rc # 0 /\ mode = "r") THEN Fails(s)
       ELSE IF mode = "a" THEN Opens(OS_fseek(new, x.entry.length)) ELSE Opens(new)

\* old: what is there before.  It returns without OS_MutexPost for a directory.
Replace(s, old, path) ==
    IF old.rc = 0 /\ old.entry.isDirectory THEN [Fails(s) EXCEPT !.kept = TRUE]
    ELSE LET t == IF old.rc = 0 THEN OS_fdelete(s, path) ELSE s
         IN OpenAt(t, FileFindRecursive(t, path), path, "w")

\* f = NULL: the file is not opened; kept: the mutex is not given back.
OS_fopen(s, path, mode) ==
    IF path = <<>> THEN Opens(FileOpen(s, s.root, FALSE))
    ELSE IF mode = "w" THEN Replace(s, FileFindRecursive(s, path), path)
    ELSE OpenAt(s, FileFindRecursive(s, path), path, mode)

\* The first OS_fopen: the root, and the entry of the flash, whose first block
\* in RAM is lost when the file becomes one of the flash.
WithRoot(r) == [r.fs EXCEPT !.root = RootEntry(r.f.index)]
Begun(r)    == Close(r.fs, [r.f EXCEPT !.entry.block = r.f.index])
OnTheFlash(s, f) ==
    Begun(BlockRead([fs |-> s, f |-> [f EXCEPT !.entry.isDirectory = TRUE, !.entry.media = "flash", !.block = "none"]],
                    IF Start \in s.empty THEN BLOCK_MALLOC ELSE Start))
Mounted(s) ==
    LET root == WithRoot(BlockRead([fs |-> s, f |-> Zeroed(NewEntry("", "ram"))], BLOCK_MALLOC))
        open == OS_fopen(root, <<"flash">>, "w")
    IN OnTheFlash(MediaBlockInit(open.fs), open.f)

-----------------------------------------------------------------------------
(* The calls *)

Paths == DOMAIN have   \* of files
Kept(path) == IF path \in Paths /\ have[path] # NULL THEN have[path] ELSE <<>>
Unmounted == fs.root.block = 0
Holders(path) == {u \in Users : file[u] # NULL /\ file[u].path = path}
OnFlash(path) == path # <<>> /\ path[1] = "flash"

Calls(u, op) == {c \in plan.calls[u] : c.op = op}
Free(u) == left[u] > 0 /\ mutex \in {NULL, u}
Spend(u) == left' = [left EXCEPT ![u] = @ - 1] /\ UNCHANGED plan

\* What the callers see to: what is open elsewhere is neither replaced nor deleted.
\* A file on the flash whose writer a restart has cut off is not appended to.
MayOpen(path, mode) ==
    /\ \A v \in Holders(path) : mode = "r" /\ file[v].mode = "r"
    /\ mode = "a" => path \notin plan.torn

\* r: what OS_fopen returned.
Gives(u, r) == fs' = r.fs /\ file' = [file EXCEPT ![u] = r.f] /\ mutex' = IF r.kept THEN u ELSE NULL

Fopen(u) ==
    /\ Free(u) /\ file[u] = NULL
    /\ \E c \in Calls(u, "open") :
          /\ MayOpen(c.path, c.mode)
          /\ Gives(u, OS_fopen(IF Unmounted THEN Mounted(fs) ELSE fs, c.path, c.mode))
          /\ want' = [want EXCEPT ![u] = IF c.mode = "w" THEN <<>> ELSE Kept(c.path)]
          /\ have' = IF c.mode = "w" /\ file'[u] # NULL THEN [have EXCEPT ![c.path] = NULL] ELSE have
    /\ seen' = [seen EXCEPT ![u] = NULL]
    /\ Spend(u)

\* OS_fmkdir: the file is made a directory before it is closed.
AsDirectory(r) == IF r.f = NULL THEN r ELSE [r EXCEPT !.f.entry.isDirectory = TRUE]
Fmkdir(u) ==
    /\ Free(u) /\ file[u] = NULL /\ ~Unmounted
    /\ \E c \in Calls(u, "mkdir") : Holders(c.path) = {} /\ Gives(u, AsDirectory(OS_fopen(fs, c.path, "w")))
    /\ want' = [want EXCEPT ![u] = NULL]
    /\ Spend(u) /\ UNCHANGED <<have, seen>>

IsOpen(u) == Free(u) /\ file[u] # NULL /\ want[u] # NULL

\* Bound: plan.size, the cells of a file.
Fwrite(u) ==
    /\ IsOpen(u) /\ file[u].mode # "r"
    /\ (OnFlash(file[u].path) => file[u].position = Len(want[u]))
    /\ \E c \in Calls(u, "write") :
          LET r  == OS_fwrite([fs |-> fs, f |-> file[u]], [i \in 1 .. c.n |-> <<c.v>>])
              at == file[u].position
          IN /\ at + c.n <= plan.size
             /\ fs' = r.fs /\ file' = [file EXCEPT ![u] = r.f]
             /\ want' = [want EXCEPT ![u] =
                    [i \in 1 .. Max({Len(@), at + c.n}) |-> IF i \in at + 1 .. at + c.n THEN <<c.v>> ELSE @[i]]]
    /\ Spend(u) /\ UNCHANGED <<mutex, have, seen>>

Fread(u) ==
    /\ IsOpen(u) /\ ~file[u].entry.isDirectory
    /\ \E c \in Calls(u, "read") :
          LET r == OS_fread([fs |-> fs, f |-> file[u]], c.n)
          IN /\ fs' = r.fs /\ file' = [file EXCEPT ![u] = r.f]
             /\ seen' = [seen EXCEPT ![u] = [cells |-> r.cells,
                     there |-> SubSeq(want[u], file[u].position + 1, Min({file[u].position + c.n, Len(want[u])}))]]
    /\ Spend(u) /\ UNCHANGED <<mutex, have, want>>

Fseek(u) ==
    /\ IsOpen(u)
    /\ \E c \in Calls(u, "seek") :
          LET to == CASE c.mode = "set" -> c.offset
                      [] c.mode = "cur" -> c.offset + file[u].position
                      [] c.mode = "end" -> c.offset + file[u].entry.length
              r  == OS_fseek([fs |-> fs, f |-> file[u]], to)
          IN /\ to \in 0 .. file[u].entry.length
             /\ fs' = r.fs /\ file' = [file EXCEPT ![u] = r.f]
    /\ Spend(u) /\ UNCHANGED <<mutex, have, want, seen>>

Fclose(u) ==
    /\ file[u] # NULL /\ mutex \in {NULL, u}
    /\ fs' = Close(fs, file[u])
    /\ file' = [file EXCEPT ![u] = NULL] /\ seen' = [seen EXCEPT ![u] = NULL]
    /\ have' = IF file[u].fileModified /\ want[u] # NULL THEN [have EXCEPT ![file[u].path] = want[u]] ELSE have
    /\ UNCHANGED <<plan, left, mutex, want>>

Fdelete(u) ==
    /\ Free(u) /\ ~Unmounted
    /\ \E c \in Calls(u, "delete") :
          /\ Holders(c.path) = {}
          /\ fs' = OS_fdelete(fs, c.path)
          /\ have' = [have EXCEPT ![c.path] = NULL]
    /\ Spend(u) /\ UNCHANGED <<file, mutex, want, seen>>

\* OS_fdir: the next valid entry.  It reads; where the directory is then is all it changes.
RECURSIVE NextValid(_)
NextValid(r) ==
    LET x == OS_fread(r, EntryCells)
    IN IF Len(x.cells) < EntryCells \/ x.cells[1] = Blank \/ x.cells[1][1].valid = 1
       THEN [fs |-> x.fs, f |-> x.f] ELSE NextValid([fs |-> x.fs, f |-> x.f])

Fdir(u) ==
    /\ IsOpen(u) /\ file[u].entry.isDirectory /\ Calls(u, "dir") # {}
    /\ LET r == NextValid([fs |-> fs, f |-> file[u]])
       IN fs' = r.fs /\ file' = [file EXCEPT ![u] = r.f]
    /\ Spend(u) /\ UNCHANGED <<mutex, have, want, seen>>

Powered(s) == [s EXCEPT !.free = RamBlocks, !.root = RootEntry(0), !.empty = {}, !.used = {}, !.scan = 0,
                        !.disk = [b \in DOMAIN @ |-> IF b \in RamBlocks THEN Erased ELSE @[b]]]

\* What is in RAM is lost, open files with it.  Bound: plan.restarts.
Restart ==
    /\ plan.restarts > 0 /\ ~Unmounted
    /\ plan' = [plan EXCEPT !.restarts = @ - 1,
                            !.torn = {p \in Paths : \E u \in Holders(p) : OnFlash(p) /\ file[u].mode # "r"}]
    /\ fs' = Powered(fs)
    /\ file' = [u \in Users |-> NULL] /\ seen' = [u \in Users |-> NULL] /\ mutex' = NULL
    /\ have' = [p \in Paths |-> IF OnFlash(p) THEN have[p] ELSE NULL]
    /\ UNCHANGED <<left, want>>

Init ==
    /\ plan \in Plans /\ left = plan.left
    /\ fs = Powered([disk |-> [b \in RamBlocks \union FlashBlocks |-> Erased], overrun |-> FALSE, free |-> {},
                     empty |-> {}, used |-> {}, scan |-> 0, root |-> RootEntry(0),
                     onFlash |-> [empty |-> FlashBlocks, used |-> FlashBlocks]])
    /\ file = [u \in Users |-> NULL] /\ seen = [u \in Users |-> NULL] /\ mutex = NULL
    /\ have = [p \in plan.paths |-> NULL] /\ want = [u \in Users |-> NULL]

Next ==
    \/ Restart
    \/ \E u \in Users : \/ Fopen(u) \/ Fmkdir(u) \/ Fwrite(u) \/ Fread(u) \/ Fseek(u)
                        \/ Fclose(u) \/ Fdelete(u) \/ Fdir(u)

Spec == Init /\ [][Next]_vars

-----------------------------------------------------------------------------
(* Properties *)

TypeOK ==
    /\ fs.free \subseteq RamBlocks /\ fs.empty \subseteq FlashBlocks /\ fs.used \subseteq FlashBlocks
    /\ \A b \in DOMAIN fs.disk : fs.disk[b].next \in DOMAIN fs.disk \union {BLOCK_EOF}
                                 /\ Len(fs.disk[b].data) = BlockCells
    /\ \A u \in Users : file[u] # NULL => file[u].offset \in 0 .. BlockCells /\ file[u].block # "none"

\* The blocks from b on, whatever they are linked to.
Chain(b) ==
    LET at[k \in 0 .. Cardinality(DOMAIN fs.disk)] ==
            IF k = 0 THEN b ELSE IF at[k - 1] > 0 THEN fs.disk[at[k - 1]].next ELSE BLOCK_EOF
    IN SelectSeq([k \in 1 .. Cardinality(DOMAIN fs.disk) + 1 |-> at[k - 1]], LAMBDA x : x > 0)

EntriesIn(b) ==
    LET cells == FlattenSeq([i \in 1 .. Len(Chain(b)) |-> fs.disk[Chain(b)[i]].data])
    IN {e \in {c[1] : c \in {x \in ToSet(cells) : Len(x) = 2}} : e.valid = 1}

RECURSIVE Below(_)
Below(e) == {e} \union IF e.isDirectory THEN UNION {Below(x) : x \in EntriesIn(e.block)} ELSE {}

\* The entries of the tree, and those of open files that are not in it yet.
Tree    == IF Unmounted THEN {} ELSE Below(fs.root)
Heads   == {e.block : e \in Tree} \union {file[u].entry.block : u \in {v \in Users : file[v] # NULL}}
InUse   == UNION {ToSet(Chain(b)) : b \in Heads}

(* A file that was closed reads back as what was written to it, whatever    *)
(* others create, replace and delete in the same directories, and files on  *)
(* the flash also after a restart; a deleted one is not found (OS_fclose,   *)
(* FileFind, OS_fread).                                                     *)
StoredIsKept ==
    ~Unmounted => \A p \in Paths : Holders(p) = {} =>
        LET x == FileFindRecursive(fs, p)
            r == OS_fread(FileOpen(fs, x.entry, FALSE), Len(have[p]) + 1)
        IN IF have[p] = NULL THEN x.rc # 0 ELSE x.rc = 0 /\ r.cells = have[p]

(* No block belongs to two files, or to one and to those that malloc or     *)
(* MediaBlockMalloc may hand out.                                           *)
BlocksNotShared ==
    LET heads == Heads
        chain == [b \in heads |-> Chain(b)]
    IN /\ \A b, c \in heads : b # c => ToSet(chain[b]) \intersect ToSet(chain[c]) = {}
       /\ \A b \in heads : IsInjective(chain[b]) /\ ToSet(chain[b]) \intersect (fs.free \union fs.empty) = {}

(* A block of RAM is free or belongs to a file, but for the one that the    *)
(* mount loses (OS_fdelete gives every block back).                         *)
NothingLeaked ==
    LET used == InUse IN ~Unmounted => Cardinality(RamBlocks \ (fs.free \union used)) <= 1

(* Every block has one owner at most, and one of RAM has one at least.      *)
BlocksRight == TypeOK /\ BlocksNotShared /\ NothingLeaked

(* A block that the flash counts as empty is erased, before and after a     *)
(* restart: MediaBlockMalloc never hands out one whose bits are burnt, and  *)
(* no block holds what could not be written over.                           *)
EmptyIsErased ==
    /\ \A b \in fs.onFlash.empty : fs.disk[b] = Erased
    /\ \A b \in FlashBlocks : <<-1>> \notin ToSet(fs.disk[b].data)

(* What a user reads from its open file is what is there from its position  *)
(* on: seeking, reading and appending across blocks agree on the position.  *)
ReadsRight == \A u \in Users : seen[u] # NULL => seen[u].cells = seen[u].there
=============================================================================
