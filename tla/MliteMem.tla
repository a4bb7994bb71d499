------------------------------ MODULE MliteMem ------------------------------
(***************************************************************************)
(* The memory of the Plasma simulator (trunk/tools/mlite.c): devices,      *)
(* memory in either byte order, and the write-through cache, as operators  *)
(* on the fields mem, big, cache, irqStatus, mask, uart, key, processId,   *)
(* tlb and dead of its State.  A word has Width bits and four bytes, so    *)
(* that a byte has Width / 4 of them; mem holds bytes.                     *)
(***************************************************************************)
EXTENDS Integers, Sequences, FiniteSets, FiniteSetsExt, TLC

-----------------------------------------------------------------------------
(***************************************************************************)
(* Words of Width bits, and how the simulator of the processor             *)
(* (trunk/tools/mlite.c) multiplies them with arithmetic of that width.    *)
(***************************************************************************)

CONSTANT Width   \* bits of a register: 32 in the code

ASSUME WidthAssumption == Width \in Nat /\ Width > 0 /\ Width % 2 = 0

Word == 2 ^ Width
Signed(v)   == IF v >= Word \div 2 THEN v - Word ELSE v
Unsigned(v) == v % Word

HalfBits == Width \div 2
HalfWord == 2 ^ HalfBits
Hi(v) == v \div HalfWord
Lo(v) == v % HalfWord
\* v >> bits of a signed v.
Sra(v, bits) == Unsigned(Signed(v) \div 2 ^ bits)

\* The four partial products, added up with their carries.
Combine(c0, c1a, c1b, c2, c1aHi, c1bHi) ==
    LET c1 == Lo(c1a) + Lo(c1b) + Hi(c0)
    IN [hi |-> Unsigned(c2 + c1aHi + c1bHi + Hi(c1)), lo |-> Unsigned(Lo(c1) * HalfWord + Lo(c0))]

mult_big(a, b) ==
    LET c1a == Unsigned(Hi(a) * Lo(b))
        c1b == Unsigned(Lo(a) * Hi(b))
    IN Combine(Unsigned(Lo(a) * Lo(b)), c1a, c1b, Unsigned(Hi(a) * Hi(b)), Hi(c1a), Hi(c1b))

\* Mutant: the partial products are shifted as if they were not signed.
mult_big_signed_logical(a, b) ==
    LET ahi == Sra(a, HalfBits)
        bhi == Sra(b, HalfBits)
        c1a == Unsigned(ahi * Lo(b))
        c1b == Unsigned(Lo(a) * bhi)
    IN Combine(Unsigned(Lo(a) * Lo(b)), c1a, c1b, Unsigned(ahi * bhi), Hi(c1a), Hi(c1b))

mult_big_signed(a, b) ==
    LET ahi == Sra(a, HalfBits)
        bhi == Sra(b, HalfBits)
        c1a == Unsigned(ahi * Lo(b))
        c1b == Unsigned(Lo(a) * bhi)
    IN Combine(Unsigned(Lo(a) * Lo(b)), c1a, c1b, Unsigned(ahi * bhi), Sra(c1a, HalfBits), Sra(c1b, HalfBits))

(* The product in hi and lo is that of the operands (mult_big and            *)
(* mult_big_signed build it from halves).                                    *)
ProductsExact ==
    \A a, b \in 0 .. Word - 1 :
        /\ LET p == mult_big(a, b) IN p.hi * Word + p.lo = a * b
        /\ LET p == mult_big_signed(a, b) IN Signed(p.hi) * Word + p.lo = Signed(a) * Signed(b)

-----------------------------------------------------------------------------
CONSTANTS
    HALF,         \* half of MEM_SIZE: 2^20
    WINDOW,       \* 0x10000000, the start of the cached memory
    LINES,        \* words of the cache: 1024
    Device,       \* addresses of the devices
    None

ASSUME MemAssumption ==
    /\ Width % 4 = 0 /\ HALF \in Nat \ {0} /\ HALF % 4 = 0 /\ LINES \in Nat \ {0} /\ WINDOW % (2 * HALF) = 0

Byte == 2 ^ (Width \div 4)
Size == 2 * HALF

At(a) == {d \in DOMAIN Device \ {"tlb"} : Device[d] = a}
InTlb(a) == a \in Device["tlb"] .. Device["tlb"] + 16

\* UART_READ_AVAILABLE and UART_WRITE_AVAILABLE of irqStatus.
Ready(s) == [s EXCEPT !.irqStatus = @ \union {"write"}]

Place(a) == IF a \in WINDOW .. WINDOW + HALF - 1 THEN (a % Size) + HALF ELSE a % Size

\* The weight of byte i of an access: the last is the lowest in big endian.
Weight(s, size, i) == Byte ^ (IF s.big THEN size - 1 - i ELSE i)

\* Mutant: only words are swapped.
Weight_words(s, size, i) == Byte ^ (IF s.big /\ size = 4 THEN size - 1 - i ELSE i)

Fetch(s, size, a) ==
    FoldSet(LAMBDA i, acc : acc + (s.mem[(Place(a) + i) % Size]) * Weight(s, size, i), 0, 0 .. size - 1)

Put(s, size, a, v) ==
    [s EXCEPT !.mem = [p \in DOMAIN @ |->
        IF \E i \in 0 .. size - 1 : (Place(a) + i) % Size = p
        THEN LET i == CHOOSE i \in 0 .. size - 1 : (Place(a) + i) % Size = p
             IN (v \div Weight(s, size, i)) % Byte
        ELSE @[p]]]

\* An access that is not aligned fails an assert: the simulator ends.
Dead(s) == [s EXCEPT !.dead = TRUE]

Read(s, v) == [s |-> s, v |-> v]

ReadDevice(s, d) ==
    LET typed == [s EXCEPT !.uart = IF s.key = None THEN @ ELSE s.key, !.key = None,
                           !.irqStatus = @ \ {"read"}]
        seen  == IF s.key = None THEN s ELSE [s EXCEPT !.irqStatus = @ \union {"read"}]
    IN CASE d = "uart"    -> Read(typed, typed.uart)
         [] d = "mask"    -> Read(s, s.mask)
         [] d = "status"  -> Read(seen, (IF "read" \in seen.irqStatus THEN 3 ELSE 2))
         [] d = "process" -> Read(s, s.processId)
         [] OTHER         -> Read(s, 0)

Readable == {"uart", "mask", "sleep", "status", "process", "fault"}

mem_read(s, size, a) ==
    LET d == At(a) \intersect Readable
    IN CASE d # {} -> ReadDevice(Ready(s), CHOOSE x \in d : TRUE)
         [] d = {} /\ a % size # 0 -> Read(Dead(Ready(s)), 0)
         [] OTHER -> Read(Ready(s), Fetch(s, size, a))

WriteDevice(s, d, v) ==
    CASE d = "mask"    -> [s EXCEPT !.mask = v]
      [] d = "status"  -> [s EXCEPT !.irqStatus = (IF v % 2 = 1 THEN {"read"} ELSE {})
                                          \union (IF (v \div 2) % 2 = 1 THEN {"write"} ELSE {})]
      [] d = "process" -> [s EXCEPT !.processId = v]
      [] OTHER         -> s

Writable == {"uart", "mask", "status", "config", "process"}

mem_write(s, size, a, v) ==
    LET d == At(a) \intersect Writable
    IN CASE d # {} -> WriteDevice(s, CHOOSE x \in d : TRUE, v)
         [] d = {} /\ InTlb(a) -> s
         [] d = {} /\ ~InTlb(a) /\ a % size # 0 -> Dead(s)
         [] OTHER -> Put(s, size, a, v)

-----------------------------------------------------------------------------
(* SIMPLE_CACHE: write-through, direct mapped *)

MISS == -1
Cached(a) == a \in WINDOW .. WINDOW + 2 * HALF - 1
Line(a)   == (a \div 4) % LINES
Tag(a)    == a \div (4 * LINES)

\* The bytes of an access within the word of the line.
Part(s, size, a, w) ==
    LET x == IF s.big THEN 3 - (a % 4) ELSE a % 4
    IN CASE size = 2 -> (w \div Byte ^ (2 * (x \div 2))) % Byte ^ 2
         [] size = 1 -> (w \div Byte ^ x) % Byte
         [] OTHER -> w

cache_read(s, size, a) ==
    LET line  == s.cache[Line(a)]
        hit   == line.tag = Tag(a)
        r     == mem_read(s, 4, a - (a % 4))
        v     == IF hit THEN line.data ELSE r.v
        after == IF hit THEN s ELSE [r.s EXCEPT !.cache[Line(a)] = [tag |-> Tag(a), data |-> r.v]]
        check == mem_read(after, size, a)
    IN IF Cached(a) THEN Read(check.s, Part(s, size, a, v)) ELSE mem_read(s, size, a)

\* Mutant: a part of a word leaves the line as it is.
cache_write_stale(s, size, a, v) ==
    LET w == mem_write(s, size, a, v)
    IN IF ~Cached(a) \/ size # 4 THEN w ELSE [w EXCEPT !.cache[Line(a)] = [tag |-> Tag(a), data |-> v]]

cache_write(s, size, a, v) ==
    LET w == mem_write(s, size, a, v)
    IN CASE ~Cached(a) -> w
         [] Cached(a) /\ size # 4 -> [w EXCEPT !.cache[Line(a)].tag = MISS]
         [] OTHER -> [w EXCEPT !.cache[Line(a)] = [tag |-> Tag(a), data |-> v]]
=============================================================================
