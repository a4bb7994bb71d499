------------------------------ MODULE MliteCpu ------------------------------
(***************************************************************************)
(* The Plasma simulator (trunk/tools/mlite.c): one instruction a cycle     *)
(* under the debugger, with delay slots, likely branches, exceptions and   *)
(* memory.  What the memory holds at pc is any instruction of code: the    *)
(* decoded fields of an opcode.  Code is outside of the cached window.     *)
(***************************************************************************)
EXTENDS MliteMem, Bitwise

CONSTANTS
    Starts,        \* initial registers, byte order, keys that will be typed, and code: a set
                   \* of instructions [op, rs, rt, rd, re, imm] with imm sign-extended
    Registers,     \* indexes that the instructions use, 0 and 31 among them
    VECTOR,        \* 0x3c
    Jumps,         \* addresses that are given to the debugger
    MaxCycles      \* bound: instructions of a run

VARIABLES
    s,        \* the struct State
    code,     \* the instructions that the memory may hold
    mode,     \* "prompt", or "go": cycles follow until wakeup or the break point
    cycles,
    keys,     \* what has still to be typed
    bytes,    \* what the stores have put into memory, byte by byte
    last      \* what the last instruction did to the flow

vars == <<s, code, mode, cycles, keys, bytes, last>>

-----------------------------------------------------------------------------
(* Arithmetic *)

Abs(x) == IF x < 0 THEN -x ELSE x
\* C division of signed numbers rounds to zero.
Quotient(a, b) == (Abs(a) \div Abs(b)) * (IF a < 0 <=> b < 0 THEN 1 ELSE -1)

B2W(b) == IF b THEN 1 ELSE 0

\* The instructions that set a register from two values; the others keep it.
Alu(op, a, b, i, old) ==
    CASE op = "SLL"  -> Unsigned(b * 2 ^ i.re)        [] op = "SLLV" -> Unsigned(b * 2 ^ (a % Width))
      [] op = "SRL"  -> b \div 2 ^ i.re               [] op = "SRLV" -> b \div 2 ^ (a % Width)
      [] op = "SRA"  -> Sra(b, i.re)                  [] op = "SRAV" -> Sra(b, a % Width)
      [] op = "MOVZ" -> IF b = 0 THEN a ELSE old      [] op = "MOVN" -> IF b # 0 THEN a ELSE old
      [] op \in {"ADD", "DADDU"} -> Unsigned(a + b)   [] op = "SUB"  -> Unsigned(a - b)
      [] op = "AND"  -> a & b                         [] op = "OR"   -> a | b
      [] op = "XOR"  -> a ^^ b                        [] op = "NOR"  -> Word - 1 - (a | b)
      [] op = "SLT"  -> B2W(Signed(a) < Signed(b))    [] op = "SLTU" -> B2W(a < b)
      [] op = "ADDI" -> Unsigned(a + i.imm)           [] op = "SLTI" -> B2W(Signed(a) < i.imm)
      [] op = "SLTIU" -> B2W(a < Unsigned(i.imm))     [] op = "LUI"  -> Unsigned(i.imm * HalfWord)
      [] op = "ANDI" -> a & Lo(i.imm)                 [] op = "ORI"  -> a | Lo(i.imm)
      [] op = "XORI" -> a ^^ Lo(i.imm)                [] OTHER -> old

ToRd == {"SLL", "SRL", "SRA", "SLLV", "SRLV", "SRAV", "MOVZ", "MOVN", "ADD", "DADDU", "SUB", "AND", "OR",
         "XOR", "NOR", "SLT", "SLTU"}
ToRt == {"ADDI", "SLTI", "SLTIU", "ANDI", "ORI", "XORI", "LUI"}

-----------------------------------------------------------------------------
(* Memory instructions *)

Bytes == [LB |-> 1, LBU |-> 1, SB |-> 1, LH |-> 2, LHU |-> 2, SH |-> 2, LW |-> 4, LL |-> 4, SW |-> 4, SC |-> 4]
Loads  == {"LB", "LBU", "LH", "LHU", "LW", "LL"}
Stores == {"SB", "SH", "SW", "SC"}

\* (signed char) and (signed short) of what was read.
Extend(op, v) ==
    LET n == Byte ^ Bytes[op]
    IN IF op \in {"LB", "LH"} /\ v >= n \div 2 THEN Unsigned(v - n) ELSE v

\* ptr is computed before r[0] is cleared.
Pointer(c, i) == Unsigned(i.imm + c.r[i.rs])

Load(c, i, ptr) ==
    LET m == cache_read(c, Bytes[i.op], ptr) IN [m.s EXCEPT !.r[i.rt] = Extend(i.op, m.v)]

StoreTo(c, i, ptr) ==
    LET m == cache_write(c, Bytes[i.op], ptr, c.r[i.rt] % Byte ^ Bytes[i.op])
    IN IF i.op = "SC" THEN [m EXCEPT !.r[i.rt] = 1] ELSE m

-----------------------------------------------------------------------------
(* Branches.  pc_next is already the address after the delay slot. *)

Link(i) == IF i.op \in {"BLTZAL", "BGEZAL", "BLTZALL", "BGEZALL", "JAL"} THEN {31}
           ELSE IF i.op = "JALR" THEN {i.rd} ELSE {}

Condition(op, a, b) ==
    CASE op \in {"BEQ", "BEQL"}   -> a = b              [] op \in {"BNE", "BNEL"}   -> a # b
      [] op \in {"BLEZ", "BLEZL"} -> Signed(a) <= 0     [] op \in {"BGTZ", "BGTZL"} -> Signed(a) > 0
      [] op \in {"BLTZ", "BLTZAL", "BLTZL", "BLTZALL"} -> Signed(a) < 0
      [] op \in {"BGEZ", "BGEZAL", "BGEZL", "BGEZALL"} -> Signed(a) >= 0
      [] OTHER -> FALSE

Likely   == {"BEQL", "BNEL", "BLEZL", "BGTZL", "BLTZL", "BGEZL", "BLTZALL", "BGEZALL"}
Branches == Likely \union {"BEQ", "BNE", "BLEZ", "BGTZ", "BLTZ", "BGEZ", "BLTZAL", "BGEZAL"}
Jumpers  == {"J", "JAL", "JR", "JALR"}

Aligned(v) == v - (v % 4)

\* Mutant: the low bits of a register stay in the address.
BranchTo_raw(c, i, taken) ==
    CASE i.op \in {"JR", "JALR"} -> c.r[i.rs]
      [] i.op \in {"J", "JAL"}   -> i.imm
      [] OTHER -> IF taken THEN Unsigned(c.pc_next + 4 * i.imm - 4) ELSE c.pc_next

\* (pc & 0xf0000000) | target: the instructions stay in one segment.
BranchTo(c, i, taken) ==
    CASE i.op \in {"JR", "JALR"} -> Aligned(c.r[i.rs])
      [] i.op \in {"J", "JAL"}   -> i.imm
      [] OTHER -> IF taken THEN Unsigned(c.pc_next + 4 * i.imm - 4) ELSE c.pc_next

-----------------------------------------------------------------------------
(* cycle *)

MoveTo0(c, i) ==
    LET v == c.r[i.rt]
    IN [c EXCEPT !.status = v % 2, !.userMode = @ \/ (c.processId # 0 /\ (v \div 2) % 2 = 1)]

\* What the instruction does to everything but the flow; the registers hold
\* their old values in c, where pc and pc_next have moved on.
Execute(c, i, ptr) ==
    LET a == c.r[i.rs]
        b == c.r[i.rt]
        p == IF i.op = "MULT" THEN mult_big_signed(a, b) ELSE mult_big(a, b)
        linked == [c EXCEPT !.r = [x \in Registers |-> IF x \in Link(i) THEN c.pc_next ELSE c.r[x]]]
    IN CASE i.op \in ToRd -> [c EXCEPT !.r[i.rd] = Alu(i.op, a, b, i, @)]
         [] i.op \in ToRt -> [c EXCEPT !.r[i.rt] = Alu(i.op, a, b, i, @)]
         [] i.op \in {"MULT", "MULTU"} -> [c EXCEPT !.hi = p.hi, !.lo = p.lo]
         [] i.op \in {"DIV", "DIVU"} /\ b = 0 -> Dead(c)
         [] i.op = "DIV"  /\ b # 0 -> [c EXCEPT !.lo = Unsigned(Quotient(Signed(a), Signed(b))),
                                      !.hi = Unsigned(Signed(a) - Quotient(Signed(a), Signed(b)) * Signed(b))]
         [] i.op = "DIVU" /\ b # 0 -> [c EXCEPT !.lo = a \div b, !.hi = a % b]
         [] i.op = "MFHI" -> [c EXCEPT !.r[i.rd] = c.hi]  [] i.op = "MTHI" -> [c EXCEPT !.hi = a]
         [] i.op = "MFLO" -> [c EXCEPT !.r[i.rd] = c.lo]  [] i.op = "MTLO" -> [c EXCEPT !.lo = a]
         [] i.op = "MFC0" -> [c EXCEPT !.r[i.rt] = IF i.rd = 12 THEN c.status ELSE c.epc]
         [] i.op = "MTC0" -> MoveTo0(c, i)
         [] i.op \in Loads  -> Load(c, i, ptr)
         [] i.op \in Stores -> StoreTo(c, i, ptr)
         [] i.op \in {"SYSCALL", "BREAK"} -> [c EXCEPT !.exceptionId = 1]
         [] i.op \in {"SYNC", "UNKNOWN"}  -> [c EXCEPT !.wakeup = TRUE]
         [] OTHER -> linked

\* Mutant: the instruction after a syscall is executed.
Except_noSkip(c, i, old, epc) ==
    [c EXCEPT !.r[i.rt] = old, !.epc = epc, !.pc_next = VECTOR, !.exceptionId = 0, !.userMode = FALSE]

Except(c, i, old, epc) ==
    [c EXCEPT !.r[i.rt] = old, !.epc = epc, !.pc_next = VECTOR, !.skip = TRUE,
              !.exceptionId = 0, !.userMode = FALSE]

Epc(c) == Unsigned(c.pc + 4) + 1 + (IF c.pc_next # Unsigned(c.pc + 4) THEN 2 ELSE 0)

Advance(c) == [Ready(c) EXCEPT !.pc = c.pc_next, !.pc_next = Unsigned(c.pc_next + 4), !.r[0] = 0]

\* The cycle that a pending skip turns into nothing.
Skipped(c) == [Advance(c) EXCEPT !.skip = FALSE]

\* c: after Execute.
Flowed(c, i) ==
    LET taken == Condition(i.op, c.r[i.rs], c.r[i.rt])
    IN [c EXCEPT !.pc_next = IF i.op \in Branches \union Jumpers THEN BranchTo(c, i, taken) ELSE @,
                 !.skip = i.op \in Likely /\ ~taken]

Trapped(c, i, old, epc) == IF c.exceptionId # 0 THEN Except(c, i, old, epc) ELSE c

Cycle(c, i) == Trapped(Flowed(Execute(Advance(c), i, Pointer(c, i)), i), i, Advance(c).r[i.rt], Epc(c))

-----------------------------------------------------------------------------
(* What the instructions mean, to the flow and to the memory *)

\* The target that the architecture gives: the delay slot's address and the offset.
Target(c, i) ==
    CASE i.op \in {"JR", "JALR"} -> Aligned(IF i.rs = 0 THEN 0 ELSE c.r[i.rs])
      [] i.op \in {"J", "JAL"}   -> i.imm
      [] OTHER -> Unsigned(c.pc + 4 + 4 * i.imm)

Val(c, x) == IF x = 0 THEN 0 ELSE c.r[x]

Meaning(c, i) ==
    LET taken == Condition(i.op, Val(c, i.rs), Val(c, i.rt))
    IN CASE i.op \in Jumpers \/ (i.op \in Branches /\ taken) -> [kind |-> "taken", to |-> Target(c, i)]
         [] i.op \in Likely /\ ~taken -> [kind |-> "annulled", to |-> 0]
         [] i.op \in {"SYSCALL", "BREAK"} -> [kind |-> "trap", to |-> 0]
         [] OTHER -> [kind |-> "plain", to |-> 0]

\* The bytes in memory order: big endian stores the high byte first.
Stored(c, i) ==
    LET n   == Bytes[i.op]
        ptr == Pointer(c, i)
        v   == Val(c, i.rt)
        byteOf(k) == (v \div Byte ^ (IF c.big THEN n - 1 - k ELSE k)) % Byte
    IN IF i.op \in Stores /\ ptr % n = 0 /\ ptr < Device["uart"]
       THEN [p \in DOMAIN bytes |-> IF \E k \in 0 .. n - 1 : Place(ptr + k) = p
                                    THEN byteOf(CHOOSE k \in 0 .. n - 1 : Place(ptr + k) = p) ELSE bytes[p]]
       ELSE bytes

-----------------------------------------------------------------------------
\* Instructions in the delay slot of a taken branch are not branches, and the
\* memory has one address: what the cache holds is not written around it.
Legal(c, i) ==
    /\ c.pc_next # Unsigned(c.pc + 4) => i.op \notin Branches \union Jumpers
    /\ i.op \in Stores /\ ~Cached(Pointer(c, i)) => Pointer(c, i) % Size < HALF \/ Pointer(c, i) >= Device["uart"]

Step ==
    /\ cycles < MaxCycles /\ ~s.dead
    /\ cycles' = cycles + 1 /\ UNCHANGED <<code, keys>>
    /\ IF s.skip THEN s' = Skipped(s) /\ UNCHANGED <<bytes, last>>
       ELSE \E i \in code :
                /\ Legal(s, i)
                /\ s' = Cycle(s, i)
                /\ last' = Meaning(s, i)
                /\ bytes' = Stored(s, i)

\* The debug and step commands, and the first cycle of "go".
CommandStep == mode = "prompt" /\ Step /\ UNCHANGED mode
CommandGo   == mode = "prompt" /\ mode' = "go" /\ s' = [s EXCEPT !.wakeup = FALSE] /\ UNCHANGED <<code, cycles, keys, bytes, last>>

\* The break point is any address.
Running == mode = "go" /\ Step /\ (mode' = "prompt" \/ (~s'.wakeup /\ mode' = mode))

CommandJump ==
    /\ mode = "prompt" /\ ~s.dead
    /\ \E a \in Jumps : s' = [s EXCEPT !.pc = a, !.pc_next = Unsigned(a + 4)]
    /\ last' = [kind |-> "moved", to |-> 0]
    /\ UNCHANGED <<code, mode, cycles, keys, bytes>>

\* The memory command reads through the cache.
CommandMemory ==
    /\ mode = "prompt" /\ ~s.dead
    /\ s' = cache_read(s, 4, WINDOW).s
    /\ UNCHANGED <<code, mode, cycles, keys, bytes, last>>

KeyTyped ==
    /\ s.key = None /\ ~s.dead
    /\ \E k \in keys : s' = [s EXCEPT !.key = k] /\ keys' = keys \ {k}
    /\ UNCHANGED <<code, mode, cycles, bytes, last>>

InitWith(b) ==
    /\ code = b.code /\ keys = b.keys
    /\ s = [r |-> b.r, pc |-> 0, pc_next |-> 4, epc |-> 0, hi |-> 0, lo |-> 0, status |-> 0,
            userMode |-> FALSE, processId |-> 0, exceptionId |-> 0, irqStatus |-> {}, skip |-> FALSE,
            wakeup |-> FALSE, big |-> b.big, dead |-> FALSE, uart |-> 0, mask |-> 0, key |-> None,
            mem |-> [p \in 0 .. Size - 1 |-> 0], cache |-> [n \in 0 .. LINES - 1 |-> [tag |-> MISS, data |-> 0]]]
    /\ mode = "prompt" /\ cycles = 0
    /\ bytes = [p \in 0 .. Size - 1 |-> 0] /\ last = [kind |-> "none", to |-> 0]
Init == \E b \in Starts : InitWith(b)

Next == CommandStep \/ CommandGo \/ Running \/ CommandJump \/ CommandMemory \/ KeyTyped

Spec == Init /\ [][Next]_vars

-----------------------------------------------------------------------------
(* Properties *)

TypeOK ==
    /\ s.r \in [Registers -> 0 .. Word - 1] /\ {s.hi, s.lo} \subseteq 0 .. Word - 1
    /\ {s.pc, s.pc_next} \subseteq {a \in 0 .. Word - 1 : a % 4 = 0}
    /\ s.mem \in [0 .. Size - 1 -> 0 .. Byte - 1] /\ s.exceptionId = 0
    /\ mode \in {"prompt", "go"} /\ s.dead \in BOOLEAN

(* Whatever was stored by words, halves and bytes, through the cache and     *)
(* around it, in either byte order: memory holds those bytes, and a load of  *)
(* any size reads them (mem_write, cache_read, cache_write).                 *)
LoadsSeeStores ==
    ~s.dead => \A size \in {1, 2, 4}, a \in WINDOW .. WINDOW + 2 * HALF - 1 : a % size = 0 =>
        LET want == [k \in 0 .. size - 1 |-> bytes[Place(a + k)]]
        IN cache_read(s, size, a).v =
             FoldSet(LAMBDA k, acc : acc + want[k] * Byte ^ (IF s.big THEN size - 1 - k ELSE k), 0, 0 .. size - 1)

(* Registers and memory keep their widths, and memory what was stored.       *)
StateRight == TypeOK /\ LoadsSeeStores

(* Instructions are executed in the order of the architecture: a delay slot  *)
(* once, before the target; none after a likely branch that is not taken and *)
(* none between an exception and its handler, whose epc is the address after *)
(* the instruction (cycle: pc, pc_next, skip).                               *)
Flow == INSTANCE MipsFlow WITH
    Space <- Word, Vector <- VECTOR, last <- last,
    pc  <- IF s.skip THEN s.pc_next ELSE s.pc,
    npc <- IF s.skip THEN Unsigned(s.pc_next + 4) ELSE s.pc_next,
    epc <- [at |-> Aligned(s.epc), slot |-> (s.epc \div 2) % 2 = 1]

FlowSpec == Flow!Spec

=============================================================================
