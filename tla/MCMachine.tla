------------------------------ MODULE MCMachine ------------------------------
(* Code for the run of MliteCpu, Arith and Bootldr: the simulated machine, on *)
(* four sets of instructions, a call of a function of the kernel's libraries, *)
(* or the boot loader of the board, with words of two bytes.                  *)
EXTENDS MliteCpu

CONSTANT SoftBits
VARIABLES call, result, part, boot

\* The calls are those that MCArith lists: its Init is part of MCInit.
Library == INSTANCE MCArith WITH Calls <- {}

\* The products of mlite.c are exact for every pair of operands (mult_big,
\* mult_big_signed): TLC evaluates it once.
ASSUME ProductsExact


MCDevice == [uart |-> 192, mask |-> 196, sleep |-> 200, status |-> 204, config |-> 208,
             process |-> 212, fault |-> 216, tlb |-> 224]

I(op, rs, rt, imm) == [op |-> op, rs |-> rs, rt |-> rt, rd |-> 2, re |-> 3, imm |-> imm]
Regs(a, b, c) == 0 :> 0 @@ 1 :> a @@ 2 :> b @@ 31 :> c
Run(r, big, is, typed) == [r |-> r, big |-> big, code |-> is, keys |-> typed]

\* r1 and r31 point to the two names of the same word; 27 has four different bytes.
Access == UNION {{I("SB", 1, 2, n), I("LBU", 31, 2, n)} : n \in {-1, 0}}
          \union UNION {{I("SW", b, 2, n), I("LW", b, 2, n)} : b \in {1, 31}, n \in {-2, 2}}
          \union {I("SH", 1, 2, 0), I("SH", 31, 2, -2), I("LH", 1, 2, 0), I("LB", 1, 2, 1), I("SC", 1, 2, 2), I("SW", 1, 2, -1)}
Branch == {I("BEQ", 1, 2, 3), I("BNE", 1, 2, -2), I("BNEL", 1, 2, 5), I("BEQL", 1, 2, 5), I("BLEZ", 2, 0, 2),
           I("BGTZL", 2, 0, 2), I("BLTZAL", 1, 0, 4), I("BGEZALL", 1, 0, 4), I("J", 0, 0, 32), I("JAL", 0, 0, 16),
           I("JR", 31, 0, 0), I("JALR", 1, 0, 0), I("SYSCALL", 0, 2, 0), I("ADDI", 2, 1, 1), I("SYNC", 0, 0, 0),
           I("MTC0", 0, 1, 0), [I("MFC0", 0, 1, 0) EXCEPT !.rd = 2]}
Compute == {I(op, 1, 2, -3) : op \in ToRd \union ToRt \union {"MULT", "MULTU", "DIV", "DIVU", "MFHI", "MTHI", "MFLO", "MTLO"}}
Devices == {I("LW", 1, 2, n) : n \in {0, 4, 12, 20, 24}} \union {I("SW", 1, 2, n) : n \in {0, 4, 12, 16, 20, 32}}
           \union {I("MTC0", 1, 2, 0), [I("MFC0", 0, 2, 0) EXCEPT !.rd = 12]}

MCStarts == {Run(Regs(130, 27, 138), big, Access, {}) : big \in BOOLEAN}
            \union {Run(Regs(5, 5, 24), TRUE, Branch, {}), Run(Regs(250, 9, 8), TRUE, Compute, {}), Run(Regs(192, 3, 0), TRUE, Devices, {1})}

\* Numbers as they are typed: 10, 12 (the password here), 2 and a backspace and
\* 14, 4 after two backspaces, a number that is longer than a word, and "gz".
MCNumbers == {<<49, 48, 10>>, <<49, 50, 13>>, <<50, 8, 49, 52, 10>>, <<49, 8, 8, 52, 10>>,
              <<49, 65, 97, 51, 49, 48, 10>>, <<103, 122, 13>>}
MCImages  == {<<60, 28, 7, 9>>, <<60, 28, 200, 255, 3, 4, 5>>, <<60, 1>>, <<8, 250>>}
Board == INSTANCE Bootldr WITH WORD_BYTES <- 2, MAX_DIGITS <- 6, RAM_BASE <- 16, IMAGE <- 4, UPLOAD <- 6, PASSWORD <- 18,
                               Numbers <- MCNumbers, Images <- MCImages, MaxSteps <- 1, MaxResets <- 2

-----------------------------------------------------------------------------
OneBoot == Board!NewBoot(FALSE, [k \in 0..1 |-> Board!Erased])
OneStart == CHOOSE b \in MCStarts : TRUE
MCInit == \/ part = "library" /\ call \in Library!MCCalls /\ result = <<>> /\ InitWith(OneStart) /\ boot = OneBoot
          \/ part = "cpu"     /\ call = <<"none">> /\ result = <<>> /\ Init /\ boot = OneBoot
          \/ part = "board"   /\ call = <<"none">> /\ result = <<>> /\ InitWith(OneStart) /\ Board!BootInit
MCNext == \/ part = "library" /\ Library!Next /\ UNCHANGED <<part, boot, vars>>
          \/ part = "cpu"     /\ Next /\ UNCHANGED <<part, boot, call, result>>
          \/ part = "board"   /\ Board!BootNext /\ UNCHANGED <<part, call, result, vars>>
MCSpec == MCInit /\ [][MCNext]_<<vars, call, result, boot, part>>

-----------------------------------------------------------------------------
(* The properties of Arith and of Bootldr. *)

\* Additions, products, quotients, roots and series of floats (math.c); memory,
\* strings, numbers as text and sorting, dates, checksums and CRCs (libc.c,
\* tcpip.c, uart.c).
LibrariesRight == /\ Library!FloatsRight
                  /\ Library!MemoryRight /\ Library!TextRight /\ Library!SortRight
                  /\ Library!TimeRight /\ Library!SumsRight

\* What is started is what was to be copied or sent, and a number is the one
\* that the terminal shows (bootldr.c, netutil.c).
BootRight == part = "board" => Board!ImagesRight /\ Board!NumbersRight
=============================================================================
