---------------------------- MODULE PlasmaFloat ----------------------------
(***************************************************************************)
(* Single precision in software (trunk/kernel/math.c). A float is the      *)
(* triple <<sign, exponent, fraction>> of the fields of its 32 bits; the   *)
(* compiler calls FP_Add, FP_Mult... for the operators of C.               *)
(***************************************************************************)
EXTENDS Integers, SequencesExt

One23 == 2 ^ 23
Zero  == <<0, 0, 0>>
\* The 24 bits with the implied one: zero has it too.
Full(a) == One23 + a[3]
Negated(sign, n) == IF sign = 1 THEN -n ELSE n
\* A quotient of C: towards zero.
Quot(a, b) == IF a < 0 THEN -((-a) \div b) ELSE a \div b

\* (sign << 31) | (exponent << 23) | fraction, of p = <<exponent, bits>>: an
\* exponent beyond 255 gets into the sign.
Pack(s, p) == IF p[1] < 1 THEN Zero ELSE <<IF (p[1] \div 256) % 2 = 1 THEN 1 ELSE s, p[1] % 256, p[2] % One23>>

\* The two loops that bring the bits back to 24 of them.
Lower(p) == LET k == CHOOSE n \in 0 .. 7 : p[2] \div 2 ^ n < 2 * One23 /\ (n > 0 => p[2] \div 2 ^ (n - 1) >= 2 * One23)
            IN <<p[1] + k, p[2] \div 2 ^ k>>
Raise(p) == IF p[2] >= One23 THEN p
            ELSE LET k == CHOOSE n \in 0 .. 23 : p[2] * 2 ^ n >= One23 IN <<p[1] - k, p[2] * 2 ^ k>>

\* The float of a number whose lowest bit has the weight of the last place at exponent e.
Normalized(e, n) ==
    IF n = 0 THEN Zero
    ELSE IF n > 0 THEN Pack(0, Raise(Lower(<<e, n>>))) ELSE Pack(1, Raise(Lower(<<e, -n>>)))

FP_Neg(a) == <<1 - a[1], a[2], a[3]>>

\* Mutant: the smaller operand stays where it is.
Aligned_not(a, e) == IF e - a[2] < 30 THEN Full(a) ELSE 0

\* af or bf, shifted to the greater exponent.
Aligned(a, e) == IF e - a[2] < 30 THEN Full(a) \div 2 ^ (e - a[2]) ELSE 0

FP_Add(a, b) ==
    LET e == IF a[2] > b[2] THEN a[2] ELSE b[2]
    IN Normalized(e, Negated(a[1], Aligned(a, e)) + Negated(b[1], Aligned(b, e)))
FP_Sub(a, b) == FP_Add(a, FP_Neg(b))

\* Bits bits.. and up of the 64-bit product, in parts of 12 bits; bits is 23 or 24.
ProductFrom(a, b, bits) ==
    LET a1 == a % 4096  a2 == a \div 4096  b1 == b % 4096  b2 == b \div 4096
        middle == a2 * b1 + a1 * b2 + (a1 * b1) \div 4096
    IN a2 * b2 * 2 ^ (24 - bits) + middle \div 2 ^ (bits - 12)

XorSign(a, b) == (a[1] + b[1]) % 2
FP_Mult(a, b) ==
    Pack(XorSign(a, b), Lower(<<a[2] + b[2] - 128 + 1, ProductFrom(Full(a), Full(b), 23)>>))

\* The first quotient, 13 bits of it, and the remainder it leaves.
Quotient(a, b)  == ((Full(a) * 16) \div (Full(b) \div 256)) * 4096
Remainder(a, b) == Full(a) - ProductFrom(Quotient(a, b), Full(b), 24)
FP_Div(a, b) ==
    LET cf == Quotient(a, b) + Quot(Remainder(a, b) * 65536, Full(b) \div 256)
    IN Pack(XorSign(a, b), Lower(<<a[2] - (b[2] - 128) + 6 - 8, cf>>))

FP_ToLong(a) ==
    LET shift == -(a[2] - 128 - 29)
        f     == Full(a) * 128
    IN Negated(a[1], IF shift <= 0 THEN f ELSE IF shift < 31 THEN f \div 2 ^ shift ELSE 0)
FP_ToFloat(n) == Normalized(128 + 22, n)

\* 0 iff a = b, 1 iff a > b, -1 iff a < b.
FP_Cmp(a, b) ==
    LET gt == IF a[1] = 1 THEN -1 ELSE 1
    IN IF a = b THEN 0
       ELSE IF a[1] # b[1] THEN b[1] - a[1]
       ELSE IF a[2] # b[2] THEN (IF a[2] > b[2] THEN gt ELSE -gt)
       ELSE IF a[3] > b[3] THEN gt ELSE -gt

\* The constants of the code, as the compiler rounds them.
One       == <<0, 127, 0>>
Two       == <<0, 128, 0>>
Sixteen   == <<0, 131, 0>>
half      == <<0, 126, 0>>
OneHalf   == <<0, 127, 4194304>>
sixteenth == <<0, 123, 0>>
PI        == <<0, 128, 4788186>>
PI_2      == <<0, 127, 4788186>>
PI2       == <<0, 129, 4788186>>
b8        == <<0, 125, 4788186>>
atan_b    == <<0, 125, 4167349>>
near      == <<0, 125, 6710886>>
fudge     == <<0, 122, 908117>>
e2        == <<0, 129, 7107366>>
inv_e2    == <<0, 124, 693589>>
log_2     == <<0, 126, 3240472>>
log_16    == <<0, 128, 3240472>>

\* Ten steps of the secant method from 1 and 100.
FP_Sqrt(a) ==
    LET Y(x) == FP_Sub(FP_Mult(x, x), a)
        Better(p, i) ==   \* p = <<x1, y1, x2, y2>>
            IF p[2] = p[4] THEN p
            ELSE LET x3 == FP_Sub(p[3], FP_Div(FP_Mult(FP_Sub(p[1], p[3]), p[4]), FP_Sub(p[2], p[4])))
                 IN <<p[3], p[4], x3, Y(x3)>>
        Hundred == FP_ToFloat(100)
    IN FoldLeft(Better, <<One, Y(One), Hundred, Y(Hundred)>>, [i \in 1 .. 10 |-> i])[3]

\* The loops that bring an argument into the range of the series.
RECURSIVE DownTo(_, _), UpTo(_, _)
DownTo(x, top) == IF FP_Cmp(x, top) > 0 THEN DownTo(FP_Sub(x, top), top) ELSE x
UpTo(x, step)  == IF FP_Cmp(x, Zero) < 0 THEN UpTo(FP_Add(x, step), step) ELSE x

\* p = <<angle, sign>>, brought below half and then below a quarter of a turn.
BelowHalf(p)    == IF FP_Cmp(p[1], PI) >= 0 THEN <<FP_Sub(p[1], PI), FP_ToFloat(-1)>> ELSE p
BelowQuarter(p) == IF FP_Cmp(p[1], PI_2) >= 0 THEN <<FP_Sub(PI, p[1]), FP_Neg(p[2])>> ELSE p
CosSeries(p) ==
    LET x2 == FP_Mult(p[1], p[1])
        Term(q, n) ==   \* q = <<top, bottom, answer>>
            LET top    == FP_Mult(q[1], FP_Neg(x2))
                bottom == FP_Mult(q[2], FP_ToFloat((n - 1) * n))
            IN <<top, bottom, FP_Add(q[3], FP_Div(top, bottom))>>
    IN FP_Mult(FoldLeft(Term, <<One, One, One>>, <<2, 4, 6, 8, 10>>)[3], p[2])
FP_Cos(angle) == CosSeries(BelowQuarter(BelowHalf(<<UpTo(DownTo(angle, PI2), PI2), One>>)))
FP_Sin(angle) == FP_Cos(FP_Sub(angle, PI_2))

\* x - x^3/3 + x^5/5..., for small x.
AtanSeries(x) ==
    LET x2 == FP_Mult(FP_Neg(x), x)
        Term(p, n) == LET top == FP_Mult(p[1], x2) IN <<top, FP_Add(p[2], FP_Div(top, FP_ToFloat(n)))>>
    IN FoldLeft(Term, <<x, x>>, <<3, 5, 7, 9, 11, 13>>)[2]
RECURSIVE FP_Atan(_)
AtanShifted(x) == FP_Div(FP_Sub(x, atan_b), FP_Add(One, FP_Mult(x, atan_b)))
FP_Atan(x) ==
    LET Turned(y) == FP_Sub(FP_Add(b8, FP_Atan(AtanShifted(y))), fudge)
    IN IF FP_Cmp(x, Zero) >= 0 /\ FP_Cmp(x, One) > 0 THEN FP_Sub(PI_2, FP_Atan(FP_Div(One, x)))
       ELSE IF FP_Cmp(x, Zero) < 0 /\ FP_Cmp(x, FP_Neg(One)) > 0 THEN FP_Sub(FP_Neg(PI_2), FP_Atan(FP_Div(One, x)))
       ELSE IF FP_Cmp(x, near) > 0 THEN Turned(x)
       ELSE IF FP_Cmp(x, FP_Neg(near)) < 0 THEN FP_Neg(Turned(FP_Neg(x)))
       ELSE AtanSeries(x)
\* The quotient has lost which of the signs was whose.
Quadrant(answer, y, x) ==
    IF FP_Cmp(x, Zero) >= 0 THEN answer
    ELSE IF FP_Cmp(y, Zero) > 0 THEN FP_Add(answer, PI) ELSE FP_Sub(answer, PI)
FP_Atan2(y, x) == Quadrant(FP_Atan(FP_Div(y, x)), y, x)

RECURSIVE ExpRange(_, _)
ExpRange(x, mult) ==
    IF FP_Cmp(x, Two) > 0 THEN ExpRange(FP_Add(x, FP_Neg(Two)), FP_Mult(mult, e2))
    ELSE IF FP_Cmp(x, FP_Neg(Two)) < 0 THEN ExpRange(FP_Add(x, Two), FP_Mult(mult, inv_e2))
    ELSE <<x, mult>>
\* r = <<x, mult>>
ExpSeries(r) ==
    LET Term(p, n) ==   \* p = <<top, bottom, answer>>
            LET top    == FP_Mult(p[1], r[1])
                bottom == FP_Mult(p[2], FP_ToFloat(n))
            IN <<top, bottom, FP_Add(p[3], FP_Div(top, bottom))>>
    IN FP_Mult(FoldLeft(Term, <<r[1], One, FP_Add(One, r[1])>>, [i \in 1 .. 13 |-> i + 1])[3], r[2])
FP_Exp(arg) == ExpSeries(ExpRange(arg, One))

RECURSIVE LogRange(_, _)
LogRange(x, add) ==
    IF FP_Cmp(x, Sixteen) > 0 THEN LogRange(FP_Mult(x, sixteenth), FP_Add(add, log_16))
    ELSE IF FP_Cmp(x, OneHalf) > 0 THEN LogRange(FP_Mult(x, half), FP_Add(add, log_2))
    ELSE IF FP_Cmp(x, half) < 0 THEN LogRange(FP_Mult(x, Two), FP_Sub(add, log_2))
    ELSE <<x, add>>
\* r = <<x, add>>
LogSeries(r) ==
    LET x == FP_Sub(r[1], One)
        Term(p, n) == LET top == FP_Mult(p[1], FP_Neg(x)) IN <<top, FP_Add(p[2], FP_Div(top, FP_ToFloat(n)))>>
    IN FP_Add(FoldLeft(Term, <<FP_Neg(One), Zero>>, [i \in 1 .. 13 |-> i])[2], r[2])
FP_Log(arg) == LogSeries(LogRange(arg, Zero))
FP_Pow(x, y) == FP_Exp(FP_Mult(y, FP_Log(x)))

(* -mno-mul: multiplication and division bit by bit, for words of w bits.   *)
RECURSIVE mulsi3(_, _, _, _)
mulsi3(a, b, answer, w) ==
    IF b = 0 THEN answer
    ELSE mulsi3((2 * a) % 2 ^ w, b \div 2, IF b % 2 = 1 THEN (answer + a) % 2 ^ w ELSE answer, w)
DivideMod(a0, b0, w) ==
    LET Bit(p, i) ==   \* p = <<upper, lower, a, b>>
            LET fits == p[1] >= p[3] /\ p[3] # 0 /\ p[4] < 2
            IN <<IF fits THEN p[1] - p[3] ELSE p[1], ((2 * p[2]) % 2 ^ w) + (IF fits THEN 1 ELSE 0),
                 (((p[4] \div 2) % 2) * 2 ^ (w - 1)) + (p[3] \div 2), p[4] \div 2>>
        last == FoldLeft(Bit, <<a0, 0, (b0 * 2 ^ (w - 1)) % 2 ^ w, b0>>, [i \in 1 .. w |-> i])
    IN <<last[2], last[1]>>
divsi3(a, b, w) ==
    LET Abs(n) == IF n < 0 THEN -n ELSE n
        answer == DivideMod(Abs(a), Abs(b), w)[1]
    IN IF (a < 0) # (b < 0) THEN -answer ELSE answer
=============================================================================
