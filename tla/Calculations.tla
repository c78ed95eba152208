---------------------------- MODULE Calculations ----------------------------
(***************************************************************************)
(* The exact tools of the mathematics worker (modules/agent/               *)
(* domain_tools.py), one step per turn of their loops: trial division,     *)
(* Gauss-Jordan elimination over fractions, and the greatest common        *)
(* divisor and least common multiple of a list.                            *)
(*   tool, given : the call                                                *)
(*   working     : the loop's own variables                                *)
(*   verdict     : "open" until the tool answers                           *)
(* A fraction is <<numerator, denominator>> in lowest terms; a value that  *)
(* is no finite number has the denominator 0.                              *)
(***************************************************************************)
EXTENDS Integers, Sequences, FiniteSetsExt, Functions

CONSTANTS Numbers, Systems, Lists,          \* what the tools may be given
          MaxFactored, MaxUnknowns, MaxCount, MaxValue, DisplayLimit,
          FloatDigits, Exponents,           \* what a float keeps of a number
          MaxDenominator,                   \* of a coefficient: 10 ** 9
          Places                            \* of a value that is returned: 10

VARIABLES tool, given, working, verdict

calcVars == <<tool, given, working, verdict>>

Abs(n) == IF n < 0 THEN -n ELSE n

Divides(d, n) == n % d = 0

Euclid[a, b \in Nat] == IF b = 0 THEN a ELSE Euclid[b, a % b]

\* math.gcd
Gcd(a, b) == Euclid[Abs(a), Abs(b)]

-----------------------------------------------------------------------------

Factorable(n) == 2 <= n /\ n <= MaxFactored

NoFactors == [remaining |-> given, divisor |-> 2, factors |-> [p \in {} |-> 0]]

WithFactor(f, p) == [q \in DOMAIN f \cup {p} |-> IF q # p THEN f[q]
                                                 ELSE IF p \in DOMAIN f THEN f[p] + 1 ELSE 1]

\* 2, 3, 5, then two and four further in turn.
NextDivisor(d) ==
    IF d = 2 THEN 3 ELSE IF d = 3 THEN 5 ELSE IF d % 6 = 5 THEN d + 2 ELSE d + 4

Trying == tool = "prime_factorize" /\ verdict = "open"

Exhausted == working.divisor >= 5 /\ working.divisor * working.divisor > working.remaining

DivideOut ==
    /\ Trying /\ ~Exhausted /\ Divides(working.divisor, working.remaining)
    /\ working' = [working EXCEPT !.remaining = @ \div working.divisor,
                            !.factors = WithFactor(@, working.divisor)]
    /\ UNCHANGED <<tool, given, verdict>>

NextTrial ==
    /\ Trying /\ ~Exhausted /\ ~Divides(working.divisor, working.remaining)
    /\ working' = [working EXCEPT !.divisor = NextDivisor(@)]
    /\ UNCHANGED <<tool, given, verdict>>

\* What is left, if anything, is a prime.
LastFactor ==
    /\ Trying /\ Exhausted
    /\ working' = IF working.remaining > 1
               THEN [working EXCEPT !.factors = WithFactor(@, working.remaining)] ELSE working
    /\ verdict' = IF DOMAIN working'.factors = {given} /\ working'.factors[given] = 1
                  THEN "prime" ELSE "composite"
    /\ UNCHANGED <<tool, given>>

-----------------------------------------------------------------------------

Fraction(p, q) ==
    LET g == Gcd(p, q)  s == IF q < 0 THEN -1 ELSE 1
    IN <<(s * p) \div g, (s * q) \div g>>

Quotient(a, b) == Fraction(a[1] * b[2], a[2] * b[1])
LessTimes(a, f, b) ==        \* a - f * b
    Fraction(a[1] * f[2] * b[2] - f[1] * b[1] * a[2], a[2] * f[2] * b[2])

Magnitude(x) == <<Abs(x[1]), x[2]>>
Distance(a, b) == Magnitude(LessTimes(a, <<1, 1>>, b))
AtMost(a, b) == a[1] * b[2] <= b[1] * a[2]

PowerOfTen(e) == IF e < 0 THEN <<1, 10 ^ (-e)>> ELSE <<10 ^ e, 1>>

\* The multiple of unit that is nearest to x, the even one of two.
Nearest(x, unit) ==
    LET y == Quotient(x, unit)
        below == y[1] \div y[2]
        over == 2 * (y[1] % y[2])
        n == IF over > y[2] \/ (over = y[2] /\ below % 2 = 1) THEN below + 1 ELSE below
    IN Fraction(n * unit[1], unit[2])

\* A float keeps FloatDigits digits of a number; this is the place of the last.
LastPlace(x) ==
    PowerOfTen(Max({Min(Exponents)} \cup
        {e \in Exponents : AtMost(PowerOfTen(e + FloatDigits - 1), Magnitude(x))}))

AsFloat(x) == Nearest(x, LastPlace(x))

\* Fraction.limit_denominator: the nearest fraction with a small denominator, of
\* two as near the one with the smaller.
Limited(x) ==
    IF x[2] <= MaxDenominator THEN x ELSE
    LET near == {Fraction(((x[1] * d) \div x[2]) + i, d) : d \in 1..MaxDenominator, i \in {0, 1}}
        nearest == {c \in near : \A other \in near : AtMost(Distance(x, c), Distance(x, other))}
    IN CHOOSE c \in nearest : \A other \in nearest : c[2] <= other[2]

\* _to_number, then Fraction(str(...)).limit_denominator.
Converted(x) == Limited(AsFloat(x))

\* _round(float(...)), of a value of the solution.
Rounded(x) == Nearest(AsFloat(x), PowerOfTen(-Places))

Unknowns == Len(given.matrix)

FiniteNumber(x) == x[2] # 0

Square(s) ==
    /\ Len(s.matrix) \in 2..MaxUnknowns /\ Len(s.constants) = Len(s.matrix)
    /\ \A i \in DOMAIN s.matrix :
        /\ Len(s.matrix[i]) = Len(s.matrix) /\ FiniteNumber(s.constants[i])
        /\ \A j \in DOMAIN s.matrix[i] : FiniteNumber(s.matrix[i][j])

Augmented ==
    [col |-> 1, rows |-> [i \in 1..Unknowns |->
        [j \in 1..(Unknowns + 1) |->
            Converted(IF j > Unknowns THEN given.constants[i] ELSE given.matrix[i][j])]]]

\* Mutant: the pivot is looked for among all rows.
PivotsAnywhere == {r \in 1..Unknowns : working.rows[r][working.col][1] # 0}

Pivots == {r \in working.col..Unknowns : working.rows[r][working.col][1] # 0}

Swapped(rows, i, j) == [rows EXCEPT ![i] = rows[j], ![j] = rows[i]]

\* One column: the first row with a pivot comes up, is scaled, and is taken from
\* every other row.
Reduce ==
    /\ tool = "solve_linear_system" /\ verdict = "open" /\ working.col <= Unknowns /\ Pivots # {}
    /\ LET col == working.col
           pivot == CHOOSE r \in Pivots : \A q \in Pivots : r <= q
           up == Swapped(working.rows, col, pivot)
           scaled == [j \in DOMAIN up[col] |-> Quotient(up[col][j], up[col][col])]
       IN working' = [col |-> col + 1,
                   rows |-> [r \in 1..Unknowns |->
                       IF r = col THEN scaled
                       ELSE [j \in DOMAIN scaled |-> LessTimes(up[r][j], up[r][col], scaled[j])]]]
    /\ UNCHANGED <<tool, given, verdict>>

ReductionEnds ==
    /\ tool = "solve_linear_system" /\ verdict = "open"
    /\ working.col > Unknowns \/ Pivots = {}
    /\ verdict' = IF working.col > Unknowns THEN "unique" ELSE "not unique"
    /\ working' = IF working.col > Unknowns
                  THEN [i \in 1..Unknowns |-> Rounded(working.rows[i][Unknowns + 1])] ELSE <<>>
    /\ UNCHANGED <<tool, given>>

-----------------------------------------------------------------------------

Countable(s) == /\ Len(s) \in 2..MaxCount
                /\ \A i \in DOMAIN s : s[i] # 0 /\ Abs(s[i]) <= MaxValue

FirstValue == [at |-> 2, gcd |-> given[1], lcm |-> given[1]]

Multiple(a, b) == Abs(a * b) \div Gcd(a, b)

\* The two loops run side by side; the second stops at the display limit.
Combine ==
    /\ tool = "gcd_lcm" /\ verdict = "open" /\ working.at <= Len(given)
    /\ LET n == given[working.at] IN
       working' = [at |-> working.at + 1, gcd |-> Gcd(working.gcd, n),
                lcm |-> IF working.lcm > DisplayLimit THEN working.lcm ELSE Multiple(working.lcm, n)]
    /\ UNCHANGED <<tool, given, verdict>>

CombinationEnds ==
    /\ tool = "gcd_lcm" /\ verdict = "open" /\ working.at > Len(given)
    /\ verdict' = IF working.lcm > DisplayLimit THEN "exceeds" ELSE "shown"
    /\ UNCHANGED <<tool, given, working>>

-----------------------------------------------------------------------------

Asked == \/ tool = "prime_factorize" /\ given \in Numbers
         \/ tool = "solve_linear_system" /\ given \in Systems
         \/ tool = "gcd_lcm" /\ given \in Lists

CalcAccepts == CASE tool = "prime_factorize" -> Factorable(given)
             [] tool = "solve_linear_system" -> Square(given)
             [] tool = "gcd_lcm" -> Countable(given)

CalcInit ==
    /\ Asked
    /\ verdict = IF CalcAccepts THEN "open" ELSE "refused"
    /\ working = CASE ~CalcAccepts -> <<>>
                [] CalcAccepts /\ tool = "prime_factorize" -> NoFactors
                [] CalcAccepts /\ tool = "solve_linear_system" -> Augmented
                [] CalcAccepts /\ tool = "gcd_lcm" -> FirstValue

CalcNext ==
    \/ DivideOut \/ NextTrial \/ LastFactor
    \/ Reduce \/ ReductionEnds
    \/ Combine \/ CombinationEnds

CalcSpec == CalcInit /\ [][CalcNext]_calcVars

-----------------------------------------------------------------------------

Prime(n) == n > 1 /\ \A d \in 2..(n - 1) : ~Divides(d, n)

\* The factors are primes, they and what is left of the number multiply to it
\* at every turn, and the verdict is right.
FactorsAreExact ==
    tool = "prime_factorize" /\ verdict # "refused" =>
        LET f == working.factors
            product == FoldFunction(LAMBDA x, y : x * y, 1, [p \in DOMAIN f |-> p ^ f[p]])
        IN /\ \A p \in DOMAIN f : Prime(p)
           /\ given = IF verdict = "open" THEN product * working.remaining ELSE product
           /\ verdict # "open" => (verdict = "prime" <=> Prime(given))

Times(a, b) == LessTimes(<<0, 1>>, <<-a[1], a[2]>>, b)
Cross(a, b, c, d) == LessTimes(Times(a, d), b, c)
Minor(m, j, k) == Cross(m[2][j], m[2][k], m[3][j], m[3][k])

Determinant(m) ==
    IF Len(m) = 2 THEN Cross(m[1][1], m[1][2], m[2][1], m[2][2])
    ELSE LessTimes(LessTimes(Times(m[1][1], Minor(m, 2, 3)), m[1][2], Minor(m, 1, 3)),
                   m[1][3], Minor(m, 2, 1))

Coefficients == [i \in 1..Unknowns |-> [j \in 1..Unknowns |-> Converted(given.matrix[i][j])]]

\* The exact value of an unknown, by Cramer's rule.
Cramer(k) ==
    Quotient(Determinant([i \in 1..Unknowns |->
                             [Coefficients[i] EXCEPT ![k] = Converted(given.constants[i])]]),
             Determinant(Coefficients))

\* No more than half a unit of the last digit that is kept, of the float and of
\* the value that is returned.
HalfADigit(x) ==
    LessTimes(Quotient(LastPlace(x), <<2, 1>>), <<-1, 2>>, PowerOfTen(-Places))

\* "Exact answers instead of float noise": of the equations as they are converted,
\* the tool says there is no unique solution exactly when the determinant is zero,
\* and otherwise nothing is lost before the last rounding, whatever rows are swapped
\* and scaled on the way.
SolutionIsExact ==
    tool = "solve_linear_system" /\ verdict \in {"unique", "not unique"} =>
        /\ verdict = "unique" <=> Determinant(Coefficients)[1] # 0
        /\ verdict = "unique" =>
              \A k \in 1..Unknowns : AtMost(Distance(working[k], Cramer(k)), HalfADigit(Cramer(k)))

DividesAll(d) == \A i \in DOMAIN given : Divides(d, given[i])
MultipleOfAll(m) == \A i \in DOMAIN given : Divides(Abs(given[i]), m)

\* The divisor is the greatest that divides every value, the multiple the least
\* every value divides, and it is withheld exactly when it is over the limit.
DivisorAndMultipleAreExact ==
    tool = "gcd_lcm" /\ verdict \in {"shown", "exceeds"} =>
        /\ DividesAll(working.gcd) /\ \A d \in (working.gcd + 1)..Abs(given[1]) : ~DividesAll(d)
        /\ \A m \in 1..DisplayLimit :
              MultipleOfAll(m) => verdict = "shown" /\ working.lcm <= m
        /\ verdict = "shown" => MultipleOfAll(working.lcm)

\* Each exact tool returns what it says: factors, a divisor and a multiple as they
\* are, and the solution of a system, its numbers cut to fractions with denominators
\* of 10 ** 9 before and to ten places after, without further loss.
CalculationsAreExact == FactorsAreExact /\ SolutionIsExact /\ DivisorAndMultipleAreExact

=============================================================================
