------------------------------- MODULE MCCalc -------------------------------
EXTENDS Calculations
MCNumbers == (-1)..250

\* Whole numbers, and 1/3, 1/25, 1.005 and 1/2: a fraction limit_denominator finds
\* again, one it makes 0 of, one a float shortens, and one that stays.
Whole2 == {<<n, 1>> : n \in (-1)..2}
Decimals == {<<0, 1>>, <<333, 1000>>, <<1, 25>>, <<201, 200>>, <<-1, 2>>}
NotANumber == <<0, 0>>

Rows2(entries, rights) ==
    {[matrix |-> <<<<a, b>>, <<c, d>>>>, constants |-> <<e, f>>] :
        a, b, c, d \in entries, e, f \in rights}

MCSystems ==
    Rows2(Whole2, {<<0, 1>>, <<2, 1>>, <<3, 1>>})
    \cup Rows2(Decimals, {<<1, 1>>, <<1, 25>>})
    \cup {[matrix |-> <<<<<<a, 1>>, <<b, 1>>, <<2, 1>>>>, <<<<1, 1>>, <<c, 1>>, <<d, 1>>>>,
                        <<<<e, 1>>, <<1, 1>>, <<f, 1>>>>>>,
            constants |-> <<<<1, 1>>, <<0, 1>>, <<3, 1>>>>] :
            a, b, c, d, e, f \in {0, 1, 2}}
    \cup {[matrix |-> <<<<<<1, 1>>>>>>, constants |-> <<<<1, 1>>>>],
          [matrix |-> <<<<<<1, 1>>, <<2, 1>>>>, <<<<1, 1>>>>>>, constants |-> <<<<1, 1>>, <<1, 1>>>>],
          [matrix |-> <<<<<<1, 1>>, NotANumber>>, <<<<1, 1>>, <<2, 1>>>>>>,
           constants |-> <<<<1, 1>>, <<1, 1>>>>],
          [matrix |-> <<<<<<1, 1>>, <<2, 1>>>>, <<<<2, 1>>, <<1, 1>>>>>>, constants |-> <<<<1, 1>>>>]}
MCLists == {<<a>> : a \in 1..2} \cup {<<a, b>> : a, b \in (-6)..6}
           \cup {<<a, b, c>> : a, b, c \in {-4, 3, 6, 10, 14}}
MCExponents == (-4)..2
=============================================================================
