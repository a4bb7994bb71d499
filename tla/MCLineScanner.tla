---------------------------- MODULE MCLineScanner ----------------------------
(* Lines of VHDL for the runs of LineScanner.                                *)
EXTENDS LineScanner

\* Words with a mark that does not stand alone: /*x*/, wait--x, buffer/*, x*/to,
\* the string literals "--" and "x -- y", and the comment that ends with */--.
Glued ==
    {[text |-> "/*x*/",    first |-> "/*",    inner |-> "",   last |-> "*/"],
     [text |-> "wait--x",  first |-> "",      inner |-> "--", last |-> ""],
     [text |-> "buffer/*", first |-> "",      inner |-> "",   last |-> "/*"],
     [text |-> "x*/to",    first |-> "",      inner |-> "*/", last |-> ""],
     [text |-> "'--'",     first |-> "quote", inner |-> "--", last |-> "quote"],
     [text |-> "'x",       first |-> "quote", inner |-> "",   last |-> ""],
     [text |-> "y'",       first |-> "",      inner |-> "",   last |-> "quote"],
     [text |-> "*/--",     first |-> "*/",    inner |-> "",   last |-> "--"]}

Alone(t) == [text |-> t, first |-> IF t \in {"--", "/*"} THEN t ELSE "",
             inner |-> "", last |-> IF t = "*/" THEN t ELSE ""]

Read(t) == IF \E w \in Glued : w.text = t THEN CHOOSE w \in Glued : w.text = t ELSE Alone(t)

Line(t) == [words |-> [i \in DOMAIN t |-> Read(t[i])], info |-> {}, tab |-> FALSE]

\* -- Version ... ; /* Copyright ; library ... */ ; */
Version    == [Line(<<"--", "version">>) EXCEPT !.info = {"STD_02200", "STD_02300"}]
Begins     == [Line(<<"/*", "about">>) EXCEPT !.info = {"STD_02500"}]
Ends       == Line(<<"this", "library", "*/">>)
EndsThen   == Line(<<"*/", "buffer", "--">>)
Dashes     == Line(<<"--", "*/">>)
Closed     == Line(<<"/*x*/", "wait">>)
Blank      == Line(<<>>)

\* wait--x downto; signal s : buffer/* to ... ; x*/to wait ; */-- wait
GluedLine  == Line(<<"wait--x", "downto">>)
GluedBlock == Line(<<"array", "buffer/*", "library">>)
GluedEnd   == Line(<<"x*/to", "wait">>)
EndsAgain  == Line(<<"*/--", "wait">>)

\* assert "--" ... ; assert "x -- y" ...
Literal    == Line(<<"array", "'--'", "downto">>)
Misleading == Line(<<"'x", "--", "y'", "/*", "library">>)

\* library ieee; -- ...
Library    == Line(<<"library", "ieee">>)
Indented   == [Line(<<"entity", "'Z'">>) EXCEPT !.tab = TRUE]

\* type t is array (natural range <>) of std_logic;
Unbounded  == Line(<<"array", "natural", "std_logic">>)
\* type t is array (7 downto 0) of std_logic_vector(0 to 7);
BothWrong  == Line(<<"array", "downto", "std_logic_vector", "to">>)
\* signal s : std_logic_vector(7 downto 0);
Right      == Line(<<"signal", "std_logic_vector", "downto">>)

\* procedure f (v : std_logic_vector; ...
Unconstrained == Line(<<"v", "std_logic_vector">>)

\* package p is ; use work.q.all; ; package body p is ; end package p;
Package    == Line(<<"package", "p", "is">>)
Use        == Line(<<"use", "work", "q", "all">>)
UseIeee    == Line(<<"use", "ieee", "numeric_std", "all">>)
Body       == Line(<<"package", "body", "p", "is">>)
EndPackage == Line(<<"end", "package", "p">>)

MCLines == {Version, Begins, Ends, EndsThen, Dashes, Closed, Blank, Library, Indented,
            GluedLine, GluedBlock, GluedEnd, EndsAgain, Literal, Misleading,
            Unbounded, BothWrong, Right, Unconstrained, Package, Use, UseIeee, Body, EndPackage}

MCWords == UNION {{l.words[j] : j \in DOMAIN l.words} : l \in MCLines}

MCProfiles == {Rules, Rules \ {"STD_02300", "CNE_02700"}, Rules \ {"STD_02500", "CNE_05400"}}
=============================================================================
