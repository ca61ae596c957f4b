----------------------------- MODULE MCTsvTool ------------------------------
(***************************************************************************)
(* Lines of two sensors and four times, with an empty unit, an empty       *)
(* value, numbers and texts, one line without its fifth column and a blank *)
(* line.  Chunks of 4 to 13 tokens end at many places of a line of eight   *)
(* or nine, and one of 30 takes three lines at once.                       *)
(*                                                                         *)
(* "t2+" has a fifth decimal, which is not packed, and "t3" is "t2" in its *)
(* first fifteen characters.  Of "4294967303" 32 bits are a 7, and "openX" *)
(* begins with "open".  Sensor "b" is too long with the unit "uu".         *)
(***************************************************************************)
EXTENDS TsvTool

MCTick == ("0" :> 0) @@ ("t1" :> 1) @@ ("t2" :> 2) @@ ("t2+" :> 2) @@ ("t3" :> 3)
MCShown == (0 :> "0") @@ (1 :> "t1") @@ (2 :> "t2") @@ (3 :> "t3")
MCCut == ("0" :> 0) @@ ("t1" :> 1) @@ ("t2" :> 2) @@ ("t2+" :> 3) @@ ("t3" :> 2)

MCLong == {<<<<"b">>, <<"uu">>>>}

MCValueTexts == {"7", "-3", "1.5", "open", "openX", "2019-12-06", "4294967303"}

Number(type, x) == [type |-> type, text |-> <<x>>]

MCReading ==
  [x \in MCValueTexts |->
     CASE x = "-3" -> Number("INT_NEG", x)
       [] x = "1.5" -> Number("DOUBLE", x)
       [] x = "2019-12-06" -> Number("INT_POS", "7")
       [] x \in {"7", "4294967303"} -> Number("INT_POS", x)
       [] OTHER -> [type |-> "STRING", text |-> <<x>>]]

MCWhole ==
  ("7" :> 7) @@ ("-3" :> -3) @@ ("1.5" :> 1) @@ ("open" :> 0) @@ ("openX" :> 0) @@ ("2019-12-06" :> 7)
    @@ ("4294967303" :> 8)    \* any other integer

MCLow == MCReading["4294967303"] :> MCReading["7"]
MCExtends == {<<MCReading["open"], MCReading["openX"]>>}

Line(t, n, u, v) == <<t, TAB, n, TAB, TAB>> \o u \o <<TAB>> \o v

MCLines ==
  {Line("t1", "a", <<"u">>, <<"7">>), Line("t1", "b", <<>>, <<"open">>), Line("t1", "a", <<"u">>, <<>>),
   Line("t2", "a", <<"u">>, <<"-3">>), Line("t2", "b", <<"uu">>, <<"1.5">>), Line("t3", "b", <<>>, <<"openX">>),
   Line("t3", "a", <<"u">>, <<"-3">>), Line("t1", "a", <<"u">>, <<"4294967303">>),
   Line("t2+", "a", <<"u">>, <<"2019-12-06">>), <<"t1", TAB, "b", TAB, TAB>>, <<>>}
=============================================================================
