------------------------ MODULE MCMsgpackSerializer ------------------------
(* Bytes of two bits, so that the formats of 1, 2, 4 and 8 bytes end at 4,    *)
(* 16, 256 and 65536 and every boundary between two of them is among the      *)
(* arguments.                                                                 *)
EXTENDS MsgpackSerializer, TLC

Numbers == {0, 1, 2, 3, 4, 15, 16, 255, 256, 8191,
            -1, -2, -3, -8, -9, -128, -129, -256, -257, -8191}
BigInts == {2, 8191, 8192, 65535, 65536, -2, -8191, -8192, -8193, -32768, -32769}
Lengths == {0, 1, 2, 3, 4, 15, 16}
Ones(n) == [i \in 1..n |-> 1]
Nils(n) == [i \in 1..n |-> <<"null">>]

One == <<"number", 1>>
Text(b) == <<"string", <<b>>>>
Fraction == <<"float", <<1, 2, 3, 0, 1, 2, 3, 0>>>>

Nestings ==
  {<<"array", Nils(n)>> : n \in {0, 1, 2, 14, 15, 16}} \cup
  {<<"map", [i \in 1..n |-> <<<<"number", i>>, One>>]>> : n \in {1, 2, 14, 15}} \cup
  {<<"array", <<<<"array", <<One>>>>, <<"undefined">>>>>>,
   <<"set", <<One, Fraction>>>>,
   <<"typed", <<One, <<"number", -5>>>>>>,
   <<"object", <<<<Text(1), <<"date", 5>>>>, <<Text(2), <<"array", <<>>>>>>>>>>,
   <<"map", <<<<One, Text(1)>>, <<<<"string", <<1>>>>, Text(2)>>>>>>,
   <<"map", <<<<<<"bigint", 2>>, One>>>>>>,
   <<"map", <<<<<<"null">>, One>>>>>>}

Torn ==
  {<<"symbol">>, <<"function">>, <<"string", Ones(256)>>, <<"bytes", Ones(256)>>, <<"ext", 1, Ones(256)>>,
   <<"array", <<<<"bytes", Ones(256)>>>>>>, <<"array", <<One, <<"symbol">>>>>>,
   <<"object", <<<<Text(1), One>>, <<Text(2), <<"function">>>>>>>>, <<"ext", 2, <<1>>>>}

Dates == {0, 1, 5, 1275, 1276, 1280, 5119, 5120, -1, -5, -7}

MCArgs ==
  {<<"number", n>> : n \in Numbers} \cup {<<"bigint", n>> : n \in BigInts} \cup
  {<<"float", <<1, 2, 3, 0, 0, 0, 0, 0>>>>, Fraction,
   <<"boolean", TRUE>>, <<"boolean", FALSE>>, <<"null">>, <<"string", <<3, 1>>>>} \cup
  {<<type, Ones(n)>> : type \in {"string", "bytes"}, n \in Lengths} \cup
  {<<"date", ms>> : ms \in Dates} \cup
  {<<"ext", 1, Ones(n)>> : n \in {1, 2, 3, 4, 5, 8, 16, 17}} \cup
  {<<"ext", 0, Ones(2)>>, <<"ext", -2, <<>>>>} \cup Nestings \cup Torn

\* The arguments and what is in them, at most two deep, and how deep it is.
PartsOf(v) == IF v \in Scalars THEN {} ELSE {Parts(v)[i] : i \in 1..Len(Parts(v))}
WithParts(S) == S \cup UNION {PartsOf(v) : v \in S}
MCValues == WithParts(WithParts(MCArgs))

MCDepth[v \in MCValues] ==
  IF PartsOf(v) = {} THEN 0 ELSE 1 + Max({MCDepth[w] : w \in PartsOf(v)})

MCHandled == (1 :> 1) @@ (-2 :> 1)
=============================================================================
