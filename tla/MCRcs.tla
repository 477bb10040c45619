------------------------------- MODULE MCRcs --------------------------------
(***************************************************************************)
(* The instance of Rcs that TLC checks: lines that lead to each end of     *)
(* main, with numbers as in MCInput. 0.5 is scanned as frequency 0, 120M   *)
(* is above half the range of a uint32_t and 250M beyond it, and 69 is a   *)
(* hold time of five seconds. rtl_fm sends at most three samples.          *)
(***************************************************************************)
EXTENDS Rcs, MCInput

RcsInts   == MCInts @@ ("1" :> 1 @@ "2" :> 2)

One(mode, flags) == Line(<<Word("scan"), Range, Word(mode)>> \o flags)

RcsLines ==
  {Line(<<>>), Line(<<Word("scan"), Range>>), Line(<<Word("scan"), Range, <<"wbfm2">> >>),
   One("wbfm", <<>>),
   One("am", << <<"-", "v">>, <<"-", "h", "1">>, <<"-", "-", "hold-time">>, <<"2">> >>),
   One("fm", << <<"-", "h">>, <<"-", "1">> >>), One("fm", << <<"-", "h", "69">> >>),
   One("fm", << <<"-", "t", "1">>, <<"-", "x">> >>)}
  \cup {Line(<<Word("scan"), r, <<"FM">>, <<"-", "h", "1">> >>) :
          r \in {<<"101.625", "k">>, <<"0.5">>, <<"120", "M">>, <<"250", "M">>,
                 <<"101.5", "-", "109.5">>, <<"101.5", "-", "101.625">>}}

RcsBanner == {3}
=============================================================================
