---------------------------- MODULE MCAddressRange ----------------------------
(* A text of a few words on three lines or fewer, with and without a newline *)
(* at the end, and two commands on it.                                       *)
EXTENDS AddressRange

MCOrder == <<"tab", "x", "y">>
MCTab == "tab"
MCAmp == "&"
MCNl == "nl"
MCTexts == {<<"x", "nl", "y", "nl", "x", "x", "nl">>, <<"y", "nl", "x", "nl", "x">>}
MCAddresses == {[base |-> "number", off |-> 1], [base |-> "number", off |-> 2],
                [base |-> "last", off |-> 0], [base |-> "mark", off |-> 0],
                [base |-> "search", word |-> "x"]}
MCGlobals == {<<[base |-> "number", off |-> 1], [base |-> "last", off |-> 0]>>,
              <<[base |-> "number", off |-> 1], [base |-> "number", off |-> 2]>>}
MCInserts == {<<>>, <<"x", "nl">>}
MCSubs == {[pattern |-> "x", with |-> <<"&", "y">>, option |-> "all"],
           [pattern |-> "x", with |-> <<>>, option |-> "first"],
           [pattern |-> "y", with |-> <<"x">>, option |-> "kept"]}
MCNested == {<<"d">>, <<"m$">>, <<"s">>, <<"y">>, <<"ka", "d">>, <<"y", "d">>}
MCNestedSub == [pattern |-> "x", with |-> <<"y">>, option |-> "kept"]
===============================================================================
