------------------------------ MODULE MCConfig ------------------------------
(* Two variables, the program sets one of them itself; a name nobody registered *)
(* and one that ListAllMember rejects.                                          *)
EXTENDS Config

MCVars     == {"a", "b"}
MCDirect   == {"b"}
MCListed   == {"a", "b", "other"}
MCDefault  == [name \in MCVars |-> 0]
MCContents ==
    { Broken,
      << <<"a", 1>>, <<"b", -1>> >>,
      << <<"other", 1>>, <<"b", BadText>>, <<"a", 2>>, <<"b", 1>> >>,
      << <<"a", 2>>, <<"nine.9", 2>>, <<"a", 3>>, <<"a", 1>> >> }
=============================================================================
